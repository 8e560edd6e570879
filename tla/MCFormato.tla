------------------------------- MODULE MCFormato -------------------------------
(* Instances of Formato for TLC. *)
EXTENDS Formato

Anuncio(comps) == [puerto |-> TRUE, comps |-> comps]

(* Two nodes that are told in different orders, one with nothing, and three*)
(* malformed texts: a repeated type, a missing one, an unknown one; a      *)
(* fourth component is not read.                                           *)
SieteAnuncios ==
  {Anuncio(<<Par("cpu", 1), Par("mem", 40), Par("gpu", 0)>>),
   Anuncio(<<Par("gpu", 2), Par("cpu", 0), Par("mem", 5), Par("cpu", 7)>>),
   Anuncio(<<Par("mem", 0), Par("cpu", 0), Par("gpu", 0)>>),
   Anuncio(<<Par("cpu", 3), Par("cpu", 4), Par("mem", 5)>>),
   Anuncio(<<Par("cpu", 3), Par("mem", 4)>>),
   Anuncio(<<Par("cpu", 3), Par("disk", 4), Par("mem", 5), Par("gpu", 6)>>),
   [puerto |-> FALSE, comps |-> <<Par("cpu", 1), Par("mem", 1), Par("gpu", 1)>>]}

Desordenadas == <<2, 3, 1>>
===============================================================================
