------------------------------ MODULE MCConexion ------------------------------
(* Instances of Conexion for TLC. *)
EXTENDS Conexion

CONSTANTS w1, w2, e1

(* A message of two bytes and one of one byte, told apart byte by byte. *)
MensajesMC == {<<1, 2>>, <<3>>}

(* Messages of one length, so that a lost one is known to have had it. *)
MensajesIguales == {<<1, 2>>}
===============================================================================
