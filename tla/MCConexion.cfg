SPECIFICATION FairSpec
CONSTANTS
  w1 = w1
  w2 = w2
  e1 = e1
  Hilos = {w1, w2}
  Emisores = {e1}
  BUFF_SIZE = 3
  Mensajes <- MensajesMC
  ConCierre = TRUE
  MaxBytes = 3
INVARIANTS DentroDelBuffer FlujoEnOrden EscrituraAvisada ExclusionSalvoVentana SinManejoLiberado
PROPERTIES TodoSeEnvia CierreSeAtiende
CHECK_DEADLOCK FALSE
