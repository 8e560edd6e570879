SPECIFICATION Spec
CONSTANTS
  w1 = w1
  w2 = w2
  e1 = e1
  Hilos = {w1, w2}
  Emisores = {e1}
  BUFF_SIZE = 4
  Mensajes <- MensajesMC
  ConCierre = TRUE
  MaxBytes = 3
INVARIANT SinUsoLiberado
CHECK_DEADLOCK FALSE
