SPECIFICATION Spec
CONSTANTS
  w1 = w1
  w2 = w2
  BUFF_SIZE = 6
  Largos <- DosCortas
  Hilos = {w1, w2}
  ConErrores = FALSE
INVARIANT LineasEnOrden
CHECK_DEADLOCK FALSE
