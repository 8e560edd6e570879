SPECIFICATION Spec
CONSTANTS
  w1 = w1
  w2 = w2
  BUFF_SIZE = 6
  Largos <- UnaLarga
  Hilos = {w1}
  ConErrores = FALSE
INVARIANT SoloCierraElOtro
CHECK_DEADLOCK FALSE
