SPECIFICATION FairSpec
CONSTANTS
  w1 = w1
  w2 = w2
  BUFF_SIZE = 6
  Largos <- CuatroLineas
  Hilos = {w1}
  ConErrores = TRUE
INVARIANT LineasEnOrden
PROPERTY TodasSeProcesan
CHECK_DEADLOCK FALSE
