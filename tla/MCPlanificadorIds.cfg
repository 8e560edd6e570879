SPECIFICATION Spec
CONSTANTS
  RAFAGA = 2
  Sufijo = 3
  MaxRafagas = 2
  MaxVidas = 2
  ConCaida = FALSE
INVARIANT IdUnico
CHECK_DEADLOCK FALSE
