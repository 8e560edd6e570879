SPECIFICATION Spec
CONSTANTS
  a = a
  b = b
  Nodos = {a, b}
  Yo = a
  Periodo = 5
  Inicio = 2
  Vence = 15
  Demora = 2
  Lectura = 1
  MaxPerdidas = 1
  ConCaidas = TRUE
  MaxTiempo = 33
INVARIANT MuertoSeOlvida
PROPERTY VivoNoSeOlvida
CHECK_DEADLOCK FALSE
