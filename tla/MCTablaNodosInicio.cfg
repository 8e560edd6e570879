SPECIFICATION Spec
CONSTANTS
  a = a
  b = b
  Nodos = {a, b}
  Yo = a
  Periodo = 5
  Inicio = 2
  Vence = 15
  Demora = 0
  Lectura = 1
  MaxPerdidas = 0
  ConCaidas = FALSE
  MaxTiempo = 40
INVARIANT TopologiaConocida
CHECK_DEADLOCK FALSE
