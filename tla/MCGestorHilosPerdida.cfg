SPECIFICATION Spec
CONSTANTS
  A = A
  B = B
  cpu = cpu
  mem = mem
  j1 = j1
  j2 = j2
  j3 = j3
  j4 = j4
  j5 = j5
  Nodos = {A, B}
  Tipos = {cpu, mem}
  Jobs = {j1, j2, j3, j4, j5}
  Total <- TotalMC
  Corte <- EnterasMC
  Yo = A
  Vecino = B
  Pedido <- PedidoConExceso
  Ajeno <- AjenoMC
  Abandono = {}
  ConRechazo = TRUE
  Cierran = {1}
INVARIANT SinHuerfanas
CHECK_DEADLOCK FALSE
