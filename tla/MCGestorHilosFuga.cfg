SPECIFICATION Spec
CONSTANTS
  A = A
  B = B
  cpu = cpu
  mem = mem
  j1 = j1
  j2 = j2
  j3 = j3
  j4 = j4
  j5 = j5
  Nodos = {A, B}
  Tipos = {cpu, mem}
  Jobs = {j1, j2, j3, j4}
  Total <- TotalMC
  Corte <- EnterasMC
  Yo = A
  Vecino = B
  Pedido <- PedidoMC
  Ajeno <- AjenoMC
  Abandono = {"JOB_RELEASE"}
  ConRechazo = TRUE
  Cierran = {}
INVARIANT AbandonadoSinRastro
CHECK_DEADLOCK FALSE
