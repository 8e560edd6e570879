SPECIFICATION FairSpec
CONSTANTS
  A = A
  B = B
  cpu = cpu
  mem = mem
  j1 = j1
  j2 = j2
  j3 = j3
  j4 = j4
  j5 = j5
  Nodos = {A, B}
  Tipos = {cpu, mem}
  Jobs = {j1, j2, j3, j4, j5}
  Total <- TotalMC
  Corte <- EnterasMC
  Yo = A
  Vecino = B
  Pedido <- PedidoConExceso
  Ajeno <- AjenoMC
  Abandono = {"JOB_RELEASE", "JOB_TIMEOUT"}
  ConRechazo = TRUE
  Cierran = {0, 2}
INVARIANTS OtorgadoCompleto ColaYTabla SinConexionesColgadas SinHuerfanas
PROPERTY TodosResponden
CHECK_DEADLOCK FALSE
