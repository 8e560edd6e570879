SPECIFICATION Spec
CONSTANTS
  A = A
  B = B
  C = C
  cpu = cpu
  mem = mem
  j1 = j1
  j2 = j2
  j3 = j3
  j4 = j4
  j5 = j5
  bCortada = bCortada
  Nodos <- DosNodos
  Tipos = {cpu, mem}
  Jobs <- JobsYaConectado
  Pedido <- PedidoYaConectado
  Rafagas <- RafagasYaConectado
  Total <- TotalUno
  Corte <- Enteras
  Visibles <- TodosVisibles
  ConTimeout = TRUE
  MaxCaidas = 0
  MaxErlang = 0
INVARIANT NadieDevuelveDeMas
CHECK_DEADLOCK FALSE
