SPECIFICATION Spec
CONSTANTS
  A = A
  B = B
  C = C
  cpu = cpu
  mem = mem
  j1 = j1
  j2 = j2
  j3 = j3
  j4 = j4
  j5 = j5
  bCortada = bCortada
  Nodos <- DosNodos
  Tipos = {cpu}
  Jobs <- JobsCruzados
  Pedido <- PedidoCruzados
  Rafagas <- RafagasCruzados
  Total <- TotalUno
  Corte <- Enteras
  Visibles <- TodosVisibles
  ConTimeout = FALSE
  MaxCaidas = 0
  MaxErlang = 1
INVARIANT SinFugas
CHECK_DEADLOCK FALSE
