SPECIFICATION FairSpec
CONSTANTS
  A = A
  B = B
  C = C
  cpu = cpu
  mem = mem
  j1 = j1
  j2 = j2
  j3 = j3
  j4 = j4
  j5 = j5
  bCortada = bCortada
  Nodos <- TresNodos
  Tipos = {cpu, mem}
  Jobs <- JobsSinCiclo
  Pedido <- PedidoSinCiclo
  Rafagas <- RafagasSinCiclo
  Total <- TotalSinCiclo
  Corte <- Enteras
  Visibles <- TodosVisibles
  ConTimeout = FALSE
  MaxCaidas = 0
  MaxErlang = 0
INVARIANTS OtorgadoCompleto ConfirmadasExactas PendientesEnCamino SinFugas
PROPERTY TodosTerminan
CHECK_DEADLOCK FALSE
