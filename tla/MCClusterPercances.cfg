SPECIFICATION Spec
CONSTANTS
  A = A
  B = B
  C = C
  cpu = cpu
  mem = mem
  j1 = j1
  j2 = j2
  j3 = j3
  j4 = j4
  j5 = j5
  bCortada = bCortada
  Nodos <- DosNodos
  Tipos = {cpu, mem}
  Jobs <- JobsCruzados
  Pedido <- PedidoMezclados
  Rafagas <- RafagasCruzados
  Total <- TotalUno
  Corte <- Enteras
  Visibles <- AVecesVisibles
  ConTimeout = TRUE
  MaxCaidas = 1
  MaxErlang = 1
INVARIANTS SinRestoLocal UnaRespuesta PendientesEnCamino SinConexionesColgadas
CHECK_DEADLOCK FALSE
