SPECIFICATION FairSpec
CONSTANTS
  RAFAGA = 2
  Sufijo = 3
  MaxRafagas = 2
  MaxVidas = 2
  ConCaida = TRUE
INVARIANTS MapaExacto TardioEsDeNadie UnaConsulta TrabajaConRecursos SoltadoEnCamino
PROPERTY RafagaTrasRafaga
CHECK_DEADLOCK FALSE
