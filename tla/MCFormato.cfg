SPECIFICATION Spec
CONSTANTS
  Hosts = {1, 2, 3}
  Cubetas <- Desordenadas
  Anuncios <- SieteAnuncios
  BUFF_SIZE = 105
  Fijo = 29
  CANT_NODOS = 2
  DIVISOR = 16
INVARIANT PedidoExacto
PROPERTY NodesCabeYCompleta
