SPECIFICATION Spec
CONSTANTS
  x = x
  y = y
  z = z
  a = a
  b = b
  Celdas = {x, y, z}
  Jobs = {1, 2}
  Conns = {a, b}
  Montos = {1, 2}
  Maximo = 3
  NULL = NULL
INVARIANT NoSuperaElMaximo
