SPECIFICATION Spec
CONSTANTS
  Hilos = {h1, h2}
  Jobs = {j1, j2}
  Conns = {c1}
  Total = 2
  Montos <- MontosMC
  Devoluciones <- DevolucionesMC
  MaxCola = 3
  Nadie = Nadie
PROPERTY SinAdelantamiento
