SPECIFICATION FairSpec
CONSTANTS
  Procs = {1, 2}
  TamPagina = 2
  Tamanios <- MCUnaODos
  NMarcos = 2
  NBloques = 3
  Valores = {w1}
  Vacio = w1
  Basura = w1
  Accesos <- MCArchivo
  MAX_LRU = 9
  MaxUsos = 2
INVARIANTS MarcosCoherentes
PROPERTIES PfRespondido TodoDevuelto
CHECK_DEADLOCK FALSE
