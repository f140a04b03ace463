SPECIFICATION Spec
CONSTANTS
  Procs = {1, 2}
  TamPagina = 2
  Tamanios <- MCUnaODos
  NMarcos = 1
  NBloques = 3
  Valores = {w1}
  Vacio = vacio
  Basura = basura
  Accesos <- MCLectura
  MAX_LRU = 9
  MaxUsos = 1
INVARIANTS BitFiel
CHECK_DEADLOCK FALSE
