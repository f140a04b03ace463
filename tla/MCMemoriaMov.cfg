SPECIFICATION Spec
CONSTANTS
  Procs = {1, 2}
  TamPagina = 2
  Tamanios <- MCUnaODos
  NMarcos = 1
  NBloques = 3
  Valores = {w1}
  Vacio = vacio
  Basura = basura
  Accesos <- MCMov
  MAX_LRU = 9
  MaxUsos = 3
INVARIANTS TypeOK SwapExclusivo BitFiel FifoSinColgados UnicoSeguro
CHECK_DEADLOCK FALSE
