SPECIFICATION Spec
CONSTANTS
  PrimerPid = 0
  NProcesos = 3
  Programas <- MCProgramas
  Prioridades = {0}
  NRecursos = 1
  Instancias <- MCInstancias
  ModUint = 4
  Algoritmo = "FIFO"
  GradoInicial = 3
  Grados = {}
  MaxPausas = 0
  MaxFallos = 0
  MaxReloj = 0
INVARIANT InstanciasAcotadas
CHECK_DEADLOCK FALSE
