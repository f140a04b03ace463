SPECIFICATION FairSpec
CONSTANTS
  PrimerPid = 0
  NProcesos = 2
  Programas <- MCProgramas
  Prioridades = {0}
  NRecursos = 1
  Instancias <- MCInstancias
  ModUint = 4
  Algoritmo = "FIFO"
  GradoInicial = 2
  Grados = {}
  MaxPausas = 0
  MaxFallos = 1
  MaxReloj = 0
PROPERTIES
  ElQueEjecutoVuelve
  TerminadoSeDestruye
CHECK_DEADLOCK FALSE
