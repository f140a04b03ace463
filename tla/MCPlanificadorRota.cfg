SPECIFICATION Spec
CONSTANTS
  PrimerPid = 0
  NProcesos = 2
  Programas <- MCProgramas
  Prioridades = {0}
  NRecursos = 1
  Instancias <- MCInstancias
  ModUint = 4
  Algoritmo = "RR"
  GradoInicial = 3
  Grados = {}
  MaxPausas = 0
  MaxFallos = 0
  MaxReloj = 1
PROPERTY RotaElTurno
CHECK_DEADLOCK FALSE
