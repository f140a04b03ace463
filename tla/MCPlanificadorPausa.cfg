SPECIFICATION Spec
CONSTANTS
  PrimerPid = 0
  NProcesos = 2
  Programas <- MCProgramas
  Prioridades = {0}
  NRecursos = 1
  Instancias <- MCInstancias
  ModUint = 4
  Algoritmo = "FIFO"
  GradoInicial = 2
  Grados = {}
  MaxPausas = 2
  MaxFallos = 0
  MaxReloj = 0
INVARIANTS
  UnSoloDueno
  NadieSePierde
  ElegirConAlguien
  ColasConFicha
CHECK_DEADLOCK FALSE
