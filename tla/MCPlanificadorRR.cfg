SPECIFICATION Spec
CONSTANTS
  PrimerPid = 98
  NProcesos = 3
  Programas <- MCProgramas
  Prioridades = {0}
  NRecursos = 1
  Instancias <- MCInstancias
  ModUint = 4
  Algoritmo = "RR"
  GradoInicial = 2
  Grados = {}
  MaxPausas = 0
  MaxFallos = 0
  MaxReloj = 1
INVARIANTS
  UnSoloDueno
  ElegirConAlguien
  VaradosSonNuevos
CHECK_DEADLOCK FALSE
