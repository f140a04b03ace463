SPECIFICATION Spec
CONSTANTS
  PrimerPid = 0
  NProcesos = 2
  Programas <- MCProgramas
  Prioridades = {0, 1}
  NRecursos = 1
  Instancias <- MCInstancias
  ModUint = 4
  Algoritmo = "PRIORIDADES"
  GradoInicial = 1
  Grados = {2}
  MaxPausas = 0
  MaxFallos = 1
  MaxReloj = 0
INVARIANTS
  UnSoloDueno
  NadieSePierde
  ElegirConAlguien
  VaradosSonNuevos
CHECK_DEADLOCK FALSE
