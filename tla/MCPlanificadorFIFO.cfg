SPECIFICATION Spec
CONSTANTS
  PrimerPid = 0
  NProcesos = 3
  Programas <- MCProgramas
  Prioridades = {0}
  NRecursos = 1
  Instancias <- MCInstancias
  ModUint = 4
  Algoritmo = "FIFO"
  GradoInicial = 2
  Grados = {}
  MaxPausas = 0
  MaxFallos = 0
  MaxReloj = 0
INVARIANTS
  TypeOK
  PunterosValidos
  UnSoloDueno
  NadieSePierde
  ElegirConAlguien
  ColasConFicha
  VaradosSonNuevos
CHECK_DEADLOCK FALSE
