SPECIFICATION FairSpec
CONSTANTS
  Procesos = {p1, p2, p3}
  MaxUsos = 2
INVARIANTS TypeOK EscritorSolo SoloCaeSi
PROPERTIES EsUnCerrojo EsperaTermina
CHECK_DEADLOCK FALSE
