SPECIFICATION FairSpec
CONSTANTS
  p1 = p1
  p2 = p2
  Procesos = {p1, p2}
  Archivos <- MCArchivos
  Usa <- MCUsa
  TamanioFat = 5
  Tamanios = {0, 2, 3}
  MaxPedidos = 5
  MaxAvisos = 2
  Basura = basura
  NoExiste = no_existe
INVARIANTS TypeOK NombresUnicos BloquesExclusivos SwapIntacto SoloDosPorMemoria
PROPERTIES EsUnAlmacen PedidoTermina
CHECK_DEADLOCK FALSE
