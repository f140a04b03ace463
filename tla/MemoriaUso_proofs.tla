-------------------------- MODULE MemoriaUso_proofs --------------------------
(***************************************************************************)
(* Proofs about Memoria: what the accesses of the programs leave behind.   *)
(* Without F_WRITE the FIFO list never has a page of a process that is     *)
(* gone, and without F_READ a page that differs from its swap block is     *)
(* marked or about to be and the replacement works while there is one      *)
(* process.  They rest on the invariant of Memoria_proofs.                 *)
(***************************************************************************)
EXTENDS Memoria_proofs

-----------------------------------------------------------------------------
(* The instructions that make the accesses *)

\* An access that filesystem was sent is of an F_READ or an F_WRITE, and the thread of the
\* CPU copies for a MOV_OUT only.
Operaciones ==
  /\ \A a \in pedidos_fs : a.op \in Accesos \cap {"F_READ", "F_WRITE"}
  /\ cpu.paso = "copiar" => cpu.op = "MOV_OUT"

LEMMA PasoOperaciones ==
  ASSUME Tipo, Operaciones, [Next]_vars
  PROVE  Operaciones'
  <1>1. \A a \in pedidos_fs' : a \in pedidos_fs \/ a.op \in Accesos \cap {"F_READ", "F_WRITE"}
    <2>1. CASE CpuArchivo
      <3>1. PICK v \in PaginaPedida, op \in Accesos \cap {"F_READ", "F_WRITE"} :
              pedidos_fs' = pedidos_fs \cup {Acceso(v, op)}
        BY <2>1 DEF CpuArchivo
      <3>2. Acceso(v, op).op = op
        BY DEF Acceso
      <3> QED BY <3>1, <3>2
    <2>2. CASE ~CpuArchivo
      <3>1. pedidos_fs' \subseteq pedidos_fs
        <4>1. CASE UNCHANGED vars
          BY <4>1 DEF vars, procesoVars
        <4>2. CASE Programas
          BY <2>2, <4>2 DEF Programas, IniciarProceso, CpuFetch, CpuExit, CpuFalla, CpuSinTabla, CpuMov,
                            KernelEnvia, procesoVars
        <4>3. CASE HiloCpu \/ HiloFs
          BY <4>3 DEF HiloCpu, CpuCopia, CpuBusca, CpuCuenta, CpuSella, HiloFs, FsEscribe, FsLee, FsBusca,
                      FsCuenta, FsSella, Buscar, Contar, Sellar, procesoVars
        <4>4. CASE HiloKernel
          BY <4>4 DEF HiloKernel, InicializarProceso, CrearTabla, AsignarSwap, FinalizarProceso,
                      LiberarMarcos, LimpiarFifo, LiberarTabla, PageFaultConMarco, PageFaultSinMarco,
                      ElegirLru, ElegirFifo, ElegirNadie, ProbarModificado, SwapOut, Desalojar, Ocupar,
                      Cargar, procesoVars
        <4> QED BY <4>1, <4>2, <4>3, <4>4 DEF Next
      <3> QED BY <3>1
    <2> QED BY <2>1, <2>2
  <1>2. cpu'.paso = "copiar" => cpu'.op = "MOV_OUT"
    <2>0. cpu \in Hilos
      BY DEF Tipo, TipoHilos
    <2>1. CASE UNCHANGED cpu
      BY <2>1 DEF Operaciones
    <2>2. CASE CpuMov
      <3>1. PICK v, op : cpu' = Acceso(v, op)
        BY <2>2 DEF CpuMov
      <3> QED BY <3>1 DEF Acceso
    <2>3. CASE CpuFetch
      <3>1. cpu'.paso \in {"ejecutar", "colgado"}
        BY <2>0, <2>3 DEF CpuFetch, Hilos
      <3> QED BY <3>1
    <2>4. CASE CpuExit \/ CpuFalla \/ CpuArchivo \/ CpuSella
      BY <2>4 DEF CpuExit, CpuFalla, CpuArchivo, CpuSella, Sellar, SinAcceso
    <2>5. CASE CpuCopia \/ CpuCuenta
      <3>1. cpu'.paso \in {"buscar", "sellar"}
        BY <2>0, <2>5 DEF CpuCopia, CpuCuenta, Contar, Hilos
      <3> QED BY <3>1
    <2>6. CASE CpuBusca
      BY <2>0, <2>6, BuscarEs DEF CpuBusca
    <2>7. CASE ~(CpuMov \/ CpuFetch \/ CpuExit \/ CpuFalla \/ CpuArchivo \/ HiloCpu)
      <3>1. CASE UNCHANGED vars
        BY <2>1, <3>1 DEF vars
      <3>2. CASE Programas \/ HiloFs
        <4>1. UNCHANGED cpu
          BY <2>7, <3>2 DEF Programas, IniciarProceso, CpuSinTabla, KernelEnvia, HiloFs, FsEscribe, FsLee,
                            FsBusca, FsCuenta, FsSella
        <4> QED BY <2>1, <4>1
      <3>3. CASE HiloKernel
        <4>1. UNCHANGED cpu
          BY <3>3 DEF HiloKernel, InicializarProceso, CrearTabla, AsignarSwap, FinalizarProceso,
                      LiberarMarcos, LimpiarFifo, LiberarTabla, PageFaultConMarco, PageFaultSinMarco,
                      ElegirLru, ElegirFifo, ElegirNadie, ProbarModificado, SwapOut, Desalojar, Ocupar,
                      Cargar
        <4> QED BY <2>1, <4>1
      <3> QED BY <2>7, <3>1, <3>2, <3>3 DEF Next
    <2> QED BY <2>2, <2>3, <2>4, <2>5, <2>6, <2>7 DEF HiloCpu
  <1> QED BY <1>1, <1>2 DEF Operaciones

-----------------------------------------------------------------------------
(* The FIFO list, without F_WRITE *)

\* The page that the thread of the CPU will find in its frame, or has found, is of a process
\* that goes on; filesystem never looks for one.
AccesoVivo ==
  /\ fs.paso = "recibir"
  /\ cpu.paso \in {"copiar", "buscar"} =>
       marcos[cpu.marco] = Nada \/ estado[marcos[cpu.marco]] # "fin"
  /\ cpu.paso \in {"contar", "sellar"} => estado[cpu.pagina[1]] # "fin"

\* The list has pages of tables that are built, and none of the table about to be freed.
EnLista(v) == EnTabla(v) /\ (kernel.paso = "liberar_tabla" => v[1] # kernel.pid)

ListaViva ==
  /\ SinRepetir(paginas_utilizadas)
  /\ \A i \in DOMAIN paginas_utilizadas : EnLista(paginas_utilizadas[i])

\* Where the accesses under way stay as they are.
LEMMA AccesoIgual ==
  ASSUME Tipo, Lugar, AccesoVivo, UNCHANGED <<cpu, fs>>,
         \A p \in Procs : estado'[p] = "fin" => estado[p] = "fin",
         \A m \in Marcos : \/ marcos'[m] \in {Nada, marcos[m]}
                           \/ estado'[marcos'[m]] # "fin"
  PROVE  AccesoVivo'
  <1>1. cpu.paso \in {"copiar", "buscar"} =>
          marcos'[cpu.marco] = Nada \/ estado'[marcos'[cpu.marco]] # "fin"
    <2> SUFFICES ASSUME cpu.paso \in {"copiar", "buscar"}
                 PROVE  marcos'[cpu.marco] = Nada \/ estado'[marcos'[cpu.marco]] # "fin"
      OBVIOUS
    <2>1. cpu.marco \in Marcos
      BY DEF Lugar, Accesorios, EnAcceso
    <2>2. marcos[cpu.marco] \in Procs \cup {Nada}
      BY <2>1 DEF Tipo, TipoMarcos
    <2> QED BY <2>1, <2>2 DEF AccesoVivo
  <1>2. cpu.paso \in {"contar", "sellar"} => estado'[cpu.pagina[1]] # "fin"
    <2>1. cpu.paso \in {"contar", "sellar"} => cpu.pagina[1] \in Procs
      BY PaginaPar DEF Lugar, Accesorios, EnAcceso
    <2> QED BY <2>1 DEF AccesoVivo
  <1> QED BY <1>1, <1>2 DEF AccesoVivo

\* Where the CPU is between accesses.
LEMMA AccesoNinguno ==
  ASSUME AccesoVivo, UNCHANGED fs, cpu'.paso \in {"recibir", "ejecutar", "colgado"}
  PROVE  AccesoVivo'
  BY DEF AccesoVivo

LEMMA ListaIgual ==
  ASSUME Tipo, ListaViva, UNCHANGED <<paginas_utilizadas, cantidad_paginas>>,
         UNCHANGED kernel \/ kernel'.paso # "liberar_tabla"
  PROVE  ListaViva'
  <1>1. \A v : EnLista(v) => EnLista(v)'
    BY DEF EnLista, EnTabla
  <1> QED BY <1>1 DEF ListaViva

LEMMA OtrosLista ==
  ASSUME Tipo, Lugar, ConMarcos, Operaciones, "F_WRITE" \notin Accesos, AccesoVivo, ListaViva,
         Programas \/ HiloCpu \/ HiloFs
  PROVE  AccesoVivo' /\ ListaViva'
  <1>0. cpu \in Hilos /\ UNCHANGED <<cantidad_paginas, kernel, marcos>>
    BY OtrosTipo DEF Tipo, TipoHilos, Quietas
  <1>1. ASSUME UNCHANGED paginas_utilizadas PROVE ListaViva'
    BY <1>0, <1>1, ListaIgual
  <1>2. CASE IniciarProceso
    <2>1. PICK p \in Procs : estado' = [estado EXCEPT ![p] = "listo"]
      BY <1>2 DEF IniciarProceso
    <2>2. \A q \in Procs : estado'[q] = "fin" => estado[q] = "fin"
      BY <2>1 DEF Tipo, TipoProcesos
    <2> QED BY <1>0, <1>1, <1>2, <2>2, AccesoIgual DEF IniciarProceso, usoVars
  <1>3. CASE CpuSinTabla \/ \E p \in Procs : KernelEnvia(p)
    <2>1. UNCHANGED <<cpu, fs, estado, paginas_utilizadas>>
      BY <1>3 DEF CpuSinTabla, KernelEnvia, procesoVars, usoVars
    <2> QED BY <1>0, <1>1, <2>1, AccesoIgual
  <1>4. CASE CpuFetch
    <2>1. UNCHANGED <<fs, paginas_utilizadas>> /\ cpu'.paso \in {"ejecutar", "colgado"}
      BY <1>0, <1>4 DEF CpuFetch, usoVars, Hilos
    <2> QED BY <1>1, <2>1, AccesoNinguno
  <1>5. CASE CpuExit \/ CpuFalla \/ CpuArchivo
    <2>1. UNCHANGED <<fs, paginas_utilizadas>> /\ cpu'.paso = "recibir"
      BY <1>5 DEF CpuExit, CpuFalla, CpuArchivo, usoVars, SinAcceso
    <2> QED BY <1>1, <2>1, AccesoNinguno
  <1>6. CASE CpuMov
    <2>1. PICK v \in PaginaPedida, op \in Accesos : Entrada(v).presencia /\ cpu' = Acceso(v, op)
      BY <1>6 DEF CpuMov
    <2>2. v \in Paginas /\ v[1] = cpu.pid /\ EnTabla(v)
      BY <1>6, <2>1, EnEjecucion DEF CpuMov, PaginaPedida, Paginas
    <2>3. cpu'.paso \in {"copiar", "buscar"} /\ cpu'.marco = Entrada(v).marco
      BY <2>1, <2>2, AccesoEs
    <2>4. v \in Presentes /\ estado[v[1]] = "listo"
      BY <1>6, <2>1, <2>2, EnEjecucion DEF CpuMov, Presentes
    <2>5. marcos[Entrada(v).marco] = v[1]
      BY <2>4 DEF ConMarcos, MarcosCoherentes
    <2>6. UNCHANGED <<estado, fs, paginas_utilizadas>>
      BY <1>6 DEF CpuMov, usoVars
    <2>7. AccesoVivo'
      BY <1>0, <2>3, <2>4, <2>5, <2>6 DEF AccesoVivo
    <2> QED BY <1>1, <2>6, <2>7
  <1>7. CASE CpuCopia
    <2>1. /\ cpu.paso = "copiar" /\ cpu'.paso = "buscar" /\ cpu'.marco = cpu.marco
          /\ UNCHANGED <<estado, fs, paginas_utilizadas>>
      BY <1>0, <1>7 DEF CpuCopia, Hilos, usoVars, procesoVars
    <2>2. AccesoVivo'
      BY <1>0, <2>1 DEF AccesoVivo
    <2> QED BY <1>1, <2>1, <2>2
  <1>8. CASE CpuBusca
    <2>1. /\ cpu.paso = "buscar" /\ UNCHANGED <<estado, fs, paginas_utilizadas>>
          /\ \/ cpu' = cpu
             \/ /\ cpu'.paso = "contar" /\ cpu'.pagina \in PaginasDeMarco(cpu.marco)
                /\ cpu'.pagina \in Paginas
      BY <1>0, <1>8, BuscarEs DEF CpuBusca, Buscar, procesoVars, usoVars
    <2>2. cpu'.pagina \in PaginasDeMarco(cpu.marco) /\ cpu'.pagina \in Paginas =>
            /\ cpu'.pagina[1] = marcos[cpu.marco] /\ marcos[cpu.marco] # Nada
      BY PaginaPar, NadaFuera DEF PaginasDeMarco
    <2>3. AccesoVivo'
      BY <1>0, <2>1, <2>2 DEF AccesoVivo
    <2> QED BY <1>1, <2>1, <2>3
  <1>9. CASE CpuCuenta
    <2>1. /\ cpu.paso = "contar" /\ cpu'.paso = "sellar" /\ cpu'.pagina = cpu.pagina
          /\ UNCHANGED <<estado, fs, paginas_utilizadas>>
      BY <1>0, <1>9 DEF CpuCuenta, Contar, Hilos, procesoVars
    <2>2. AccesoVivo'
      BY <2>1 DEF AccesoVivo
    <2> QED BY <1>1, <2>1, <2>2
  <1>10. CASE CpuSella
    <2>1. /\ cpu.paso = "sellar" /\ cpu.pagina \in Paginas /\ Sellar(cpu, cpu') /\ UNCHANGED fs
      BY <1>10 DEF CpuSella, Sellar, Lugar, Accesorios, EnAcceso
    <2>2. PICK w \in Paginas : w = cpu.pagina
      BY <2>1
    <2>3. /\ cpu'.paso = "recibir"
          /\ \/ UNCHANGED paginas_utilizadas
             \/ /\ paginas_utilizadas' = Append(paginas_utilizadas, w) /\ EnTabla(w)
                /\ \A i \in DOMAIN paginas_utilizadas : paginas_utilizadas[i] # w
      BY <1>0, <2>1, <2>2, SellarEs DEF SinAcceso
    <2>4. kernel.paso = "liberar_tabla" => w[1] # kernel.pid
      BY <2>1, <2>2 DEF AccesoVivo, Lugar, Servicio, PasosFin
    <2>5. ASSUME paginas_utilizadas' = Append(paginas_utilizadas, w), EnTabla(w),
                 \A i \in DOMAIN paginas_utilizadas : paginas_utilizadas[i] # w
          PROVE  ListaViva'
      <3>1. paginas_utilizadas \in Seq(Paginas)
        BY DEF Tipo, TipoMarcos
      <3> DEFINE k == Len(paginas_utilizadas) + 1
      <3>2. /\ DOMAIN paginas_utilizadas' = DOMAIN paginas_utilizadas \cup {k}
            /\ \A i \in DOMAIN paginas_utilizadas : paginas_utilizadas'[i] = paginas_utilizadas[i]
            /\ paginas_utilizadas'[k] = w
        BY <2>5, <3>1, ColaCrece
      <3> HIDE DEF k
      <3>3. SinRepetir(paginas_utilizadas')
        BY <2>5, <3>2 DEF ListaViva, SinRepetir
      <3>4. \A v : EnLista(v) => EnLista(v)'
        BY <1>0 DEF EnLista, EnTabla
      <3>5. EnLista(w)
        BY <2>4, <2>5 DEF EnLista
      <3>6. \A i \in DOMAIN paginas_utilizadas' : \E v : v = paginas_utilizadas'[i] /\ EnLista(v)'
        BY <3>2, <3>4, <3>5 DEF ListaViva
      <3> QED BY <3>3, <3>6 DEF ListaViva, EnLista, EnTabla
    <2>6. ListaViva'
      BY <1>1, <2>3, <2>5
    <2> QED BY <2>1, <2>3, <2>6, AccesoNinguno
  <1>11. CASE FsEscribe
    <2>1. PICK a \in pedidos_fs : estado' = [estado EXCEPT ![a.pid] = "listo"]
      BY <1>11 DEF FsEscribe
    <2>2. \A q \in Procs : estado'[q] = "fin" => estado[q] = "fin"
      BY <2>1 DEF Tipo, TipoProcesos
    <2> QED BY <1>0, <1>1, <1>11, <2>2, AccesoIgual DEF FsEscribe, usoVars
  <1>12. ~FsLee
    BY DEF FsLee, Operaciones
  <1>13. ~(FsBusca \/ FsCuenta \/ FsSella)
    BY DEF FsBusca, FsCuenta, FsSella, Buscar, Contar, Sellar, AccesoVivo
  <1> QED BY <1>2, <1>3, <1>4, <1>5, <1>6, <1>7, <1>8, <1>9, <1>10, <1>11, <1>12, <1>13
          DEF Programas, HiloCpu, HiloFs

\* The steps of the kernel's thread that leave the list and the tables alone.
LEMMA KernelListaIgual ==
  ASSUME Tipo, Lugar, ConMarcos, AccesoVivo, ListaViva,
         \/ AsignarSwap \/ FinalizarProceso \/ LiberarMarcos \/ PageFaultConMarco
         \/ PageFaultSinMarco \/ ElegirLru \/ ElegirNadie \/ ProbarModificado \/ SwapOut
         \/ Desalojar \/ Ocupar \/ Cargar \/ InicializarProceso
  PROVE  AccesoVivo' /\ ListaViva'
  <1>1. UNCHANGED <<cpu, fs, paginas_utilizadas, cantidad_paginas>>
    BY DEF AsignarSwap, FinalizarProceso, LiberarMarcos, PageFaultConMarco, PageFaultSinMarco,
           ElegirLru, ElegirNadie, ProbarModificado, SwapOut, Desalojar, Ocupar, Cargar,
           InicializarProceso, usoVars, tablaVars
  <1>2. UNCHANGED kernel \/ kernel'.paso # "liberar_tabla"
    <2>1. CASE FinalizarProceso \/ PageFaultConMarco \/ PageFaultSinMarco \/ InicializarProceso
      BY <2>1, AtenderEs DEF FinalizarProceso, PageFaultConMarco, PageFaultSinMarco,
                             InicializarProceso, PasosPf, PasosFin, PasosIni
    <2>2. CASE AsignarSwap
      BY <2>2, AsignaEs DEF KernelLibre
    <2>3. CASE ElegirLru
      BY <2>3, ElegirEs, ConVictimaTipo
    <2>4. CASE ElegirNadie \/ Cargar
      BY <2>4 DEF ElegirNadie, Cargar, KernelLibre
    <2>5. CASE ProbarModificado \/ SwapOut \/ Desalojar \/ Ocupar \/ LiberarMarcos
      <3>1. kernel \in Kernels
        BY DEF Tipo, TipoHilos
      <3>2. kernel'.paso \in {"swap_out", "desalojar", "ocupar", "cargar", "limpiar_fifo"}
        BY <2>5, <3>1 DEF ProbarModificado, SwapOut, Desalojar, Ocupar, LiberarMarcos, Kernels
      <3> QED BY <3>2
    <2> QED BY <2>1, <2>2, <2>3, <2>4, <2>5
  <1>3. ListaViva'
    BY <1>1, <1>2, ListaIgual
  <1>4. \A p \in Procs : estado'[p] = "fin" => estado[p] = "fin"
    <2>1. CASE Cargar
      BY <2>1 DEF Cargar, Tipo, TipoProcesos
    <2>2. CASE ~Cargar
      BY <2>2 DEF AsignarSwap, FinalizarProceso, LiberarMarcos, PageFaultConMarco, PageFaultSinMarco,
                  ElegirLru, ElegirNadie, ProbarModificado, SwapOut, Desalojar, Ocupar,
                  InicializarProceso, procesoVars
    <2> QED BY <2>1, <2>2
  <1>5. \A m \in Marcos : marcos'[m] \in {Nada, marcos[m]} \/ estado'[marcos'[m]] # "fin"
    <2>1. CASE PageFaultConMarco
      <3>1. PICK p \in Procs, i \in Indices, m \in Marcos :
              Falla(p, i) /\ \A k \in Marcos : marcos'[k] = IF k = m THEN p ELSE marcos[k]
        BY <2>1, PageFaultConMarcoEs
      <3>2. estado'[p] # "fin"
        BY <2>1, <3>1 DEF PageFaultConMarco, procesoVars, Falla
      <3> QED BY <3>1, <3>2
    <2>2. CASE Ocupar
      <3>1. PICK w \in Paginas, m \in Marcos :
              /\ w = <<kernel.pid, kernel.arg>>
              /\ \A k \in Marcos : marcos'[k] = IF k = m THEN w[1] ELSE marcos[k]
        BY <2>2, OcuparEs
      <3>2. estado'[w[1]] # "fin"
        BY <2>2, <3>1, ServidaEs DEF Ocupar, procesoVars, PasosPf
      <3> QED BY <3>1, <3>2
    <2>3. CASE LiberarMarcos
      BY <2>3 DEF LiberarMarcos
    <2>4. CASE ~(PageFaultConMarco \/ Ocupar \/ LiberarMarcos)
      BY <2>4 DEF AsignarSwap, FinalizarProceso, PageFaultSinMarco, ElegirLru, ElegirNadie,
                  ProbarModificado, SwapOut, Desalojar, Cargar, InicializarProceso, marcoVars
    <2> QED BY <2>1, <2>2, <2>3, <2>4
  <1>6. AccesoVivo'
    BY <1>1, <1>4, <1>5, AccesoIgual
  <1> QED BY <1>3, <1>6

\* A table that is built or freed has no page in the list; the pages of the process that
\* ends leave the list before its table is freed.
LEMMA KernelLista ==
  ASSUME Tipo, Lugar, AccesoVivo, ListaViva,
         CrearTabla \/ LimpiarFifo \/ LiberarTabla \/ ElegirFifo
  PROVE  AccesoVivo' /\ ListaViva'
  <1>1. UNCHANGED <<cpu, fs, marcos, estado>>
    BY DEF CrearTabla, LimpiarFifo, LiberarTabla, ElegirFifo, marcoVars, procesoVars
  <1>2. AccesoVivo'
    BY <1>1, AccesoIgual
  <1>3. paginas_utilizadas \in Seq(Paginas)
    BY DEF Tipo, TipoMarcos
  <1>4. \A i \in DOMAIN paginas_utilizadas : paginas_utilizadas[i] \in Paginas
    BY <1>3
  <1>5. CASE CrearTabla
    <2>1. PICK p \in Procs : p = kernel.pid
      BY <1>5 DEF CrearTabla, Lugar, Servicio
    <2>2. /\ cantidad_paginas[p] = 0 /\ kernel'.paso = "pedir_swap"
          /\ \A q \in Procs : q # p => cantidad_paginas'[q] = cantidad_paginas[q]
          /\ UNCHANGED paginas_utilizadas
      BY <1>5, <2>1 DEF CrearTabla, Lugar, Servicio, Tipo, TipoHilos, Kernels, TipoTabla, usoVars
    <2>3. ASSUME NEW v \in Paginas, EnLista(v) PROVE EnLista(v)'
      <3>1. v[1] \in Procs /\ v[2] \in Nat
        BY PaginaPar, NadaFuera
      <3>2. v[2] < cantidad_paginas[v[1]]
        BY <2>3 DEF EnLista, EnTabla
      <3>3. v[1] # p
        BY <2>2, <3>1, <3>2
      <3> QED BY <2>2, <3>1, <3>2, <3>3 DEF EnLista, EnTabla
    <2>4. ListaViva'
      BY <1>4, <2>2, <2>3 DEF ListaViva
    <2> QED BY <1>2, <2>4
  <1>6. CASE LimpiarFifo
    <2>1. PICK p : p = kernel.pid
      OBVIOUS
    <2>2. /\ kernel'.paso = "liberar_tabla" /\ kernel'.pid = p /\ UNCHANGED cantidad_paginas
          /\ paginas_utilizadas' = SinPaginasDe(paginas_utilizadas, p)
      BY <1>6, <2>1 DEF LimpiarFifo, Tipo, TipoHilos, Kernels, tablaVars
    <2>3. Filtrada(paginas_utilizadas', paginas_utilizadas, p, Len(paginas_utilizadas))
      BY <1>3, <2>2, SinPaginasTipo
    <2>4. SinRepetir(paginas_utilizadas')
      BY <2>3 DEF Filtrada, ListaViva
    <2>5. ASSUME NEW k \in DOMAIN paginas_utilizadas'
          PROVE  \E v : v = paginas_utilizadas'[k] /\ EnLista(v)'
      <3>1. PICK i \in 1 .. Len(paginas_utilizadas) :
              paginas_utilizadas'[k] = paginas_utilizadas[i] /\ paginas_utilizadas[i][1] # p
        BY <2>3 DEF Filtrada
      <3>2. i \in DOMAIN paginas_utilizadas
        BY <1>3
      <3>3. PICK v : v = paginas_utilizadas[i]
        OBVIOUS
      <3>4. EnTabla(v) /\ v[1] # p
        BY <3>1, <3>2, <3>3 DEF ListaViva, EnLista
      <3>5. EnLista(v)'
        BY <2>2, <3>4 DEF EnLista, EnTabla
      <3> QED BY <3>1, <3>3, <3>5
    <2>6. ListaViva'
      BY <2>4, <2>5 DEF ListaViva, EnLista, EnTabla
    <2> QED BY <1>2, <2>6
  <1>7. CASE LiberarTabla
    <2>1. PICK p \in Procs : p = kernel.pid
      BY <1>7 DEF LiberarTabla, Lugar, Servicio
    <2>2. /\ kernel.paso = "liberar_tabla" /\ kernel'.paso = "recibir"
          /\ \A q \in Procs : q # p => cantidad_paginas'[q] = cantidad_paginas[q]
          /\ UNCHANGED paginas_utilizadas
      BY <1>7, <2>1 DEF LiberarTabla, KernelLibre, Tipo, TipoTabla, usoVars
    <2>3. ASSUME NEW v \in Paginas, EnLista(v) PROVE EnLista(v)'
      <3>1. v[1] \in Procs /\ v[1] # p
        BY <2>1, <2>2, <2>3, PaginaPar DEF EnLista
      <3> QED BY <2>2, <2>3, <3>1 DEF EnLista, EnTabla
    <2>4. ListaViva'
      BY <1>4, <2>2, <2>3 DEF ListaViva
    <2> QED BY <1>2, <2>4
  <1>8. CASE ElegirFifo
    <2>1. paginas_utilizadas # <<>> /\ paginas_utilizadas' = Tail(paginas_utilizadas)
          /\ UNCHANGED cantidad_paginas
      BY <1>8 DEF ElegirFifo, tablaVars
    <2>2. kernel'.paso = "probar"
      BY <1>8, ElegirEs, ConVictimaTipo
    <2>3. \A i \in DOMAIN paginas_utilizadas' :
            /\ i + 1 \in DOMAIN paginas_utilizadas
            /\ paginas_utilizadas'[i] = paginas_utilizadas[i + 1]
      BY <1>3, <2>1, ColaMengua
    <2>4. SinRepetir(paginas_utilizadas')
      <3>1. paginas_utilizadas' \in Seq(Paginas)
        BY <1>3, <2>1, ColaMengua
      <3>2. \A i, j \in DOMAIN paginas_utilizadas' : i + 1 = j + 1 => i = j
        BY <3>1
      <3> QED BY <2>3, <3>2 DEF ListaViva, SinRepetir
    <2>5. ASSUME NEW i \in DOMAIN paginas_utilizadas'
          PROVE  \E v : v = paginas_utilizadas'[i] /\ EnLista(v)'
      <3>1. PICK v : v = paginas_utilizadas[i + 1]
        OBVIOUS
      <3>2. EnTabla(v) /\ v = paginas_utilizadas'[i]
        BY <2>3, <3>1 DEF ListaViva, EnLista
      <3>3. EnLista(v)'
        BY <2>1, <2>2, <3>2 DEF EnLista, EnTabla
      <3> QED BY <3>2, <3>3
    <2>6. ListaViva'
      BY <2>4, <2>5 DEF ListaViva, EnLista, EnTabla
    <2> QED BY <1>2, <2>6
  <1> QED BY <1>5, <1>6, <1>7, <1>8

LEMMA PasoLista ==
  ASSUME IInv, Operaciones, "F_WRITE" \notin Accesos, AccesoVivo, ListaViva, [Next]_vars
  PROVE  AccesoVivo' /\ ListaViva'
  <1>1. Tipo /\ Lugar /\ ConMarcos
    BY DEF IInv
  <1>2. CASE UNCHANGED vars
    BY <1>1, <1>2, AccesoIgual, ListaIgual DEF vars, tablaVars, marcoVars, usoVars, procesoVars
  <1>3. CASE Programas \/ HiloCpu \/ HiloFs
    BY <1>1, <1>3, OtrosLista
  <1>4. CASE HiloKernel
    BY <1>1, <1>4, KernelListaIgual, KernelLista DEF HiloKernel
  <1> QED BY <1>2, <1>3, <1>4 DEF Next

LEMMA InicioUso ==
  ASSUME Init
  PROVE  Operaciones /\ AccesoVivo /\ ListaViva
  BY DEF Init, Operaciones, AccesoVivo, ListaViva, SinAcceso, SinRepetir

\* The CPU serves one process at a time and the frame it was given is of that process or of
\* one that waits for a page; so no page of a process that ended goes back to the FIFO list,
\* and LimpiarFifo leaves none.  Only an F_WRITE, whose access comes when it will, can.
THEOREM FifoSiempre == "F_WRITE" \notin Accesos => (Spec => []FifoSinColgados)
  <1> SUFFICES ASSUME "F_WRITE" \notin Accesos PROVE Spec => []FifoSinColgados
    OBVIOUS
  <1> DEFINE I == IInv /\ Operaciones /\ AccesoVivo /\ ListaViva
  <1>1. Init => I
    BY InicioInv, InicioUso
  <1>2. I /\ [Next]_vars => I'
    <2>1. IInv => Tipo
      BY DEF IInv
    <2> QED BY <2>1, PasoInv, PasoOperaciones, PasoLista
  <1>3. I => FifoSinColgados
    <2> SUFFICES ASSUME ListaViva PROVE FifoSinColgados
      OBVIOUS
    <2>1. IsInjective(paginas_utilizadas)
      BY DEF ListaViva, SinRepetir, IsInjective
    <2>2. \A v \in ToSet(paginas_utilizadas) : EnTabla(v)
      BY DEF ListaViva, EnLista, ToSet
    <2> QED BY <2>1, <2>2 DEF FifoSinColgados
  <1> QED BY <1>1, <1>2, <1>3, PTL DEF Spec

-----------------------------------------------------------------------------
(* The modified bit, without F_READ *)

\* What the frame of the page v has is in its block, or is being put there from it.
Guardada(v) == memoria_usuario[Entrada(v).marco] \in {bloques[Entrada(v).bloque], Basura}
Cargando(v) == kernel.paso = "cargar" /\ v = <<kernel.pid, kernel.arg>>

\* The CPU's thread has written the frame of v and is about to mark v.
Escribiendo(v) ==
  /\ cpu.op = "MOV_OUT" /\ cpu.marco = Entrada(v).marco
  /\ cpu.paso = "buscar" \/ (cpu.paso = "contar" /\ cpu.pagina = v)

Marca == \A v \in Presentes : Entrada(v).modificado \/ Guardada(v) \/ Cargando(v) \/ Escribiendo(v)

\* The pages that stay in their frames, where no word is written, and the page w.
LEMMA MarcaIgual ==
  ASSUME Tipo, Marca, NEW w,
         UNCHANGED cpu \/ cpu.paso \notin {"buscar", "contar"},
         \A v \in Presentes' : v = w \/ v \in Presentes,
         \A v \in Presentes' : v # w =>
           /\ Entrada(v)'.marco = Entrada(v).marco /\ Entrada(v)'.bloque = Entrada(v).bloque
           /\ Entrada(v).modificado => Entrada(v)'.modificado
           /\ memoria_usuario'[Entrada(v).marco] = memoria_usuario[Entrada(v).marco]
           /\ bloques'[Entrada(v).bloque] = bloques[Entrada(v).bloque]
           /\ Cargando(v) => Cargando(v)',
         w \in Presentes' => Entrada(w)'.modificado \/ Guardada(w)' \/ Cargando(w)'
  PROVE  Marca'
  <1>1. ASSUME NEW v \in Presentes', v # w
        PROVE  Entrada(v)'.modificado \/ Guardada(v)' \/ Cargando(v)' \/ Escribiendo(v)'
    <2>1. Entrada(v).modificado \/ Guardada(v) \/ Cargando(v) \/ Escribiendo(v)
      BY <1>1 DEF Marca
    <2>2. Guardada(v) => Guardada(v)'
      BY <1>1 DEF Guardada
    <2>3. Escribiendo(v) => Escribiendo(v)'
      BY <1>1 DEF Escribiendo
    <2> QED BY <1>1, <2>1, <2>2, <2>3
  <1> QED BY <1>1 DEF Marca

LEMMA NadieMas == NoPagina \notin Paginas
  BY NadaFuera DEF NoPagina, Paginas

\* The programs, and filesystem without F_READ, write no word.
LEMMA OtrosMarca ==
  ASSUME Tipo, Lugar, ConMarcos, Operaciones, "F_READ" \notin Accesos, Marca,
         Programas \/ HiloFs
  PROVE  Marca'
  <1>1. /\ Presentes' = Presentes /\ UNCHANGED kernel
        /\ \A v \in Paginas :
             Entrada(v)'.marco = Entrada(v).marco /\ Entrada(v)'.bloque = Entrada(v).bloque
    BY OtrosTipo, OtrosMarcos DEF Quietas
  <1>2. ~FsEscribe
    BY DEF FsEscribe, Operaciones
  <1>3. UNCHANGED <<memoria_usuario, bloques>>
    <2>1. CASE Programas
      BY <2>1 DEF Programas, IniciarProceso, CpuFetch, CpuExit, CpuFalla, CpuSinTabla, CpuMov, CpuArchivo,
                  KernelEnvia, marcoVars, swapVars
    <2>2. CASE HiloFs
      BY <1>2, <2>2 DEF HiloFs, FsLee, FsBusca, FsCuenta, FsSella, Buscar, Contar, Sellar, marcoVars, swapVars
    <2> QED BY <2>1, <2>2
  <1>4. UNCHANGED cpu \/ cpu.paso \notin {"buscar", "contar"}
    BY DEF Programas, IniciarProceso, CpuFetch, CpuExit, CpuFalla, CpuSinTabla, CpuMov, CpuArchivo,
           KernelEnvia, HiloFs, FsEscribe, FsLee, FsBusca, FsCuenta, FsSella
  <1>5. \A v \in Paginas : Entrada(v).modificado => Entrada(v)'.modificado
    <2>1. CASE FsCuenta
      BY <2>1, ContarEs DEF FsCuenta, Contar, Tipo, TipoHilos, Lugar, Accesorios, EnAcceso
    <2>2. CASE FsSella
      BY <2>2, SellarEs DEF FsSella, Sellar, Tipo, TipoHilos, Lugar, Accesorios, EnAcceso
    <2>3. CASE ~FsCuenta /\ ~FsSella
      <3>1. UNCHANGED entradas_tabla
        BY <1>2, <2>3 DEF Programas, IniciarProceso, CpuFetch, CpuExit, CpuFalla, CpuSinTabla, CpuMov,
               CpuArchivo, KernelEnvia, HiloFs, FsLee, FsBusca, Buscar, tablaVars
      <3> QED BY <3>1 DEF Entrada
    <2> QED BY <2>1, <2>2, <2>3
  <1>6. \A v \in Presentes : v \in Paginas
    BY DEF Presentes
  <1>7. \A v : Cargando(v) => Cargando(v)'
    BY <1>1 DEF Cargando
  <1>8. PICK w : w \notin Presentes
    BY <1>6, NadieMas
  <1> QED BY <1>1, <1>3, <1>4, <1>5, <1>6, <1>7, <1>8, MarcaIgual

\* escribir_memoria_cpu: the word is written before the page is looked for, and the page is
\* marked before the thread takes another message.
LEMMA CpuMarca ==
  ASSUME Tipo, Lugar, ConMarcos, Operaciones, Marca, HiloCpu
  PROVE  Marca'
  <1>1. /\ Presentes' = Presentes /\ UNCHANGED kernel
        /\ \A v \in Paginas :
             Entrada(v)'.marco = Entrada(v).marco /\ Entrada(v)'.bloque = Entrada(v).bloque
    BY OtrosTipo, OtrosMarcos DEF Quietas
  <1>2. cpu \in Hilos /\ \A v \in Presentes : v \in Paginas
    BY DEF Tipo, TipoHilos, Presentes
  <1>3. \A v : Cargando(v) => Cargando(v)'
    BY <1>1 DEF Cargando
  <1>4. SUFFICES ASSUME NEW v \in Presentes, v \in Paginas,
                        Entrada(v).modificado \/ Guardada(v) \/ Escribiendo(v)
                 PROVE  Entrada(v)'.modificado \/ Guardada(v)' \/ Escribiendo(v)'
    BY <1>1, <1>2, <1>3 DEF Marca
  <1>5. /\ Entrada(v)'.marco = Entrada(v).marco /\ Entrada(v)'.bloque = Entrada(v).bloque
        /\ Entrada(v).marco \in Marcos
    BY <1>1, <1>4, PresenteEs
  <1>6. ASSUME UNCHANGED <<memoria_usuario, bloques>> PROVE Guardada(v) => Guardada(v)'
    BY <1>5, <1>6 DEF Guardada
  <1>7. CASE CpuCopia
    <2>1. PICK x : memoria_usuario' = [memoria_usuario EXCEPT ![cpu.marco] = x]
      BY <1>7 DEF CpuCopia
    <2>2. /\ cpu.paso = "copiar" /\ cpu.op = "MOV_OUT" /\ UNCHANGED <<entradas_tabla, bloques>>
          /\ cpu'.paso = "buscar" /\ cpu'.op = cpu.op /\ cpu'.marco = cpu.marco
      BY <1>2, <1>7 DEF CpuCopia, Operaciones, Hilos, tablaVars, swapVars
    <2>3. CASE cpu.marco = Entrada(v).marco
      BY <1>5, <2>2, <2>3 DEF Escribiendo
    <2>4. CASE cpu.marco # Entrada(v).marco
      <3>1. memoria_usuario'[Entrada(v).marco] = memoria_usuario[Entrada(v).marco]
        BY <1>5, <2>1, <2>4 DEF Tipo, TipoMarcos
      <3>2. Guardada(v) => Guardada(v)'
        BY <1>5, <2>2, <3>1 DEF Guardada
      <3>3. ~Escribiendo(v) /\ Entrada(v)' = Entrada(v)
        BY <2>2 DEF Escribiendo, Entrada
      <3> QED BY <1>4, <3>2, <3>3
    <2> QED BY <2>3, <2>4
  <1>8. CASE CpuBusca
    <2>1. /\ cpu.paso = "buscar" /\ UNCHANGED <<entradas_tabla, memoria_usuario, bloques>>
          /\ \/ cpu' = cpu
             \/ /\ cpu'.paso = "contar" /\ cpu'.op = cpu.op /\ cpu'.marco = cpu.marco
                /\ cpu'.pagina \in PaginasDeMarco(cpu.marco)
      BY <1>2, <1>8, BuscarEs DEF CpuBusca, Buscar, tablaVars, marcoVars, swapVars
    <2>2. Entrada(v)' = Entrada(v)
      BY <2>1 DEF Entrada
    <2>3. \A u \in PaginasDeMarco(Entrada(v).marco) : u = v
      BY DEF PaginasDeMarco, ConMarcos, MarcosCoherentes, UnaPaginaPorMarco
    <2>4. Escribiendo(v) => Escribiendo(v)'
      BY <2>1, <2>2, <2>3 DEF Escribiendo
    <2> QED BY <1>4, <1>6, <2>1, <2>2, <2>4
  <1>9. CASE CpuCuenta
    <2>1. cpu.pagina \in Paginas /\ Contar(cpu, cpu') /\ cpu.paso = "contar"
      BY <1>9 DEF CpuCuenta, Contar, Lugar, Accesorios, EnAcceso
    <2>2. /\ Entrada(v).modificado => Entrada(v)'.modificado
          /\ v = cpu.pagina /\ EnTabla(v) /\ cpu.op = "MOV_OUT" => Entrada(v)'.modificado
      BY <1>2, <1>4, <2>1, ContarEs
    <2>3. EnTabla(v)
      BY DEF Presentes
    <2>4. Escribiendo(v) => Entrada(v)'.modificado
      BY <2>1, <2>2, <2>3 DEF Escribiendo
    <2>5. UNCHANGED <<memoria_usuario, bloques>>
      BY <2>1 DEF Contar, marcoVars, swapVars
    <2> QED BY <1>4, <1>6, <2>2, <2>4, <2>5
  <1>10. CASE CpuSella
    <2>1. cpu.pagina \in Paginas /\ Sellar(cpu, cpu') /\ cpu.paso = "sellar"
      BY <1>10 DEF CpuSella, Sellar, Lugar, Accesorios, EnAcceso
    <2>2. Entrada(v)'.modificado = Entrada(v).modificado
      BY <1>2, <1>4, <2>1, SellarEs
    <2>3. ~Escribiendo(v)
      BY <2>1 DEF Escribiendo
    <2>4. UNCHANGED <<memoria_usuario, bloques>>
      BY <2>1 DEF Sellar, marcoVars, swapVars
    <2> QED BY <1>4, <1>6, <2>2, <2>3, <2>4
  <1> QED BY <1>7, <1>8, <1>9, <1>10 DEF HiloCpu

\* The steps of the kernel's thread that put no page in a frame and write no word.
LEMMA KernelMarcaIgual ==
  ASSUME Tipo, Lugar, Lugar', ConMarcos, Marca,
         \/ InicializarProceso \/ CrearTabla \/ AsignarSwap \/ FinalizarProceso \/ LiberarMarcos
         \/ LimpiarFifo \/ LiberarTabla \/ PageFaultSinMarco \/ ElegirLru \/ ElegirFifo
         \/ ElegirNadie \/ ProbarModificado \/ Desalojar
  PROVE  Marca'
  <1>1. UNCHANGED <<memoria_usuario, bloques, cpu>> /\ kernel.paso # "cargar"
    BY DEF InicializarProceso, CrearTabla, AsignarSwap, FinalizarProceso, LiberarMarcos, LimpiarFifo,
           LiberarTabla, PageFaultSinMarco, ElegirLru, ElegirFifo, ElegirNadie, ProbarModificado,
           Desalojar, Recibe, marcoVars, swapVars
  <1>2. \A v : ~Cargando(v)
    BY <1>1 DEF Cargando
  <1>3. SUFFICES ASSUME NEW v \in Paginas, v \in Presentes'
                 PROVE  /\ v \in Presentes
                        /\ Entrada(v)'.marco = Entrada(v).marco
                        /\ Entrada(v)'.bloque = Entrada(v).bloque
                        /\ Entrada(v)'.modificado = Entrada(v).modificado
    <2>1. \A v \in Presentes' : v \in Paginas /\ v # NoPagina
      BY NadieMas DEF Presentes
    <2>2. \A v \in Presentes' :
            /\ v \in Presentes
            /\ Entrada(v)'.marco = Entrada(v).marco
            /\ Entrada(v)'.bloque = Entrada(v).bloque
            /\ Entrada(v)'.modificado = Entrada(v).modificado
      BY <1>3, <2>1
    <2> QED BY <1>1, <1>2, <2>1, <2>2, MarcaIgual
  <1>4. CASE Desalojar
    <2>1. PICK w \in Paginas : w = kernel.victima
      BY <1>4, VictimaEs DEF Desalojar
    <2>2. /\ ~Entrada(w)'.presencia /\ (v # w => Entrada(v)' = Entrada(v))
          /\ kernel.paso = "desalojar"
      BY <1>4, <2>1, DesalojarEs DEF Desalojar
    <2>3. v # w /\ v \in Presentes
      BY <1>3, <2>2, PresentesSon DEF SeVa
    <2> QED BY <2>2, <2>3
  <1>5. CASE LiberarMarcos
    <2>1. UNCHANGED entradas_tabla /\ kernel.paso = "liberar_marcos"
      BY <1>5 DEF LiberarMarcos
    <2>2. Entrada(v)' = Entrada(v)
      BY <2>1 DEF Entrada
    <2>3. v \in Presentes
      BY <1>3, <2>1, <2>2, PresentesSon DEF SeVa
    <2> QED BY <2>2, <2>3
  <1>6. CASE ~Desalojar /\ ~LiberarMarcos
    <2>1. v \in Presentes
      BY <1>3, <1>6, KernelMarcos
    <2>2. CASE CrearTabla \/ LiberarTabla
      <3>1. PICK p \in Procs : p = kernel.pid
        BY <2>2 DEF CrearTabla, LiberarTabla, Lugar, Servicio
      <3>2. Entrada(v)' = IF v[1] = p THEN EntradaNueva ELSE Entrada(v)
        <4>1. entradas_tabla' = [entradas_tabla EXCEPT ![p] = [i \in Indices |-> EntradaNueva]]
          BY <2>2, <3>1 DEF CrearTabla, LiberarTabla
        <4> QED BY <4>1, TablaNueva DEF Tipo
      <3>3. v[1] # p
        <4>1. CASE CrearTabla
          <5>1. \A i \in Indices : ~Entrada(<<p, i>>).presencia
            BY <3>1, <4>1 DEF CrearTabla, Lugar, Servicio, PasosIni
          <5> QED BY <2>1, <5>1, PaginaPar DEF Presentes
        <4>2. CASE LiberarTabla
          BY <2>1, <3>1, <4>2, PresentesSon DEF LiberarTabla, SeVa
        <4> QED BY <2>2, <4>1, <4>2
      <3> QED BY <2>1, <3>2, <3>3
    <2>3. CASE AsignarSwap
      <3>1. CASE UNCHANGED entradas_tabla
        BY <2>1, <3>1 DEF Entrada
      <3>2. CASE cantidad_paginas[kernel.pid] <= Cardinality(Bloques \ swap)
        <4>1. PICK p : p = kernel.pid
          OBVIOUS
        <4>2. \A i \in Indices : ~Entrada(<<p, i>>).presencia
          BY <2>3, <4>1 DEF AsignarSwap, Lugar, Servicio, PasosIni
        <4>3. v[1] # p
          BY <2>1, <4>2, PaginaPar DEF Presentes
        <4>4. /\ Entrada(v)'.marco = Entrada(v).marco
              /\ Entrada(v)'.modificado = Entrada(v).modificado
              /\ Entrada(v)'.bloque = IF v[1] = p /\ EnTabla(v)
                                        THEN LibreNumero(v[2]) ELSE Entrada(v).bloque
          BY <2>3, <3>2, <4>1, AsignarSwapEs
        <4> QED BY <2>1, <4>3, <4>4
      <3> QED BY <2>3, <3>1, <3>2, AsignaEs
    <2>4. CASE ~(CrearTabla \/ LiberarTabla \/ AsignarSwap)
      <3>1. UNCHANGED entradas_tabla
        BY <1>6, <2>4 DEF InicializarProceso, FinalizarProceso, LimpiarFifo, PageFaultSinMarco, ElegirLru,
                          ElegirFifo, ElegirNadie, ProbarModificado, tablaVars
      <3> QED BY <2>1, <3>1 DEF Entrada
    <2> QED BY <2>2, <2>3, <2>4
  <1> QED BY <1>4, <1>5, <1>6

\* The page that gets a frame is being loaded.
LEMMA UbicarMarca ==
  ASSUME Tipo, Lugar, Lugar', ConMarcos, Marca, PageFaultConMarco \/ Ocupar
  PROVE  Marca'
  <1>1. PICK w \in Paginas :
          /\ \A v \in Paginas : v # w => Entrada(v)' = Entrada(v)
          /\ kernel.paso \in {"recibir", "ocupar"} /\ kernel'.paso = "cargar"
          /\ w = <<kernel'.pid, kernel'.arg>>
    <2>1. CASE PageFaultConMarco
      BY <2>1, PageFaultConMarcoEs
    <2>2. CASE Ocupar
      BY <2>2, OcuparEs
    <2> QED BY <2>1, <2>2
  <1>2. UNCHANGED <<memoria_usuario, bloques, cpu>>
    BY DEF PageFaultConMarco, Ocupar, swapVars
  <1>3. \A v : ~Cargando(v)
    BY <1>1 DEF Cargando
  <1>4. Cargando(w)'
    BY <1>1 DEF Cargando
  <1>5. \A v \in Presentes' : v \in Paginas
    BY DEF Presentes
  <1>6. \A v \in Presentes' : v = w \/ v \in Presentes
    BY <1>1, <1>5, PresentesSon DEF SeVa
  <1> QED BY <1>1, <1>2, <1>3, <1>4, <1>5, <1>6, MarcaIgual

\* The block of a page in memory is of no other page.
LEMMA PresenteBloque ==
  ASSUME Tipo, ConBloques, kernel.paso \notin {"pedir_swap", "liberar_marcos"}
  PROVE  /\ \A v \in Presentes : Entrada(v).bloque \in Bloques
         /\ \A v, w \in Presentes : Entrada(v).bloque = Entrada(w).bloque => v = w
  <1>1. \A v \in Presentes : v \in ConBloque
    BY DEF Presentes, ConBloque
  <1> QED BY <1>1 DEF ConBloques, Tipo, TipoMarcos

\* ESCRITURA_BLOQUE_OK: the block of the victim has its word, and no other block changed.
LEMMA SwapOutMarca ==
  ASSUME Tipo, Lugar, Lugar', ConMarcos, ConBloques, Marca, SwapOut
  PROVE  Marca'
  <1>1. PICK w \in Presentes : w = kernel.victima /\ kernel.marco = Entrada(w).marco
    BY VictimaEs DEF SwapOut
  <1>2. PICK b \in Bloques : b = Entrada(w).bloque
    BY PresenteBloque DEF SwapOut
  <1>3. /\ bloques' = [bloques EXCEPT ![b] = memoria_usuario[Entrada(w).marco]]
        /\ UNCHANGED <<memoria_usuario, entradas_tabla, cpu>> /\ kernel.paso = "swap_out"
    BY <1>1, <1>2 DEF SwapOut, tablaVars, marcoVars
  <1>4. Presentes' = Presentes /\ \A v : Entrada(v)' = Entrada(v)
    BY <1>3, KernelMarcos DEF Entrada
  <1>5. \A v \in Presentes : v # w => bloques'[Entrada(v).bloque] = bloques[Entrada(v).bloque]
    <2>1. \A v \in Presentes : v # w => Entrada(v).bloque # b
      BY <1>2, <1>3, PresenteBloque
    <2> QED BY <1>3, <2>1, PresenteBloque DEF Tipo, TipoMarcos
  <1>6. Guardada(w)'
    <2>1. bloques'[b] = memoria_usuario[Entrada(w).marco]
      BY <1>3 DEF Tipo, TipoMarcos
    <2> QED BY <1>2, <1>3, <1>4, <2>1 DEF Guardada
  <1>7. \A v : ~Cargando(v)
    BY <1>3 DEF Cargando
  <1> QED BY <1>3, <1>4, <1>5, <1>6, <1>7, MarcaIgual

\* cargar_pagina_swap_en_memoria: the frame of the page has what its block sent.
LEMMA CargarMarca ==
  ASSUME Tipo, Lugar, Lugar', ConMarcos, Marca, Cargar
  PROVE  Marca'
  <1>1. PICK w \in Paginas : w = <<kernel.pid, kernel.arg>>
    BY ServidaEs DEF Cargar, PasosPf
  <1>2. kernel.paso = "cargar" /\ w \in Presentes
    BY <1>1, ServidaEs DEF Cargar, PasosPf, Presentes
  <1>3. PICK m \in Marcos : m = Entrada(w).marco
    BY <1>2, PresenteEs
  <1>4. PICK x \in {bloques[Entrada(w).bloque], Basura} :
          memoria_usuario' = [memoria_usuario EXCEPT ![m] = x]
    BY <1>1, <1>3 DEF Cargar
  <1>5. /\ UNCHANGED <<bloques, entradas_tabla, cpu>> /\ Presentes' = Presentes
        /\ \A v : Entrada(v)' = Entrada(v)
    BY KernelMarcos DEF Cargar, tablaVars, swapVars, Entrada
  <1>6. \A v \in Presentes : v # w =>
          memoria_usuario'[Entrada(v).marco] = memoria_usuario[Entrada(v).marco]
    <2>1. \A v \in Presentes : v # w => Entrada(v).marco # m
      BY <1>2, <1>3 DEF ConMarcos, MarcosCoherentes, UnaPaginaPorMarco
    <2>2. \A v \in Presentes : Entrada(v).marco \in Marcos
      BY PresenteEs
    <2> QED BY <1>4, <2>1, <2>2 DEF Tipo, TipoMarcos
  <1>7. Guardada(w)'
    <2>1. memoria_usuario'[m] = x
      BY <1>4 DEF Tipo, TipoMarcos
    <2> QED BY <1>3, <1>4, <1>5, <2>1 DEF Guardada
  <1>8. \A v : v # w => ~Cargando(v)
    BY <1>1 DEF Cargando
  <1> QED BY <1>5, <1>6, <1>7, <1>8, MarcaIgual

LEMMA PasoMarca ==
  ASSUME IInv, Operaciones, "F_READ" \notin Accesos, Marca, [Next]_vars
  PROVE  Marca'
  <1>1. Tipo /\ Lugar /\ Lugar' /\ ConMarcos /\ ConBloques
    BY PasoTodoLugar DEF IInv
  <1>2. CASE UNCHANGED vars
    <2>1. /\ UNCHANGED <<procesos_totales, cantidad_paginas, entradas_tabla, memoria_usuario>>
          /\ UNCHANGED <<bloques, kernel, cpu>>
      BY <1>2 DEF vars, tablaVars, marcoVars, swapVars
    <2> QED BY <2>1 DEF Marca, Presentes, Existe, EnTabla, Entrada, Guardada, Cargando, Escribiendo
  <1>3. CASE Programas \/ HiloFs
    BY <1>1, <1>3, OtrosMarca
  <1>4. CASE HiloCpu
    BY <1>1, <1>4, CpuMarca
  <1>5. CASE HiloKernel
    BY <1>1, <1>5, KernelMarcaIgual, UbicarMarca, SwapOutMarca, CargarMarca DEF HiloKernel
  <1> QED BY <1>2, <1>3, <1>4, <1>5 DEF Next

\* Without F_READ, a page in memory that differs from its block is marked, or the thread that
\* wrote it is about to mark it: no replacement loses what a MOV_OUT wrote, but in the window
\* between the memcpy and the mark.
THEOREM BitSiempre == "F_READ" \notin Accesos => (Spec => []BitFiel)
  <1> SUFFICES ASSUME "F_READ" \notin Accesos PROVE Spec => []BitFiel
    OBVIOUS
  <1> DEFINE I == IInv /\ Operaciones /\ Marca
  <1>1. Init => I
    <2> SUFFICES ASSUME Init PROVE I
      OBVIOUS
    <2>1. Presentes = {}
      BY DEF Init, Presentes, Existe, ToSet
    <2> QED BY <2>1, InicioInv, InicioUso DEF Marca
  <1>2. I /\ [Next]_vars => I'
    <2>1. IInv => Tipo
      BY DEF IInv
    <2> QED BY <2>1, PasoInv, PasoOperaciones, PasoMarca
  <1>3. I => BitFiel
    BY DEF Marca, BitFiel, Guardada, Cargando, Escribiendo, Pendiente
  <1> QED BY <1>1, <1>2, <1>3, PTL DEF Spec

-----------------------------------------------------------------------------
(* Replacement while there is one process, without F_READ *)

\* One process was started at most, and fewer accesses were made than MAX_LRU.
Solo == \A p, q \in Procs : estado[p] # "no" /\ estado[q] # "no" => p = q
Sano == algoritmo_pags = "LRU" => contador_lru < MAX_LRU

\* The victim that still has its frame.
Victima == IF kernel.paso \in {"probar", "swap_out", "desalojar"} THEN kernel.victima ELSE NoPagina

\* The accesses under way, and the page each one is on.
EnAccesos == {a \in {cpu, fs} \cup pedidos_fs : a.paso \in {"copiar", "buscar", "contar", "sellar"}}

Sobre(a, v) ==
  \/ a.paso \in {"copiar", "buscar"} /\ a.marco = Entrada(v).marco
  \/ a.paso \in {"contar", "sellar"} /\ a.pagina = v

\* The replacement can choose the page v, or the access it was brought for is still to come.
Elegible(v) ==
  IF algoritmo_pags = "FIFO" THEN v \in ToSet(paginas_utilizadas) \cup {Victima}
  ELSE Entrada(v).lru < MAX_LRU

PorUsar(v) == repite[v[1]] = v[2] \/ \E a \in EnAccesos : Sobre(a, v)

\* The list has no page twice and, with FIFO, only pages in memory, none of them the victim,
\* but for those of a process that just lost its frames.
ListaPresente ==
  /\ SinRepetir(paginas_utilizadas)
  /\ algoritmo_pags = "FIFO" =>
       \A v \in ToSet(paginas_utilizadas) :
         \/ v \in Presentes /\ v # Victima
         \/ kernel.paso = "limpiar_fifo" /\ v[1] = kernel.pid
  /\ kernel.paso = "liberar_tabla" => \A v \in ToSet(paginas_utilizadas) : v[1] # kernel.pid

Entero == caido \notin {"pagina_nula", "victima_nula", "entrada_liberada", "fifo_colgada"}

Unico ==
  /\ Entero
  /\ \A a \in EnAccesos : \E v \in Presentes : Sobre(a, v)
  /\ \A v \in Presentes : Elegible(v) \/ PorUsar(v)
  /\ ListaPresente
  /\ kernel.paso = "elegir" => Presentes # {}

\* No step goes back to one process or to fewer accesses.
LEMMA SoloAntes ==
  ASSUME IInv, [Next]_vars, Solo', Sano'
  PROVE  Solo /\ Sano
  <1>1. \A p \in Procs : estado[p] # "no" => estado'[p] # "no"
    <2>0. estado \in [Procs -> {"no", "listo", "bloqueado", "fin"}]
      BY DEF IInv, Tipo, TipoProcesos
    <2>1. CASE UNCHANGED vars
      BY <2>1 DEF vars, procesoVars
    <2>2. CASE Programas
      BY <2>0, <2>2 DEF Programas, IniciarProceso, CpuFetch, CpuExit, CpuFalla, CpuSinTabla, CpuMov,
                        CpuArchivo, KernelEnvia, procesoVars
    <2>3. CASE HiloCpu \/ HiloFs
      BY <2>0, <2>3 DEF HiloCpu, CpuCopia, CpuBusca, CpuCuenta, CpuSella, HiloFs, FsEscribe, FsLee,
                        FsBusca, FsCuenta, FsSella, Buscar, Contar, Sellar, procesoVars
    <2>4. CASE HiloKernel
      BY <2>0, <2>4 DEF HiloKernel, InicializarProceso, CrearTabla, AsignarSwap, FinalizarProceso,
                        LiberarMarcos, LimpiarFifo, LiberarTabla, PageFaultConMarco,
                        PageFaultSinMarco, ElegirLru, ElegirFifo, ElegirNadie, ProbarModificado,
                        SwapOut, Desalojar, Ocupar, Cargar, procesoVars
    <2> QED BY <2>1, <2>2, <2>3, <2>4 DEF Next
  <1>2. algoritmo_pags' = algoritmo_pags /\ contador_lru \in Nat
        /\ contador_lru' \in {contador_lru, contador_lru + 1}
    <2>0. contador_lru \in Nat
      BY DEF IInv, Tipo, TipoMarcos
    <2>1. CASE UNCHANGED vars
      BY <2>0, <2>1 DEF vars, usoVars
    <2>2. CASE Programas
      BY <2>0, <2>2 DEF Programas, IniciarProceso, CpuFetch, CpuExit, CpuFalla, CpuSinTabla, CpuMov,
                        CpuArchivo, KernelEnvia, usoVars
    <2>3. CASE HiloCpu \/ HiloFs
      BY <2>0, <2>3 DEF HiloCpu, CpuCopia, CpuBusca, CpuCuenta, CpuSella, HiloFs, FsEscribe, FsLee,
                        FsBusca, FsCuenta, FsSella, Buscar, Contar, Sellar, usoVars
    <2>4. CASE HiloKernel
      BY <2>0, <2>4 DEF HiloKernel, InicializarProceso, CrearTabla, AsignarSwap, FinalizarProceso,
                        LiberarMarcos, LimpiarFifo, LiberarTabla, PageFaultConMarco,
                        PageFaultSinMarco, ElegirLru, ElegirFifo, ElegirNadie, ProbarModificado,
                        SwapOut, Desalojar, Ocupar, Cargar, usoVars
    <2> QED BY <2>1, <2>2, <2>3, <2>4 DEF Next
  <1>3. Solo
    BY <1>1 DEF Solo
  <1>4. Sano
    <2>1. MAX_LRU \in Nat
      BY MemoriaSupuestos
    <2> QED BY <1>2, <2>1 DEF Sano
  <1> QED BY <1>3, <1>4

\* A step after which the same pages are in memory, in their frames and with their stamps,
\* every access is on a page, and the pages still to be used still are.
LEMMA UnicoIgual ==
  ASSUME Tipo, Lugar, Unico, Entero', Presentes' = Presentes,
         \A v \in Presentes : Entrada(v)'.marco = Entrada(v).marco /\ Entrada(v)'.lru = Entrada(v).lru,
         UNCHANGED <<algoritmo_pags, paginas_utilizadas>>, Victima' = Victima,
         \A a \in EnAccesos' : \E v \in Presentes : Sobre(a, v)',
         \A v \in Presentes : PorUsar(v) => PorUsar(v)',
         \/ UNCHANGED kernel
         \/ kernel.paso # "limpiar_fifo" /\ kernel'.paso \notin {"elegir", "liberar_tabla"}
  PROVE  Unico'
  <1>1. \A v \in Presentes' : Elegible(v)' \/ PorUsar(v)'
    <2> SUFFICES ASSUME NEW v \in Presentes PROVE Elegible(v)' \/ PorUsar(v)'
      OBVIOUS
    <2>1. Elegible(v) \/ PorUsar(v)
      BY DEF Unico
    <2>2. Elegible(v) => Elegible(v)'
      BY DEF Elegible
    <2> QED BY <2>1, <2>2
  <1>2. ListaPresente'
    BY DEF Unico, ListaPresente
  <1>3. kernel'.paso = "elegir" => Presentes' # {}
    BY DEF Unico
  <1> QED BY <1>1, <1>2, <1>3 DEF Unico

\* The same where no access begins, moves or ends and no fault is forgotten.
LEMMA UnicoQuieto ==
  ASSUME Tipo, Lugar, Unico, Entero', Presentes' = Presentes,
         \A v \in Presentes : Entrada(v)'.marco = Entrada(v).marco /\ Entrada(v)'.lru = Entrada(v).lru,
         UNCHANGED <<algoritmo_pags, paginas_utilizadas>>, Victima' = Victima,
         EnAccesos' = EnAccesos,
         \A v \in Presentes : repite[v[1]] = v[2] => repite'[v[1]] = v[2],
         \/ UNCHANGED kernel
         \/ kernel.paso # "limpiar_fifo" /\ kernel'.paso \notin {"elegir", "liberar_tabla"}
  PROVE  Unico'
  <1>1. \A a \in EnAccesos, v \in Presentes : Sobre(a, v) => Sobre(a, v)'
    BY DEF Sobre
  <1>2. \A a \in EnAccesos' : \E v \in Presentes : Sobre(a, v)'
    BY <1>1 DEF Unico
  <1>3. \A v \in Presentes : PorUsar(v) => PorUsar(v)'
    BY <1>1 DEF PorUsar
  <1> QED BY <1>2, <1>3, UnicoIgual

\* An access under way is of the one process, and the kernel's thread rests.
LEMMA AccesoSolo ==
  ASSUME Tipo, Lugar, Solo, Unico, NEW a \in EnAccesos
  PROVE  kernel.paso = "recibir"
  <1>1. PICK v \in Presentes : Sobre(a, v)
    BY DEF Unico
  <1>2. a.pid \in Procs /\ Suelto(a.pid) /\ estado[a.pid] # "no"
    <2>1. CASE a = cpu
      <3>1. cpu.paso \notin {"recibir", "colgado"}
        BY <2>1 DEF EnAccesos
      <3>2. cpu.pid \in Procs /\ estado[cpu.pid] = "listo" /\ Existe(cpu.pid)
        BY <3>1 DEF Lugar, Accesorios, EnAcceso
      <3> QED BY <2>1, <3>2, SueltoSi
    <2>2. CASE a = fs
      <3>1. fs.paso # "recibir"
        BY <2>2 DEF EnAccesos
      <3>2. fs.pid \in Procs /\ EsperaArchivo(fs.pid)
        BY <3>1 DEF Lugar, Accesorios, EnAcceso
      <3> QED BY <2>2, <3>2, SueltoSi DEF EsperaArchivo
    <2>3. CASE a \in pedidos_fs
      <3>1. a.pid \in Procs /\ EsperaArchivo(a.pid)
        BY <2>3 DEF Lugar, Accesorios, EnAcceso
      <3> QED BY <3>1, SueltoSi DEF EsperaArchivo
    <2> QED BY <2>1, <2>2, <2>3 DEF EnAccesos
  <1>3. v \in Paginas /\ v[1] \in Procs /\ v[2] \in Indices /\ v = <<v[1], v[2]>>
        /\ Entrada(v).presencia /\ Existe(v[1])
    BY PaginaPar DEF Presentes
  <1>4. estado[v[1]] # "no"
    BY <1>3 DEF Lugar, Tablas
  <1>5. CASE kernel.paso \in PasosIni
    <2>1. kernel.pid \in Procs /\ estado[kernel.pid] # "no"
          /\ \A i \in Indices : ~Entrada(<<kernel.pid, i>>).presencia
      BY <1>5 DEF Lugar, Servicio, PasosIni
    <2>2. kernel.pid = v[1]
      BY <1>3, <1>4, <2>1 DEF Solo
    <2> QED BY <1>3, <2>1, <2>2
  <1>6. CASE kernel.paso \in PasosPf \cup PasosFin
    <2>1. kernel.pid \in Procs /\ estado[kernel.pid] # "no"
      <3>1. kernel.paso # "recibir"
        BY <1>6 DEF PasosPf, PasosFin
      <3>2. kernel.pid \in Procs
        BY <3>1 DEF Lugar, Servicio
      <3>3. CASE kernel.paso \in PasosPf
        BY <3>3, ServidaEs
      <3>4. CASE kernel.paso \in PasosFin
        BY <3>2, <3>4 DEF Lugar, Servicio
      <3> QED BY <1>6, <3>2, <3>3, <3>4
    <2>2. kernel.pid = a.pid
      BY <1>2, <2>1 DEF Solo
    <2> QED BY <1>2, <1>6, <2>2 DEF Suelto, NoAtiende
  <1>7. kernel.paso \in {"recibir"} \cup PasosIni \cup PasosPf \cup PasosFin
    BY DEF Tipo, TipoHilos, Kernels
  <1> QED BY <1>5, <1>6, <1>7

\* Every page in memory is of the one process, whose table and swap are ready.
LEMMA SoloPresentes ==
  ASSUME Tipo, Lugar, Solo, NEW v \in Presentes
  PROVE  /\ v \in Paginas /\ v[1] \in Procs /\ v[2] \in Indices /\ v = <<v[1], v[2]>>
         /\ estado[v[1]] # "no" /\ Existe(v[1])
         /\ \A p \in Procs : estado[p] # "no" => p = v[1]
         /\ kernel.paso \notin PasosIni
  <1>1. v \in Paginas /\ v[1] \in Procs /\ v[2] \in Indices /\ v = <<v[1], v[2]>>
        /\ Entrada(v).presencia /\ Existe(v[1])
    BY PaginaPar DEF Presentes
  <1>2. estado[v[1]] # "no"
    BY <1>1 DEF Lugar, Tablas
  <1>3. \A p \in Procs : estado[p] # "no" => p = v[1]
    BY <1>1, <1>2 DEF Solo
  <1>4. kernel.paso \notin PasosIni
    <2> SUFFICES ASSUME kernel.paso \in PasosIni PROVE FALSE
      OBVIOUS
    <2>1. kernel.pid \in Procs /\ estado[kernel.pid] # "no"
          /\ \A i \in Indices : ~Entrada(<<kernel.pid, i>>).presencia
      BY DEF Lugar, Servicio, PasosIni
    <2> QED BY <1>1, <1>3, <2>1
  <1> QED BY <1>1, <1>2, <1>3, <1>4

\* Contar changes no stamp, and Sellar that of its page only, which it finds if the table is there.
LEMMA ContarSellos ==
  ASSUME Tipo, NEW a \in Hilos, a.pagina \in Paginas, NEW b, Contar(a, b)
  PROVE  \A v \in Paginas : Entrada(v)'.lru = Entrada(v).lru
  <1>1. CASE EnTabla(a.pagina)
    <2> DEFINE w == a.pagina
               e == [Entrada(w) EXCEPT !.modificado = @ \/ a.op = "MOV_OUT"]
    <2>1. Entrada(w) \in Entradas
      BY EntradaTipo DEF Tipo
    <2>2. e \in Entradas /\ e.lru = Entrada(w).lru
      <3> HIDE DEF w
      <3> QED BY <2>1 DEF Entradas
    <2>3. entradas_tabla' = [entradas_tabla EXCEPT ![w[1]][w[2]] = e]
      BY <1>1 DEF Contar, Entrada
    <2> HIDE DEF e
    <2>4. \A v \in Paginas : Entrada(v)' = IF v = w THEN e ELSE Entrada(v)
      BY <2>2, <2>3, TablaPone DEF Tipo
    <2> QED BY <2>2, <2>4
  <1>2. CASE ~EnTabla(a.pagina)
    BY <1>2 DEF Contar, Entrada
  <1> QED BY <1>1, <1>2

LEMMA SellarSellos ==
  ASSUME Tipo, NEW a \in Hilos, a.pagina \in Paginas, NEW b, Sellar(a, b), EnTabla(a.pagina)
  PROVE  \A v \in Paginas :
           Entrada(v)'.lru = IF v = a.pagina THEN contador_lru ELSE Entrada(v).lru
  <1> DEFINE w == a.pagina
             e == [Entrada(w) EXCEPT !.lru = contador_lru]
  <1>1. Entrada(w) \in Entradas /\ contador_lru \in Nat
    BY EntradaTipo DEF Tipo, TipoMarcos
  <1>2. e \in Entradas /\ e.lru = contador_lru
    <2> HIDE DEF w
    <2> QED BY <1>1 DEF Entradas
  <1>3. entradas_tabla' = [entradas_tabla EXCEPT ![w[1]][w[2]] = e]
    BY DEF Sellar, Entrada
  <1> HIDE DEF e
  <1>4. \A v \in Paginas : Entrada(v)' = IF v = w THEN e ELSE Entrada(v)
    BY <1>2, <1>3, TablaPone DEF Tipo
  <1> QED BY <1>2, <1>4

\* Every page is in the same place with the same stamp if no table changes.
LEMMA TablasQuietas ==
  ASSUME UNCHANGED entradas_tabla
  PROVE  \A v : Entrada(v)' = Entrada(v)
  BY DEF Entrada

\* The programs: a process starts, ends, faults, or begins an access to a page in memory.
LEMMA ProgramasUnico ==
  ASSUME Tipo, Lugar, ConMarcos, Unico, caido = "no", Programas
  PROVE  Unico'
  <1>0. cpu \in Hilos /\ fs \in Hilos /\ pedidos_fs \subseteq Hilos
        /\ repite \in [Procs -> Indices \cup {Nada}]
    BY DEF Tipo, TipoHilos, TipoProcesos
  <1>1. Quietas
    BY OtrosTipo
  <1>2. Presentes' = Presentes
    BY <1>1, OtrosMarcos
  <1>3. UNCHANGED <<entradas_tabla, kernel, algoritmo_pags, paginas_utilizadas, fs>> /\ Entero'
    BY DEF Programas, IniciarProceso, CpuFetch, CpuExit, CpuFalla, CpuSinTabla, CpuMov, CpuArchivo,
           KernelEnvia, Entero, tablaVars, usoVars
  <1>4. /\ \A v \in Presentes : Entrada(v)'.marco = Entrada(v).marco /\ Entrada(v)'.lru = Entrada(v).lru
        /\ Victima' = Victima
    BY <1>3, TablasQuietas DEF Victima
  <1>5. CASE CpuMov \/ CpuArchivo
    <2>1. PICK v \in PaginaPedida, op \in Ops :
            /\ Entrada(v).presencia
            /\ \/ cpu' = Acceso(v, op) /\ UNCHANGED pedidos_fs
               \/ cpu' = SinAcceso /\ pedidos_fs' = pedidos_fs \cup {Acceso(v, op)}
      BY <1>5, MemoriaSupuestos DEF CpuMov, CpuArchivo, Ops
    <2>2. cpu.paso = "ejecutar" /\ repite' = [repite EXCEPT ![cpu.pid] = Nada]
      BY <1>5 DEF CpuMov, CpuArchivo
    <2>3. /\ v \in Paginas /\ v[1] = cpu.pid /\ cpu.pid \in Procs
          /\ EnTabla(v) /\ repite[cpu.pid] \in {Nada, v[2]} /\ v = <<v[1], v[2]>>
      BY <2>2, PaginaPedidaTipo
    <2>4. v \in Presentes
      <3>1. Existe(cpu.pid)
        BY <2>2, EnEjecucion
      <3> QED BY <2>1, <2>3, <3>1 DEF Presentes
    <2>n. PICK n : n = Acceso(v, op)
      OBVIOUS
    <2>5. n.paso \in {"copiar", "buscar"} /\ n.marco = Entrada(v).marco
      BY <2>1, <2>3, <2>n, AccesoEs
    <2>6. \A a : a \in EnAccesos' <=> a \in EnAccesos \/ a = n
      <3>1. SinAcceso.paso = "recibir"
        BY DEF SinAcceso
      <3>2. cpu \notin EnAccesos
        BY <2>2 DEF EnAccesos
      <3>3. \/ cpu' = n /\ UNCHANGED pedidos_fs
            \/ cpu' = SinAcceso /\ pedidos_fs' = pedidos_fs \cup {n}
        BY <2>1, <2>n
      <3> QED BY <1>3, <2>2, <2>5, <3>1, <3>2, <3>3 DEF EnAccesos
    <2>7. Sobre(n, v)'
      BY <1>4, <2>4, <2>5 DEF Sobre
    <2>8. \A a \in EnAccesos, w \in Presentes : Sobre(a, w) => Sobre(a, w)'
      BY <1>4 DEF Sobre
    <2>9. \A a \in EnAccesos' : \E w \in Presentes : Sobre(a, w)'
      BY <2>4, <2>6, <2>7, <2>8 DEF Unico
    <2>10. ASSUME NEW w \in Presentes, PorUsar(w) PROVE PorUsar(w)'
      <3>1. CASE w = v
        BY <2>6, <2>7, <3>1 DEF PorUsar
      <3>2. CASE \E a \in EnAccesos : Sobre(a, w)
        BY <2>6, <2>8, <3>2 DEF PorUsar
      <3>3. CASE w # v /\ repite[w[1]] = w[2]
        <4>1. w = <<w[1], w[2]>> /\ w[1] \in Procs /\ w[2] \in Indices
          BY PaginaPar DEF Presentes
        <4>2. w[1] # cpu.pid
          BY <2>3, <3>3, <4>1, NadaFuera
        <4>3. repite'[w[1]] = repite[w[1]]
          BY <1>0, <2>2, <4>1, <4>2
        <4> QED BY <3>3, <4>3 DEF PorUsar
      <3> QED BY <2>10, <3>1, <3>2, <3>3 DEF PorUsar
    <2> QED BY <1>2, <1>3, <1>4, <2>9, <2>10, UnicoIgual
  <1>6. CASE ~(CpuMov \/ CpuArchivo)
    <2>1. UNCHANGED pedidos_fs
          /\ \/ UNCHANGED cpu
             \/ cpu.paso \in {"recibir", "ejecutar"} /\ cpu' = SinAcceso
             \/ CpuFetch
      BY <1>6 DEF Programas, IniciarProceso, CpuFetch, CpuExit, CpuFalla, CpuSinTabla, KernelEnvia,
                  procesoVars
    <2>2. UNCHANGED cpu \/ (cpu.paso \in {"recibir", "ejecutar"}
                            /\ cpu'.paso \in {"recibir", "ejecutar", "colgado"})
      <3>1. CpuFetch => cpu.paso = "recibir" /\ cpu'.paso \in {"ejecutar", "colgado"}
        BY <1>0 DEF CpuFetch, Hilos
      <3> QED BY <2>1, <3>1 DEF SinAcceso
    <2>3. EnAccesos' = EnAccesos
      <3>1. \A a : a \in EnAccesos' <=> a \in EnAccesos
        BY <1>3, <2>1, <2>2 DEF EnAccesos
      <3> QED BY <3>1 DEF EnAccesos
    <2>4. \A v \in Presentes : repite[v[1]] = v[2] => repite'[v[1]] = v[2]
      <3>1. CASE CpuFalla
        <4>1. PICK u \in PaginaPedida : repite' = [repite EXCEPT ![u[1]] = u[2]]
          BY <3>1 DEF CpuFalla
        <4>2. u[1] = cpu.pid /\ cpu.pid \in Procs /\ repite[cpu.pid] \in {Nada, u[2]}
          BY <3>1, <4>1, PaginaPedidaTipo DEF CpuFalla
        <4>3. \A v \in Presentes : v[1] \in Procs /\ v[2] \in Indices
          BY PaginaPar DEF Presentes
        <4> QED BY <1>0, <4>1, <4>2, <4>3, NadaFuera
      <3>2. CASE ~CpuFalla
        BY <1>6, <3>2 DEF Programas, IniciarProceso, CpuFetch, CpuExit, CpuSinTabla, KernelEnvia,
                          procesoVars
      <3> QED BY <3>1, <3>2
    <2> QED BY <1>2, <1>3, <1>4, <2>3, <2>4, UnicoQuieto
  <1> QED BY <1>5, <1>6

\* A thread finds the page of its frame: it is the only one there.
LEMMA BuscaUnica ==
  ASSUME Tipo, Lugar, ConMarcos, Unico, NEW a \in EnAccesos, NEW b, Buscar(a, b)
  PROVE  /\ caido' = caido /\ b.paso = "contar"
         /\ \A v \in Presentes : Sobre(a, v) => b.pagina = v
  <1>1. a.paso = "buscar" /\ a \in Hilos
    BY DEF Buscar, EnAccesos, Tipo, TipoHilos, TipoProcesos
  <1>2. PICK v \in Presentes : Sobre(a, v)
    BY DEF Unico
  <1>3. \A w \in Presentes : Sobre(a, w) => Entrada(w).marco = a.marco
    BY <1>1 DEF Sobre
  <1>4. marcos[a.marco] = v[1]
    BY <1>2, <1>3 DEF ConMarcos, MarcosCoherentes
  <1>5. v \in PaginasDeMarco(a.marco)
    BY <1>2, <1>3, <1>4 DEF PaginasDeMarco
  <1>6. caido' = caido /\ b.paso = "contar" /\ b.pagina \in PaginasDeMarco(a.marco)
    <2>1. ~(PaginasDeMarco(a.marco) = {})
      BY <1>5
    <2>2. caido' = caido /\ b = [a EXCEPT !.paso = "contar", !.pagina = Primera(PaginasDeMarco(a.marco))]
      BY <2>1 DEF Buscar
    <2>3. Primera(PaginasDeMarco(a.marco)) \in PaginasDeMarco(a.marco)
      BY <2>1, PrimeraTipo
    <2> QED BY <1>1, <2>2, <2>3 DEF Hilos
  <1>7. b.pagina \in Presentes /\ Entrada(b.pagina).marco = a.marco
    BY <1>6 DEF PaginasDeMarco
  <1> QED BY <1>3, <1>6, <1>7 DEF ConMarcos, MarcosCoherentes, UnaPaginaPorMarco

\* An access goes on: the thread a becomes b on the same page.
LEMMA AccesoSigue ==
  ASSUME Tipo, Lugar, ConMarcos, Unico, Quietas, Entero',
         UNCHANGED <<algoritmo_pags, paginas_utilizadas, repite>>,
         \A v \in Paginas : Entrada(v)'.lru = Entrada(v).lru,
         NEW a \in EnAccesos, NEW b,
         \A c : c \in EnAccesos' => c \in EnAccesos \/ c = b,
         b \in EnAccesos', \A c \in EnAccesos : c = a \/ c \in EnAccesos',
         \A v \in Presentes : Sobre(a, v) => Sobre(b, v)'
  PROVE  Unico'
  <1>1. Presentes' = Presentes /\ UNCHANGED kernel
    BY OtrosMarcos DEF Quietas
  <1>2. \A v \in Presentes : Entrada(v)'.marco = Entrada(v).marco /\ Entrada(v)'.lru = Entrada(v).lru
    BY PresenteEs DEF Quietas
  <1>3. Victima' = Victima
    BY <1>1 DEF Victima
  <1>4. \A c \in EnAccesos, v \in Presentes : Sobre(c, v) => Sobre(c, v)'
    BY <1>2 DEF Sobre
  <1>5. \A c \in EnAccesos' : \E v \in Presentes : Sobre(c, v)'
    BY <1>4 DEF Unico
  <1>6. \A v \in Presentes : PorUsar(v) => PorUsar(v)'
    BY <1>4 DEF PorUsar
  <1> QED BY <1>1, <1>2, <1>3, <1>5, <1>6, UnicoIgual

\* The access ends: its page is stamped and is in the list.
LEMMA SellaUnico ==
  ASSUME Tipo, Lugar, ConMarcos, ConBloques, Solo, Unico, Quietas, caido = "no", Sano',
         NEW a \in EnAccesos, a.pagina \in Paginas, NEW b, Sellar(a, b),
         \A c : c \in EnAccesos' => c \in EnAccesos, \A c \in EnAccesos : c = a \/ c \in EnAccesos'
  PROVE  Unico'
  <1>0. a \in Hilos /\ paginas_utilizadas \in Seq(Paginas) /\ kernel.paso = "recibir"
    BY AccesoSolo DEF EnAccesos, Tipo, TipoHilos, TipoMarcos, TipoProcesos
  <1>1. Presentes' = Presentes /\ UNCHANGED <<kernel, algoritmo_pags, contador_lru, repite>>
    BY OtrosMarcos DEF Quietas, Sellar
  <1>2. a.paso = "sellar" /\ a.pagina \in Presentes
    <2>1. a.paso = "sellar"
      BY DEF Sellar
    <2>2. PICK v \in Presentes : Sobre(a, v)
      BY DEF Unico
    <2> QED BY <2>1, <2>2 DEF Sobre
  <1>3. EnTabla(a.pagina)
    BY <1>2 DEF Presentes
  <1>4. Entero'
    BY <1>3 DEF Sellar, Entero
  <1>5. \A v \in Presentes : v \in Paginas /\ Entrada(v)'.marco = Entrada(v).marco
    BY PresenteEs DEF Quietas
  <1>6. \A v \in Presentes : Entrada(v)'.lru = IF v = a.pagina THEN contador_lru ELSE Entrada(v).lru
    BY <1>0, <1>3, <1>5, SellarSellos
  <1>7. /\ SinRepetir(paginas_utilizadas')
        /\ ToSet(paginas_utilizadas) \subseteq ToSet(paginas_utilizadas')
        /\ ToSet(paginas_utilizadas') \subseteq ToSet(paginas_utilizadas) \cup {a.pagina}
    <2>1. SinRepetir(paginas_utilizadas)
      BY DEF Unico, ListaPresente
    <2>2. CASE UNCHANGED paginas_utilizadas
      BY <2>1, <2>2
    <2>3. CASE /\ paginas_utilizadas' = Append(paginas_utilizadas, a.pagina)
               /\ \A i \in DOMAIN paginas_utilizadas : paginas_utilizadas[i] # a.pagina
      <3>1. /\ DOMAIN paginas_utilizadas' = DOMAIN paginas_utilizadas \cup {Len(paginas_utilizadas) + 1}
            /\ Len(paginas_utilizadas) + 1 \notin DOMAIN paginas_utilizadas
            /\ \A i \in DOMAIN paginas_utilizadas : paginas_utilizadas'[i] = paginas_utilizadas[i]
            /\ paginas_utilizadas'[Len(paginas_utilizadas) + 1] = a.pagina
        BY <1>0, <2>3, ColaCrece
      <3> QED BY <2>1, <2>3, <3>1 DEF SinRepetir, ToSet
    <2> QED BY <1>0, <2>2, <2>3, SellarEs
  <1>8. algoritmo_pags = "FIFO" => a.pagina \in ToSet(paginas_utilizadas')
    <2> SUFFICES ASSUME algoritmo_pags = "FIFO", a.pagina \notin ToSet(paginas_utilizadas')
                 PROVE  FALSE
      OBVIOUS
    <2>1. PICK w \in ToSet(paginas_utilizadas) : Entrada(w).bloque = Entrada(a.pagina).bloque
      <3>1. CASE paginas_utilizadas' = Append(paginas_utilizadas, a.pagina)
        <4>1. /\ Len(paginas_utilizadas) + 1 \in DOMAIN paginas_utilizadas'
              /\ paginas_utilizadas'[Len(paginas_utilizadas) + 1] = a.pagina
          BY <1>0, <3>1, ColaCrece
        <4> QED BY <4>1 DEF ToSet
      <3> QED BY <1>3, <3>1 DEF Sellar
    <2>2. w \in Presentes
      BY <1>0, <2>1 DEF Unico, ListaPresente
    <2>3. w = a.pagina
      BY <1>0, <1>2, <2>1, <2>2, PresenteBloque
    <2> QED BY <1>7, <2>1, <2>3
  <1>9. Victima' = Victima /\ Victima = NoPagina
    BY <1>0, <1>1 DEF Victima
  <1>10. \A v \in Presentes' : Elegible(v)' \/ PorUsar(v)'
    <2> SUFFICES ASSUME NEW v \in Presentes PROVE Elegible(v)' \/ PorUsar(v)'
      BY <1>1
    <2>1. CASE v = a.pagina
      <3>1. CASE algoritmo_pags = "FIFO"
        BY <1>1, <1>8, <2>1, <3>1 DEF Elegible
      <3>2. CASE algoritmo_pags # "FIFO"
        <4>1. algoritmo_pags = "LRU"
          BY <3>2 DEF Tipo, TipoProcesos
        <4>2. contador_lru < MAX_LRU
          BY <1>1, <4>1 DEF Sano
        <4> QED BY <1>1, <1>6, <2>1, <3>2, <4>2 DEF Elegible
      <3> QED BY <3>1, <3>2
    <2>2. CASE v # a.pagina /\ Elegible(v)
      BY <1>1, <1>6, <1>7, <1>9, <2>2 DEF Elegible
    <2>3. CASE v # a.pagina /\ PorUsar(v)
      <3>1. CASE repite[v[1]] = v[2]
        BY <1>1, <3>1 DEF PorUsar
      <3>2. CASE \E c \in EnAccesos : Sobre(c, v)
        <4>1. PICK c \in EnAccesos : Sobre(c, v)
          BY <3>2
        <4>2. c # a
          BY <1>2, <2>3, <4>1 DEF Sobre
        <4>3. c \in EnAccesos' /\ Sobre(c, v)'
          BY <1>5, <4>1, <4>2 DEF Sobre
        <4> QED BY <4>3 DEF PorUsar
      <3> QED BY <2>3, <3>1, <3>2 DEF PorUsar
    <2> QED BY <2>1, <2>2, <2>3 DEF Unico
  <1>11. \A c \in EnAccesos' : \E v \in Presentes' : Sobre(c, v)'
    <2>1. \A c \in EnAccesos, v \in Presentes : Sobre(c, v) => Sobre(c, v)'
      BY <1>5 DEF Sobre
    <2> QED BY <1>1, <2>1 DEF Unico
  <1>12. ListaPresente'
    <2>1. a.pagina # NoPagina
      BY NadieMas
    <2>2. ASSUME algoritmo_pags = "FIFO", NEW v \in ToSet(paginas_utilizadas')
          PROVE  v \in Presentes /\ v # Victima
      BY <1>0, <1>2, <1>7, <1>9, <2>1, <2>2 DEF Unico, ListaPresente
    <2> QED BY <1>0, <1>1, <1>7, <1>9, <2>2 DEF ListaPresente
  <1> QED BY <1>0, <1>1, <1>4, <1>10, <1>11, <1>12 DEF Unico

\* The threads that make the accesses.
LEMMA HilosUnico ==
  ASSUME Tipo, Lugar, ConMarcos, ConBloques, Operaciones, "F_READ" \notin Accesos, Solo, Unico,
         caido = "no", Sano', HiloCpu \/ HiloFs
  PROVE  Unico'
  <1>0. cpu \in Hilos /\ fs \in Hilos /\ pedidos_fs \subseteq Hilos
    BY DEF Tipo, TipoHilos, TipoProcesos
  <1>1. Quietas
    BY OtrosTipo
  <1>2. Presentes' = Presentes
    BY <1>1, OtrosMarcos
  <1>3. Entero
    BY DEF Unico
  <1>4. CASE CpuCopia
    <2>1. cpu.paso = "copiar" /\ cpu' = [cpu EXCEPT !.paso = "buscar"]
          /\ UNCHANGED <<fs, pedidos_fs, entradas_tabla, algoritmo_pags, paginas_utilizadas, repite, caido>>
      BY <1>4 DEF CpuCopia, procesoVars, tablaVars, usoVars
    <2>2. cpu'.paso = "buscar" /\ cpu'.marco = cpu.marco
      BY <1>0, <2>1 DEF Hilos
    <2>3. PICK a, b : a = cpu /\ b = cpu'
      OBVIOUS
    <2>4. /\ a \in EnAccesos /\ b \in EnAccesos'
          /\ \A c : c \in EnAccesos' => c \in EnAccesos \/ c = b
          /\ \A c \in EnAccesos : c = a \/ c \in EnAccesos'
      BY <2>1, <2>2, <2>3 DEF EnAccesos
    <2>5. \A v \in Presentes : Entrada(v)'.marco = Entrada(v).marco
      BY <2>1, TablasQuietas
    <2>6. \A v \in Presentes : Sobre(a, v) => Sobre(b, v)'
      BY <2>1, <2>2, <2>3, <2>5 DEF Sobre
    <2>7. \A v \in Paginas : Entrada(v)'.lru = Entrada(v).lru
      BY <2>1, TablasQuietas
    <2>8. Entero'
      BY <1>3, <2>1 DEF Entero
    <2> QED BY <1>1, <2>1, <2>4, <2>6, <2>7, <2>8, AccesoSigue
  <1>5. CASE FsLee
    <2>1. PICK a \in pedidos_fs : fs' = a /\ pedidos_fs' = pedidos_fs \ {a}
      BY <1>5 DEF FsLee
    <2>2. fs.paso = "recibir" /\ a.paso = "buscar"
          /\ UNCHANGED <<cpu, entradas_tabla, algoritmo_pags, paginas_utilizadas, repite, caido, kernel>>
      BY <1>5, <2>1 DEF FsLee, tablaVars, usoVars, Lugar, Accesorios
    <2>3. EnAccesos' = EnAccesos
      <3>1. \A c : c \in EnAccesos' <=> c \in EnAccesos
        BY <2>1, <2>2 DEF EnAccesos
      <3> QED BY <3>1 DEF EnAccesos
    <2>4. \A v \in Presentes : Entrada(v)'.marco = Entrada(v).marco /\ Entrada(v)'.lru = Entrada(v).lru
      BY <2>2, TablasQuietas
    <2>5. Entero' /\ Victima' = Victima
      BY <1>3, <2>2 DEF Entero, Victima
    <2> QED BY <1>2, <2>2, <2>3, <2>4, <2>5, UnicoQuieto
  <1>6. CASE FsEscribe
    <2>1. \E a \in pedidos_fs : a.op = "F_READ"
      BY <1>6 DEF FsEscribe
    <2> QED BY <2>1 DEF Operaciones
  <1>7. ASSUME NEW a, NEW b,
               \/ a = cpu /\ b = cpu' /\ UNCHANGED fs
               \/ a = fs /\ b = fs' /\ UNCHANGED cpu,
               Buscar(a, b) \/ Contar(a, b) \/ Sellar(a, b)
        PROVE  Unico'
    <2>1. a \in Hilos /\ a.paso \in {"buscar", "contar", "sellar"}
      BY <1>0, <1>7 DEF Buscar, Contar, Sellar
    <2>2. a \in EnAccesos
      BY <1>7, <2>1 DEF EnAccesos
    <2>3. UNCHANGED <<pedidos_fs, repite, algoritmo_pags>>
      BY <1>7 DEF Buscar, Contar, Sellar, procesoVars
    <2>4. a.paso \in {"contar", "sellar"} => a.pagina \in Paginas
      BY <1>7 DEF Lugar, Accesorios, EnAcceso
    <2>5. /\ b \in {cpu', fs'}
          /\ \A c : c \in EnAccesos' => c \in EnAccesos \/ c = b
          /\ \A c \in EnAccesos : c = a \/ c \in EnAccesos'
      BY <1>7, <2>3 DEF EnAccesos
    <2>6. CASE Buscar(a, b)
      <3>1. /\ caido' = caido /\ b.paso = "contar"
            /\ \A v \in Presentes : Sobre(a, v) => b.pagina = v
        BY <2>2, <2>6, BuscaUnica
      <3>2. b \in EnAccesos' /\ \A v \in Presentes : Sobre(a, v) => Sobre(b, v)'
        BY <2>5, <3>1 DEF EnAccesos, Sobre
      <3>3. UNCHANGED <<entradas_tabla, paginas_utilizadas>>
        BY <2>6 DEF Buscar, tablaVars, usoVars
      <3>4. \A v \in Paginas : Entrada(v)'.lru = Entrada(v).lru
        BY <3>3, TablasQuietas
      <3>5. Entero'
        BY <1>3, <3>1 DEF Entero
      <3> QED BY <1>1, <2>2, <2>3, <2>5, <3>2, <3>3, <3>4, <3>5, AccesoSigue
    <2>7. CASE Contar(a, b)
      <3>1. a.paso = "contar" /\ b = [a EXCEPT !.paso = "sellar"] /\ UNCHANGED <<paginas_utilizadas, caido>>
        BY <2>7 DEF Contar
      <3>2. b.paso = "sellar" /\ b.pagina = a.pagina
        BY <2>1, <3>1 DEF Hilos
      <3>3. b \in EnAccesos' /\ \A v \in Presentes : Sobre(a, v) => Sobre(b, v)'
        BY <2>5, <3>1, <3>2 DEF EnAccesos, Sobre
      <3>4. \A v \in Paginas : Entrada(v)'.lru = Entrada(v).lru
        BY <2>1, <2>4, <2>7, <3>1, ContarSellos
      <3>5. Entero'
        BY <1>3, <3>1 DEF Entero
      <3> QED BY <1>1, <2>2, <2>3, <2>5, <3>1, <3>3, <3>4, <3>5, AccesoSigue
    <2>8. CASE Sellar(a, b)
      <3>1. b = SinAcceso /\ a.paso = "sellar"
        BY <2>8 DEF Sellar
      <3>2. b \notin EnAccesos'
        BY <3>1 DEF EnAccesos, SinAcceso
      <3>3. \A c : c \in EnAccesos' => c \in EnAccesos
        BY <2>5, <3>2
      <3> QED BY <1>1, <2>2, <2>4, <2>5, <2>8, <3>1, <3>3, SellaUnico
    <2> QED BY <1>7, <2>6, <2>7, <2>8
  <1>8. CASE CpuBusca \/ CpuCuenta \/ CpuSella
    <2>1. UNCHANGED fs /\ (Buscar(cpu, cpu') \/ Contar(cpu, cpu') \/ Sellar(cpu, cpu'))
      BY <1>8 DEF CpuBusca, CpuCuenta, CpuSella
    <2>2. PICK a, b : a = cpu /\ b = cpu'
      OBVIOUS
    <2> QED BY <1>7, <2>1, <2>2
  <1>9. CASE FsBusca \/ FsCuenta \/ FsSella
    <2>1. UNCHANGED cpu /\ (Buscar(fs, fs') \/ Contar(fs, fs') \/ Sellar(fs, fs'))
      BY <1>9 DEF FsBusca, FsCuenta, FsSella
    <2>2. PICK a, b : a = fs /\ b = fs'
      OBVIOUS
    <2> QED BY <1>7, <2>1, <2>2
  <1> QED BY <1>4, <1>5, <1>6, <1>8, <1>9 DEF HiloCpu, HiloFs

\* The kernel's thread, but for the frames it gives and takes and for the victim it chooses.
LEMMA KernelUnicoIgual ==
  ASSUME Tipo, Lugar, Lugar', ConMarcos, Solo, Unico, caido = "no",
         \/ InicializarProceso \/ CrearTabla \/ AsignarSwap \/ FinalizarProceso
         \/ LiberarTabla \/ ProbarModificado \/ SwapOut \/ Cargar
  PROVE  Unico'
  <1>0. kernel \in Kernels
    BY DEF Tipo, TipoHilos
  <1>1. Presentes' = Presentes /\ \A v \in Presentes : Entrada(v)'.marco = Entrada(v).marco
    BY KernelMarcos
  <1>2. UNCHANGED <<cpu, fs, pedidos_fs, repite, algoritmo_pags, paginas_utilizadas>>
    BY DEF InicializarProceso, CrearTabla, AsignarSwap, FinalizarProceso, LiberarTabla,
           ProbarModificado, SwapOut, Cargar, procesoVars, usoVars
  <1>3. EnAccesos' = EnAccesos
    BY <1>2 DEF EnAccesos
  <1>4. \A v \in Presentes : Entrada(v)'.lru = Entrada(v).lru
    <2>1. CASE CrearTabla \/ AsignarSwap
      <3>1. kernel.paso \in PasosIni
        BY <2>1 DEF CrearTabla, AsignarSwap, PasosIni
      <3> QED BY <3>1, SoloPresentes
    <2>2. CASE LiberarTabla
      <3>1. kernel.pid \in Procs /\ estado[kernel.pid] # "no" /\ ~Existe(kernel.pid)
        BY <2>2 DEF LiberarTabla, Lugar, Servicio, PasosFin
      <3>2. ~\E v \in Presentes : TRUE
        BY <3>1, SoloPresentes
      <3> QED BY <3>2
    <2>3. CASE InicializarProceso \/ FinalizarProceso \/ ProbarModificado \/ SwapOut \/ Cargar
      <3>1. UNCHANGED entradas_tabla
        BY <2>3 DEF InicializarProceso, FinalizarProceso, ProbarModificado, SwapOut, Cargar, tablaVars
      <3> QED BY <3>1, TablasQuietas
    <2> QED BY <2>1, <2>2, <2>3
  <1>5. Entero'
    <2>1. CASE LiberarTabla
      <3>1. \A v \in ToSet(paginas_utilizadas) : v[1] # kernel.pid
        BY <2>1 DEF LiberarTabla, Unico, ListaPresente
      <3>2. caido' = caido
        BY <2>1, <3>1 DEF LiberarTabla
      <3> QED BY <3>2 DEF Unico, Entero
    <2>2. CASE AsignarSwap
      <3>1. caido' \in {caido, "sin_swap"}
        BY <2>2 DEF AsignarSwap
      <3> QED BY <3>1 DEF Entero
    <2>3. CASE ~(LiberarTabla \/ AsignarSwap)
      <3>1. caido' = caido
        BY <2>3 DEF InicializarProceso, CrearTabla, FinalizarProceso, ProbarModificado, SwapOut, Cargar
      <3> QED BY <3>1 DEF Entero
    <2> QED BY <2>1, <2>2, <2>3
  <1>6. /\ Victima' = Victima
        /\ \/ UNCHANGED kernel
           \/ kernel.paso # "limpiar_fifo" /\ kernel'.paso \notin {"elegir", "liberar_tabla"}
    <2>1. CASE InicializarProceso \/ FinalizarProceso
      <3>1. \/ Recibe("INICIALIZAR_PROCESO") /\ Atender("crear_tabla")
            \/ Recibe("FINALIZAR_PROCESO") /\ Atender("liberar_marcos")
        BY <2>1 DEF InicializarProceso, FinalizarProceso
      <3>2. kernel.paso = "recibir" /\ kernel'.paso \in {"crear_tabla", "liberar_marcos"}
        BY <3>1, AtenderEs DEF PasosIni, PasosFin
      <3> QED BY <3>2 DEF Victima
    <2>2. CASE CrearTabla
      <3>1. kernel.paso = "crear_tabla" /\ kernel'.paso = "pedir_swap"
        BY <1>0, <2>2 DEF CrearTabla, Kernels
      <3> QED BY <3>1 DEF Victima
    <2>3. CASE AsignarSwap \/ LiberarTabla \/ Cargar
      <3>1. kernel.paso \in {"pedir_swap", "liberar_tabla", "cargar"} /\ kernel' \in {kernel, KernelLibre}
        BY <2>3, AsignaEs DEF AsignarSwap, LiberarTabla, Cargar
      <3> QED BY <3>1 DEF Victima, KernelLibre
    <2>4. CASE ProbarModificado \/ SwapOut
      <3>1. /\ kernel.paso \in {"probar", "swap_out"} /\ kernel'.paso \in {"swap_out", "desalojar"}
            /\ kernel'.victima = kernel.victima
        BY <1>0, <2>4 DEF ProbarModificado, SwapOut, Kernels
      <3> QED BY <3>1 DEF Victima
    <2> QED BY <2>1, <2>2, <2>3, <2>4
  <1> QED BY <1>1, <1>2, <1>3, <1>4, <1>5, <1>6, UnicoQuieto

\* The end of the process: it has no page, no frame and nothing in the list.
LEMMA FinUnico ==
  ASSUME Tipo, Lugar, Solo, Unico, caido = "no", LiberarMarcos \/ LimpiarFifo
  PROVE  Unico'
  <1>0. /\ kernel \in Kernels /\ paginas_utilizadas \in Seq(Paginas)
        /\ procesos_totales \in Seq(Procs)
        /\ kernel.pid \in Procs /\ estado[kernel.pid] # "no"
    BY DEF LiberarMarcos, LimpiarFifo, Lugar, Servicio, PasosFin, Tipo, TipoHilos, TipoMarcos, TipoTabla
  <1>1. UNCHANGED <<cpu, fs, pedidos_fs, repite, algoritmo_pags, estado, caido, entradas_tabla,
                    cantidad_paginas>>
    BY DEF LiberarMarcos, LimpiarFifo, procesoVars, tablaVars
  <1>2. EnAccesos = {} /\ EnAccesos' = {}
    <2>1. kernel.paso # "recibir"
      BY DEF LiberarMarcos, LimpiarFifo
    <2>2. ~\E a : a \in EnAccesos
      BY <2>1, AccesoSolo
    <2>3. EnAccesos' = EnAccesos
      BY <1>1 DEF EnAccesos
    <2> QED BY <2>2, <2>3
  <1>3. kernel.pid \notin ToSet(procesos_totales') /\ \A p : Existe(p)' => Existe(p)
    <2>1. CASE LiberarMarcos
      <3>1. procesos_totales' = RemoveFirst(procesos_totales, kernel.pid)
        BY <2>1 DEF LiberarMarcos
      <3>2. SinRepetir(procesos_totales)
        BY DEF Lugar, Tablas, SinRepetir
      <3>3. ToSet(procesos_totales') = ToSet(procesos_totales) \ {kernel.pid}
        BY <1>0, <3>1, <3>2, RemoveFirstUnica
      <3> QED BY <3>3 DEF Existe
    <2>2. CASE LimpiarFifo
      <3>1. ~Existe(kernel.pid)
        BY <2>2 DEF LimpiarFifo, Lugar, Servicio
      <3> QED BY <2>2, <3>1 DEF LimpiarFifo, tablaVars, Existe
    <2> QED BY <2>1, <2>2
  <1>4. Presentes' = {}
    <2>1. ASSUME NEW v \in Presentes' PROVE v \in Presentes
      BY <1>1, <1>3 DEF Presentes, EnTabla, Entrada
    <2>2. ASSUME NEW v \in Presentes' PROVE FALSE
      <3>1. v[1] = kernel.pid
        BY <1>0, <2>1, SoloPresentes
      <3> QED BY <1>3, <3>1 DEF Presentes, Existe
    <2> QED BY <2>2
  <1>5. kernel'.pid = kernel.pid /\ kernel'.paso \in {"limpiar_fifo", "liberar_tabla"}
        /\ (LiberarMarcos => kernel'.paso = "limpiar_fifo")
    BY <1>0 DEF LiberarMarcos, LimpiarFifo, Kernels
  <1>6. ListaPresente'
    <2>1. CASE LiberarMarcos
      <3>1. UNCHANGED paginas_utilizadas /\ kernel.paso = "liberar_marcos"
        BY <2>1 DEF LiberarMarcos, usoVars
      <3>2. ASSUME algoritmo_pags = "FIFO", NEW v \in ToSet(paginas_utilizadas)
            PROVE  v[1] = kernel.pid
        <4>1. v \in Presentes
          BY <3>1, <3>2 DEF Unico, ListaPresente
        <4> QED BY <1>0, <4>1, SoloPresentes
      <3> QED BY <1>1, <1>5, <2>1, <3>1, <3>2 DEF Unico, ListaPresente
    <2>2. CASE LimpiarFifo
      <3>1. paginas_utilizadas' = SinPaginasDe(paginas_utilizadas, kernel.pid)
            /\ kernel.paso = "limpiar_fifo"
        BY <2>2 DEF LimpiarFifo
      <3>2. Filtrada(paginas_utilizadas', paginas_utilizadas, kernel.pid, Len(paginas_utilizadas))
        BY <1>0, <3>1, SinPaginasTipo
      <3>3. ASSUME NEW v \in ToSet(paginas_utilizadas')
            PROVE  v[1] # kernel.pid /\ v \in ToSet(paginas_utilizadas)
        <4>1. PICK k \in DOMAIN paginas_utilizadas' : v = paginas_utilizadas'[k]
          BY DEF ToSet
        <4>2. PICK i \in 1 .. Len(paginas_utilizadas) :
                paginas_utilizadas'[k] = paginas_utilizadas[i] /\ paginas_utilizadas[i][1] # kernel.pid
          BY <3>2, <4>1 DEF Filtrada
        <4>3. i \in DOMAIN paginas_utilizadas
          BY <1>0
        <4> QED BY <4>1, <4>2, <4>3 DEF ToSet
      <3>4. ASSUME algoritmo_pags = "FIFO", NEW v \in ToSet(paginas_utilizadas') PROVE FALSE
        <4>1. v \in Presentes
          BY <3>3, <3>4 DEF Unico, ListaPresente
        <4> QED BY <1>0, <3>3, <4>1, SoloPresentes
      <3>5. SinRepetir(paginas_utilizadas')
        BY <3>2 DEF Filtrada, Unico, ListaPresente
      <3> QED BY <1>1, <1>5, <3>3, <3>4, <3>5 DEF ListaPresente
    <2> QED BY <2>1, <2>2
  <1> QED BY <1>1, <1>2, <1>4, <1>5, <1>6 DEF Unico, Entero

\* The page that faulted gets a frame; its process will use it.
LEMMA UbicarUnico ==
  ASSUME Tipo, Lugar, Lugar', ConMarcos, Unico, caido = "no", PageFaultConMarco \/ Ocupar
  PROVE  Unico'
  <1>1. PICK w \in Paginas :
          /\ w = <<kernel'.pid, kernel'.arg>> /\ ~Entrada(w).presencia /\ Entrada(w)'.presencia
          /\ \A v \in Paginas : v # w => Entrada(v)' = Entrada(v)
          /\ kernel.paso \in {"recibir", "ocupar"} /\ kernel'.paso = "cargar"
    <2>1. CASE PageFaultConMarco
      BY <2>1, PageFaultConMarcoEs DEF Falla
    <2>2. CASE Ocupar
      BY <2>2, OcuparEs
    <2> QED BY <2>1, <2>2
  <1>2. UNCHANGED <<cpu, fs, pedidos_fs, repite, algoritmo_pags, paginas_utilizadas, caido>>
    BY DEF PageFaultConMarco, Ocupar, procesoVars, usoVars
  <1>3. repite'[w[1]] = w[2]
    BY <1>1 DEF Lugar, Servicio
  <1>4. \A v \in Paginas : v \in Presentes' <=> v \in Presentes \/ v = w
    <2>1. \A p : ~SeVa(p) /\ ~SeVa(p)'
      BY <1>1 DEF SeVa
    <2>2. \A v \in Paginas : v \in Presentes <=> Entrada(v).presencia
      BY <2>1, PresentesSon
    <2>3. \A v \in Paginas : v \in Presentes' <=> Entrada(v)'.presencia
      BY <2>1, PresentesSon
    <2> QED BY <1>1, <2>2, <2>3
  <1>5. \A v \in Presentes : v \in Paginas /\ v # w /\ Entrada(v)' = Entrada(v)
    BY <1>1 DEF Presentes
  <1>6. EnAccesos' = EnAccesos /\ \A a \in EnAccesos, v \in Presentes : Sobre(a, v) => Sobre(a, v)'
    BY <1>2, <1>5 DEF EnAccesos, Sobre
  <1>7. Victima' = Victima
    BY <1>1 DEF Victima
  <1>8. ASSUME NEW v \in Presentes' PROVE Elegible(v)' \/ PorUsar(v)'
    <2>1. CASE v = w
      BY <1>3, <2>1 DEF PorUsar
    <2>2. CASE v # w
      <3>1. v \in Presentes
        BY <1>4, <2>2 DEF Presentes
      <3>2. Elegible(v) => Elegible(v)'
        BY <1>2, <1>5, <1>7, <3>1 DEF Elegible
      <3>3. PorUsar(v) => PorUsar(v)'
        BY <1>2, <1>6, <3>1 DEF PorUsar
      <3> QED BY <3>1, <3>2, <3>3 DEF Unico
    <2> QED BY <2>1, <2>2
  <1>9. Presentes \subseteq Presentes'
    BY <1>4, <1>5
  <1>10. ListaPresente'
    BY <1>1, <1>2, <1>7, <1>9 DEF Unico, ListaPresente
  <1>11. \A a \in EnAccesos' : \E v \in Presentes' : Sobre(a, v)'
    BY <1>6, <1>9 DEF Unico
  <1> QED BY <1>1, <1>2, <1>8, <1>10, <1>11 DEF Unico, Entero

\* paginaAReemplazar with LRU: while every page has a stamp below MAX_LRU there is a victim.
LEMMA HayMenosUsada ==
  ASSUME Tipo, Lugar, Solo, Presentes # {}, \A v \in Presentes : Entrada(v).lru < MAX_LRU
  PROVE  MenosUsadas # {}
  <1>1. \A v \in Presentes : v[2] \in Nat /\ Entrada(v).lru \in Nat
    <2> SUFFICES ASSUME NEW v \in Presentes PROVE v[2] \in Nat /\ Entrada(v).lru \in Nat
      OBVIOUS
    <2>1. v \in Paginas /\ v[2] \in Indices
      BY SoloPresentes
    <2>2. Entrada(v) \in Entradas
      BY <2>1, EntradaTipo DEF Tipo
    <2> QED BY <2>1, <2>2, NadaFuera DEF Entradas
  <1>2. PICK n \in {Entrada(v).lru : v \in Presentes} : \A m \in {Entrada(v).lru : v \in Presentes} : n <= m
    <2>1. {Entrada(v).lru : v \in Presentes} \in SUBSET Nat /\ {Entrada(v).lru : v \in Presentes} # {}
      BY <1>1
    <2> QED BY <2>1, Menor
  <1>3. PICK i \in {v[2] : v \in {u \in Presentes : Entrada(u).lru = n}} :
          \A j \in {v[2] : v \in {u \in Presentes : Entrada(u).lru = n}} : i <= j
    <2>1. /\ {v[2] : v \in {u \in Presentes : Entrada(u).lru = n}} \in SUBSET Nat
          /\ {v[2] : v \in {u \in Presentes : Entrada(u).lru = n}} # {}
      BY <1>1, <1>2
    <2> QED BY <2>1, Menor
  <1>4. PICK v \in Presentes : Entrada(v).lru = n /\ v[2] = i
    BY <1>3
  <1>5. ASSUME NEW w \in Presentes \ {v}
        PROVE  Entrada(v).lru < Entrada(w).lru \/ (Entrada(v).lru = Entrada(w).lru /\ Antes(v, w))
    <2>1. Entrada(w).lru >= n /\ n \in Nat /\ Entrada(w).lru \in Nat
      BY <1>1, <1>2
    <2>2. CASE Entrada(w).lru = n
      <3>1. i <= w[2] /\ w[2] \in Nat /\ i \in Nat
        BY <1>1, <1>3, <1>4, <2>2
      <3>2. v[1] = w[1] /\ v = <<v[1], v[2]>> /\ w = <<w[1], w[2]>>
        <4>1. v = <<v[1], v[2]>> /\ v[1] \in Procs /\ estado[v[1]] # "no"
          BY SoloPresentes
        <4>2. w = <<w[1], w[2]>> /\ \A p \in Procs : estado[p] # "no" => p = w[1]
          BY SoloPresentes
        <4> QED BY <4>1, <4>2
      <3>3. w[2] # i
        BY <1>4, <3>2
      <3>4. v[2] < w[2]
        BY <1>4, <3>1, <3>3
      <3> QED BY <1>4, <2>2, <3>2, <3>4 DEF Antes
    <2>3. CASE Entrada(w).lru # n
      BY <1>4, <2>1, <2>3
    <2> QED BY <2>2, <2>3
  <1>6. v \in MenosUsadas
    BY <1>5 DEF MenosUsadas
  <1> QED BY <1>6

\* While the kernel's thread chooses, every page in memory was used since it was brought.
LEMMA TodasElegibles ==
  ASSUME Tipo, Lugar, Solo, Unico, kernel.paso \in PasosPf \ {"cargar"}, NEW v \in Presentes
  PROVE  Elegible(v)
  <1>1. /\ kernel.pid \in Procs /\ estado[kernel.pid] = "bloqueado" /\ repite[kernel.pid] = kernel.arg
        /\ ~Entrada(<<kernel.pid, kernel.arg>>).presencia
    BY ServidaEs
  <1>2. v[1] = kernel.pid /\ v = <<v[1], v[2]>>
    BY <1>1, SoloPresentes
  <1>3. repite[v[1]] # v[2]
    BY <1>1, <1>2 DEF Presentes
  <1>4. ~\E a \in EnAccesos : Sobre(a, v)
    BY AccesoSolo DEF PasosPf
  <1> QED BY <1>3, <1>4 DEF Unico, PorUsar

\* paginaAReemplazar finds a victim.
LEMMA HayVictima ==
  ASSUME Tipo, Lugar, Solo, Unico
  PROVE  ~ElegirNadie
  <1> SUFFICES ASSUME ElegirNadie PROVE FALSE
    OBVIOUS
  <1>1. kernel.paso = "elegir" /\ Presentes # {}
    BY DEF ElegirNadie, Unico
  <1>2. \A v \in Presentes : Elegible(v)
    BY <1>1, TodasElegibles DEF PasosPf
  <1>3. paginas_utilizadas \in Seq(Paginas)
    BY DEF Tipo, TipoMarcos
  <1>4. CASE algoritmo_pags = "LRU"
    <2>1. \A v \in Presentes : Entrada(v).lru < MAX_LRU
      BY <1>2, <1>4 DEF Elegible
    <2> QED BY <1>1, <1>4, <2>1, HayMenosUsada DEF ElegirNadie
  <1>5. CASE algoritmo_pags = "FIFO"
    <2>1. Victima = NoPagina
      BY <1>1 DEF Victima
    <2>2. PICK v \in Presentes : v \in ToSet(paginas_utilizadas)
      <3>1. PICK v \in Presentes : TRUE
        BY <1>1
      <3>2. v \in Paginas
        BY DEF Presentes
      <3> QED BY <1>2, <1>5, <2>1, <3>2, NadieMas DEF Elegible
    <2>3. paginas_utilizadas # <<>>
      BY <2>2 DEF ToSet
    <2>4. Head(paginas_utilizadas) \in ToSet(paginas_utilizadas)
      BY <1>3, <2>3, ColaMengua DEF ToSet
    <2>5. Head(paginas_utilizadas) \in Presentes
      BY <1>1, <1>5, <2>4 DEF Unico, ListaPresente
    <2>6. Entrada(Head(paginas_utilizadas)).marco # Nada
      BY <2>5, PresenteEs, NadaFuera
    <2> QED BY <1>5, <2>3, <2>6 DEF ElegirNadie
  <1> QED BY <1>4, <1>5 DEF Tipo, TipoProcesos

\* PAGE_FAULT_KERNEL with no free frame: the frames have pages to choose from.
LEMMA SinMarcoUnico ==
  ASSUME Tipo, Lugar, Lugar', ConMarcos, Unico, caido = "no", NMarcos > 0, PageFaultSinMarco
  PROVE  Unico'
  <1>1. Presentes' = Presentes /\ \A v \in Presentes : Entrada(v)'.marco = Entrada(v).marco
    BY KernelMarcos
  <1>2. UNCHANGED <<cpu, fs, pedidos_fs, repite, algoritmo_pags, paginas_utilizadas, caido,
                    entradas_tabla>>
    BY DEF PageFaultSinMarco, procesoVars, usoVars, tablaVars
  <1>3. kernel.paso = "recibir" /\ kernel'.paso = "elegir"
    BY AtenderEs DEF PageFaultSinMarco, PasosPf
  <1>4. Presentes # {}
    <2>1. 0 \in Marcos /\ marcos[0] # Nada
      <3>1. 0 \in Marcos
        BY MemoriaSupuestos DEF Marcos
      <3> QED BY <3>1 DEF PageFaultSinMarco, MarcosLibres
    <2>2. PaginasDeMarco(0) # {}
      BY <1>3, <2>1 DEF ConMarcos, MarcosCoherentes
    <2> QED BY <2>2 DEF PaginasDeMarco
  <1>5. \A v : Entrada(v)' = Entrada(v)
    BY <1>2, TablasQuietas
  <1>6. EnAccesos' = EnAccesos /\ Victima' = Victima
    BY <1>2, <1>3 DEF EnAccesos, Victima
  <1>7. \A a \in EnAccesos, v \in Presentes : Sobre(a, v) => Sobre(a, v)'
    BY <1>1 DEF Sobre
  <1>8. \A a \in EnAccesos' : \E v \in Presentes' : Sobre(a, v)'
    BY <1>1, <1>6, <1>7 DEF Unico
  <1>9. ASSUME NEW v \in Presentes PROVE Elegible(v)' \/ PorUsar(v)'
    <2>1. Elegible(v) => Elegible(v)'
      BY <1>2, <1>5, <1>6 DEF Elegible
    <2>2. PorUsar(v) => PorUsar(v)'
      BY <1>2, <1>6, <1>7 DEF PorUsar
    <2> QED BY <2>1, <2>2 DEF Unico
  <1>10. ListaPresente'
    BY <1>1, <1>2, <1>3, <1>6 DEF Unico, ListaPresente
  <1> QED BY <1>1, <1>2, <1>4, <1>8, <1>9, <1>10 DEF Unico, Entero

\* The victim is chosen; with FIFO it leaves the list.
LEMMA ElegirUnico ==
  ASSUME Tipo, Lugar, Lugar', ConMarcos, Solo, Unico, caido = "no", ElegirLru \/ ElegirFifo
  PROVE  Unico'
  <1>0. paginas_utilizadas \in Seq(Paginas) /\ algoritmo_pags \in {"FIFO", "LRU"}
    BY DEF Tipo, TipoMarcos, TipoProcesos
  <1>1. Presentes' = Presentes
    BY KernelMarcos
  <1>2. UNCHANGED <<cpu, fs, pedidos_fs, repite, algoritmo_pags, caido, entradas_tabla>>
        /\ kernel.paso = "elegir"
    BY DEF ElegirLru, ElegirFifo, procesoVars, tablaVars
  <1>3. \A v : Entrada(v)' = Entrada(v)
    BY <1>2, TablasQuietas
  <1>4. EnAccesos = {} /\ EnAccesos' = {}
    <2>1. ~\E a : a \in EnAccesos
      BY <1>2, AccesoSolo
    <2>2. EnAccesos' = EnAccesos
      BY <1>2 DEF EnAccesos
    <2> QED BY <2>1, <2>2
  <1>5. Victima = NoPagina /\ \A v \in Presentes : v \in Paginas /\ v # NoPagina
    BY <1>2, NadieMas DEF Victima, Presentes
  <1>6. \A v \in Presentes : Elegible(v)
    BY <1>2, TodasElegibles DEF PasosPf
  <1>7. kernel'.paso = "probar"
    <2>1. PICK v \in Paginas : kernel' = ConVictima(v)
      BY ElegirEs
    <2> QED BY <2>1, ConVictimaTipo
  <1>8. CASE algoritmo_pags = "LRU"
    <2>1. UNCHANGED paginas_utilizadas
      BY <1>8 DEF ElegirLru, ElegirFifo, usoVars
    <2>2. \A v \in Presentes : Elegible(v)'
      BY <1>2, <1>3, <1>6, <1>8 DEF Elegible
    <2>3. ListaPresente'
      BY <1>2, <1>7, <1>8, <2>1 DEF Unico, ListaPresente
    <2> QED BY <1>1, <1>2, <1>4, <1>7, <2>2, <2>3 DEF Unico, Entero
  <1>9. CASE algoritmo_pags = "FIFO"
    <2>1. PICK h \in Paginas :
            /\ paginas_utilizadas # <<>> /\ h = Head(paginas_utilizadas)
            /\ kernel' = ConVictima(h) /\ paginas_utilizadas' = Tail(paginas_utilizadas)
      <3>1. paginas_utilizadas # <<>> /\ paginas_utilizadas' = Tail(paginas_utilizadas)
            /\ kernel' = ConVictima(Head(paginas_utilizadas))
        BY <1>9 DEF ElegirLru, ElegirFifo
      <3>2. Head(paginas_utilizadas) \in Paginas
        BY <1>0, <3>1, ColaMengua
      <3> QED BY <3>1, <3>2
    <2>2. Victima' = h
      BY <2>1, ConVictimaTipo DEF Victima
    <2>3. /\ h = paginas_utilizadas[1] /\ 1 \in DOMAIN paginas_utilizadas
          /\ paginas_utilizadas' \in Seq(Paginas)
          /\ \A i \in DOMAIN paginas_utilizadas' :
               /\ i + 1 \in DOMAIN paginas_utilizadas /\ i + 1 # 1
               /\ paginas_utilizadas'[i] = paginas_utilizadas[i + 1]
      BY <1>0, <2>1, ColaMengua
    <2>4. SinRepetir(paginas_utilizadas) /\ SinRepetir(paginas_utilizadas')
      <3>1. SinRepetir(paginas_utilizadas)
        BY DEF Unico, ListaPresente
      <3>2. DOMAIN paginas_utilizadas' \subseteq Nat
        BY <2>3
      <3> QED BY <2>3, <3>1, <3>2 DEF SinRepetir
    <2>5. ASSUME NEW v \in ToSet(paginas_utilizadas') PROVE v \in ToSet(paginas_utilizadas) /\ v # h
      <3>1. PICK i \in DOMAIN paginas_utilizadas' : v = paginas_utilizadas'[i]
        BY DEF ToSet
      <3> QED BY <2>3, <2>4, <3>1 DEF SinRepetir, ToSet
    <2>6. ASSUME NEW v \in ToSet(paginas_utilizadas), v # h PROVE v \in ToSet(paginas_utilizadas')
      <3>1. PICK i \in DOMAIN paginas_utilizadas : v = paginas_utilizadas[i]
        BY DEF ToSet
      <3>2. /\ DOMAIN paginas_utilizadas = 1 .. Len(paginas_utilizadas) /\ Len(paginas_utilizadas) \in Nat
            /\ DOMAIN Tail(paginas_utilizadas) = 1 .. Len(paginas_utilizadas) - 1
        BY <1>0, <2>1, HeadTailProperties
      <3>3. i \in Nat /\ i # 1 /\ i - 1 \in DOMAIN paginas_utilizadas'
        BY <2>1, <2>3, <2>6, <3>1, <3>2
      <3>4. paginas_utilizadas'[i - 1] = v
        BY <2>3, <3>1, <3>3
      <3> QED BY <3>3, <3>4 DEF ToSet
    <2>7. \A v \in Presentes : Elegible(v)'
      BY <1>2, <1>5, <1>6, <1>9, <2>2, <2>6 DEF Elegible
    <2>8. ListaPresente'
      BY <1>1, <1>2, <1>7, <1>9, <2>2, <2>4, <2>5 DEF Unico, ListaPresente
    <2> QED BY <1>1, <1>2, <1>4, <1>7, <2>7, <2>8 DEF Unico, Entero
  <1> QED BY <1>0, <1>8, <1>9

\* The victim leaves its frame.
LEMMA DesalojarUnico ==
  ASSUME Tipo, Lugar, Lugar', ConMarcos, Solo, Unico, caido = "no", Desalojar
  PROVE  Unico'
  <1>1. PICK w \in Paginas : w = kernel.victima
    BY VictimaEs DEF Desalojar
  <1>2. /\ ~Entrada(w)'.presencia /\ \A v \in Paginas : v # w => Entrada(v)' = Entrada(v)
        /\ kernel.paso = "desalojar" /\ kernel'.paso = "ocupar"
    BY <1>1, DesalojarEs DEF Desalojar
  <1>3. UNCHANGED <<cpu, fs, pedidos_fs, repite, algoritmo_pags, paginas_utilizadas, caido>>
    BY DEF Desalojar, procesoVars, usoVars
  <1>4. \A v \in Paginas : v \in Presentes' <=> v \in Presentes /\ v # w
    <2>1. \A p : ~SeVa(p) /\ ~SeVa(p)'
      BY <1>2 DEF SeVa
    <2>2. \A v \in Paginas : v \in Presentes <=> Entrada(v).presencia
      BY <2>1, PresentesSon
    <2>3. \A v \in Paginas : v \in Presentes' <=> Entrada(v)'.presencia
      BY <2>1, PresentesSon
    <2> QED BY <1>2, <2>2, <2>3
  <1>5. EnAccesos = {} /\ EnAccesos' = {}
    <2>1. ~\E a : a \in EnAccesos
      BY <1>2, AccesoSolo
    <2>2. EnAccesos' = EnAccesos
      BY <1>3 DEF EnAccesos
    <2> QED BY <2>1, <2>2
  <1>6. Victima = w
    BY <1>1, <1>2 DEF Victima
  <1>7. ASSUME NEW v \in Presentes' PROVE Elegible(v)'
    <2>1. v \in Paginas
      BY DEF Presentes
    <2>2. v \in Presentes /\ v # w /\ Entrada(v)' = Entrada(v)
      BY <1>2, <1>4, <2>1
    <2>3. Elegible(v)
      BY <1>2, <2>2, TodasElegibles DEF PasosPf
    <2> QED BY <1>3, <1>6, <2>2, <2>3 DEF Elegible
  <1>8. ListaPresente'
    <2>1. Victima' = NoPagina
      BY <1>2 DEF Victima
    <2>2. ASSUME algoritmo_pags = "FIFO", NEW v \in ToSet(paginas_utilizadas)
          PROVE  v \in Presentes' /\ v # NoPagina
      <3>1. v \in Presentes /\ v # w
        BY <1>2, <1>6, <2>2 DEF Unico, ListaPresente
      <3>2. v \in Paginas
        BY <3>1 DEF Presentes
      <3> QED BY <1>4, <3>1, <3>2, NadieMas
    <2> QED BY <1>2, <1>3, <2>1, <2>2 DEF Unico, ListaPresente
  <1> QED BY <1>2, <1>3, <1>5, <1>7, <1>8 DEF Unico, Entero

LEMMA PasoUnico ==
  ASSUME IInv, Operaciones, "F_READ" \notin Accesos, NMarcos > 0, Solo /\ Sano => Unico,
         [Next]_vars, Solo', Sano'
  PROVE  Unico'
  <1>1. Solo /\ Sano /\ Unico
    BY SoloAntes
  <1>2. Tipo /\ Lugar /\ ConMarcos /\ ConBloques
    BY DEF IInv
  <1>3. Lugar'
    BY PasoInv DEF IInv
  <1>4. CASE UNCHANGED vars
    <2>1. /\ UNCHANGED <<procesos_totales, cantidad_paginas, entradas_tabla, cpu, fs, pedidos_fs,
                         repite, kernel, algoritmo_pags, paginas_utilizadas, caido>>
      BY <1>4 DEF vars, tablaVars, usoVars, procesoVars
    <2>2. \A v : Entrada(v)' = Entrada(v)
      BY <2>1, TablasQuietas
    <2>3. Presentes' = Presentes
      BY <2>1, <2>2 DEF Presentes, Existe, EnTabla
    <2>4. EnAccesos' = EnAccesos /\ Victima' = Victima
      BY <2>1 DEF EnAccesos, Victima
    <2>5. Entero'
      BY <1>1, <2>1 DEF Unico, Entero
    <2> QED BY <1>1, <1>2, <2>1, <2>2, <2>3, <2>4, <2>5, UnicoQuieto
  <1>5. CASE caido = "no" /\ Programas
    BY <1>1, <1>2, <1>5, ProgramasUnico
  <1>6. CASE caido = "no" /\ (HiloCpu \/ HiloFs)
    BY <1>1, <1>2, <1>6, HilosUnico
  <1>7. CASE caido = "no" /\ HiloKernel
    <2>1. CASE \/ InicializarProceso \/ CrearTabla \/ AsignarSwap \/ FinalizarProceso
               \/ LiberarTabla \/ ProbarModificado \/ SwapOut \/ Cargar
      BY <1>1, <1>2, <1>3, <1>7, <2>1, KernelUnicoIgual
    <2>2. CASE LiberarMarcos \/ LimpiarFifo
      BY <1>1, <1>2, <1>7, <2>2, FinUnico
    <2>3. CASE PageFaultConMarco \/ Ocupar
      BY <1>1, <1>2, <1>3, <1>7, <2>3, UbicarUnico
    <2>4. CASE PageFaultSinMarco
      BY <1>1, <1>2, <1>3, <1>7, <2>4, SinMarcoUnico
    <2>5. CASE ElegirLru \/ ElegirFifo
      BY <1>1, <1>2, <1>3, <1>7, <2>5, ElegirUnico
    <2>6. CASE ElegirNadie
      BY <1>1, <1>2, <2>6, HayVictima
    <2>7. CASE Desalojar
      BY <1>1, <1>2, <1>3, <1>7, <2>7, DesalojarUnico
    <2> QED BY <1>7, <2>1, <2>2, <2>3, <2>4, <2>5, <2>6, <2>7 DEF HiloKernel
  <1> QED BY <1>4, <1>5, <1>6, <1>7 DEF Next

LEMMA InicioUnico ==
  ASSUME Init
  PROVE  Unico
  <1>1. Presentes = {} /\ EnAccesos = {} /\ Entero
    BY DEF Init, Presentes, Existe, ToSet, EnAccesos, SinAcceso, Entero
  <1>2. ListaPresente
    BY DEF Init, ListaPresente, SinRepetir, ToSet, KernelLibre
  <1>3. kernel.paso = "recibir"
    BY DEF Init, KernelLibre
  <1> QED BY <1>1, <1>2, <1>3 DEF Unico

\* While one process was ever started, no access finds its frame without a page or its table
\* freed, every replacement finds a victim and the list keeps no page of the process that
\* ended, for every number of frames, pages and accesses below MAX_LRU.  F_READ stamps no
\* page, so it is left out: paginaAReemplazar may then find nobody.
THEOREM UnicoSiempre == "F_READ" \notin Accesos /\ NMarcos > 0 => (Spec => []UnicoSeguro)
  <1> SUFFICES ASSUME "F_READ" \notin Accesos, NMarcos > 0
               PROVE  Spec => []UnicoSeguro
    OBVIOUS
  <1> DEFINE Inv == IInv /\ Operaciones /\ (Solo /\ Sano => Unico)
  <1>1. Init => Inv
    BY InicioInv, InicioUso, InicioUnico
  <1>2. Inv /\ [Next]_vars => Inv'
    <2>1. SUFFICES ASSUME Inv, [Next]_vars PROVE Inv'
      OBVIOUS
    <2>2. IInv'
      BY <2>1, PasoInv
    <2>3. Operaciones'
      BY <2>1, PasoOperaciones DEF IInv
    <2>4. ASSUME Solo', Sano' PROVE Unico'
      BY <2>1, <2>4, PasoUnico
    <2> QED BY <2>2, <2>3, <2>4
  <1>3. Inv => UnicoSeguro
    <2> SUFFICES ASSUME Inv, ~(Cardinality({p \in Procs : estado[p] # "no"}) > 1), Sano
                 PROVE  Entero
      BY MemoriaSupuestos DEF UnicoSeguro, Sano, Entero, IInv, Tipo, TipoMarcos
    <2>1. Solo
      <3> SUFFICES ASSUME NEW p \in Procs, NEW q \in Procs, estado[p] # "no", estado[q] # "no", p # q
                   PROVE  FALSE
        BY DEF Solo
      <3>1. IsFiniteSet({r \in Procs : estado[r] # "no"})
        BY MemoriaSupuestos, FS_Subset
      <3>2. {p, q} \subseteq {r \in Procs : estado[r] # "no"}
        OBVIOUS
      <3>3. Cardinality({p, q}) <= Cardinality({r \in Procs : estado[r] # "no"})
        BY <3>1, <3>2, FS_Subset
      <3>4. Cardinality({p, q}) = 2
        <4>1. {p, q} = {p} \cup {q}
          OBVIOUS
        <4>2. IsFiniteSet({p}) /\ Cardinality({p}) = 1
          BY FS_Singleton
        <4>3. Cardinality({p} \cup {q}) = Cardinality({p}) + 1
          BY <4>2, FS_AddElement
        <4> QED BY <4>1, <4>2, <4>3
      <3>5. Cardinality({r \in Procs : estado[r] # "no"}) \in Nat
        BY <3>1, FS_CardinalityType
      <3> QED BY <3>3, <3>4, <3>5
    <2> QED BY <2>1 DEF Unico
  <1> QED BY <1>1, <1>2, <1>3, PTL DEF Spec
=============================================================================
