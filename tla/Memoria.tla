------------------------------ MODULE Memoria ------------------------------
(***************************************************************************)
(* The process memoria (memoria/src/memoria.c) and the swap partition that *)
(* filesystem keeps for it: page tables, frames, FIFO and LRU replacement, *)
(* swap out and swap in.                                                   *)
(*                                                                         *)
(* Three threads of memoria share its tables: manejo_conexion_cpu,         *)
(* manejo_conexion_kernel and manejo_conexion_filesystem_ops.  An action   *)
(* is a stretch of one of them between two points where another can see or *)
(* change what it uses.  The CPU and the kernel appear as the messages     *)
(* they send: a fetch, a translation and an access are messages of their   *)
(* own, and the access goes to the frame that the translation gave.        *)
(*                                                                         *)
(* Abstracted: a page has one word; an instruction is the access it makes, *)
(* to any page of its process; processes end by EXIT.  Nobody else talks   *)
(* to the swap thread of filesystem and its caller waits for the answer,   *)
(* so what it does is part of the caller's step.                           *)
(***************************************************************************)
EXTENDS Integers, SequencesExt, FiniteSetsExt

CONSTANTS
  Procs,       \* pids
  TamPagina,   \* TAM_PAGINA
  Tamanios,    \* the sizes iniciar_proceso can be given
  NMarcos,     \* TAM_MEMORIA / TAM_PAGINA
  NBloques,    \* CANTIDAD_BLOQUES_SWAP
  Valores,     \* the words MOV_OUT and F_READ can write
  Vacio,       \* a word of a block nobody wrote
  Basura,      \* a word read from a buffer that was already freed
  Accesos,     \* the instructions of the programs that use memory
  MAX_LRU,     \* 999999
  MaxUsos      \* bound: no access starts once contador_lru got there

Nada    == -1
Marcos  == 0 .. NMarcos - 1
Bloques == 0 .. NBloques - 1

\* paginas_necesarias_proceso: ceil of the quotient, and one more if there is a remainder,
\* so a size that is not a multiple gets a page more than it needs.
PaginasNecesarias(tam) ==
  IF tam % TamPagina = 0 THEN tam \div TamPagina ELSE tam \div TamPagina + 2

MaxPaginas == Max({PaginasNecesarias(t) : t \in Tamanios})
Indices    == 0 .. MaxPaginas - 1
Palabras   == Valores \cup {Vacio, Basura}

ASSUME MemoriaSupuestos ==
  /\ Procs \subseteq Nat /\ IsFiniteSet(Procs)
  /\ TamPagina \in Nat \ {0}
  /\ Tamanios \subseteq Nat /\ Tamanios # {} /\ IsFiniteSet(Tamanios)
  /\ NMarcos \in Nat /\ NBloques \in Nat
  /\ Accesos \subseteq {"MOV_IN", "MOV_OUT", "F_READ", "F_WRITE"}
  /\ MAX_LRU \in Nat /\ MaxUsos \in Nat

VARIABLES
  algoritmo_pags,
  procesos_totales,    \* pids in the order they were added
  cantidad_paginas,    \* of each table; 0 before it is built and once it is freed
  entradas_tabla,      \* [pid -> [index -> entry]]
  marcos,              \* the pid of each frame, or -1
  memoria_usuario,     \* the word in each frame
  paginas_utilizadas,  \* the FIFO list: pages <<pid, index>>
  contador_lru,
  swap,                \* filesystem's bitmap: the blocks in use
  bloques,             \* the word in each swap block
  estado,              \* of each process, as the kernel sees it
  repite,              \* the page its current instruction faulted on, or -1
  por_enviar,          \* what exit_pcb and the manejar_pf threads of the kernel will send
  pedidos,             \* the kernel's messages on its socket
  kernel,              \* manejo_conexion_kernel: where it is and its local variables
  cpu,                 \* manejo_conexion_cpu and the CPU that waits for it
  fs,                  \* manejo_conexion_filesystem_ops
  pedidos_fs,          \* the accesses the kernel sent to filesystem
  caido                \* how memoria died or lost its way, or "no"

tablaVars   == <<procesos_totales, cantidad_paginas, entradas_tabla>>
marcoVars   == <<marcos, memoria_usuario>>
usoVars     == <<paginas_utilizadas, contador_lru>>
swapVars    == <<swap, bloques>>
procesoVars == <<estado, repite, por_enviar, pedidos_fs>>

vars == <<algoritmo_pags, tablaVars, marcoVars, usoVars, swapVars, procesoVars, pedidos, kernel, cpu,
          fs, caido>>

-----------------------------------------------------------------------------
(* Helpers *)

Paginas == Procs \X Indices

Entrada(v) == entradas_tabla[v[1]][v[2]]

\* obtener_proceso_pid finds it.
Existe(p) == p \in ToSet(procesos_totales)

\* The table has the page: it is built and not yet freed.
EnTabla(v) == v[2] < cantidad_paginas[v[1]]

\* The pages in memory of the processes memoria knows.
Presentes == {v \in Paginas : Existe(v[1]) /\ EnTabla(v) /\ Entrada(v).presencia}

EntradaNueva ==
  [marco |-> Nada, presencia |-> FALSE, modificado |-> FALSE, bloque |-> 0, lru |-> MAX_LRU]

Mensaje(codigo, p, n) == [codigo |-> codigo, pid |-> p, arg |-> n]

NoPagina  == <<Nada, Nada>>
KernelLibre ==
  [paso |-> "recibir", pid |-> Nada, arg |-> Nada, victima |-> NoPagina, marco |-> Nada]
SinAcceso == [paso |-> "recibir", pid |-> Nada, op |-> "MOV_IN", marco |-> Nada, pagina |-> NoPagina]

\* marco_desde_df, then the present page of the frame's process that has the frame: what
\* marcar_pag_modificada, leer_memoria_cpu and leer_memoria_fs look for.
PaginasDeMarco(m) == {v \in Presentes : v[1] = marcos[m] /\ Entrada(v).marco = m}

\* list_find: the first of some pages of one process.
Primera(s) == CHOOSE v \in s : \A w \in s : v[2] <= w[2]

Init ==
  /\ algoritmo_pags \in {"FIFO", "LRU"}
  /\ procesos_totales = <<>> /\ cantidad_paginas = [p \in Procs |-> 0]
  /\ entradas_tabla = [p \in Procs |-> [i \in Indices |-> EntradaNueva]]
  /\ marcos = [m \in Marcos |-> Nada] /\ memoria_usuario = [m \in Marcos |-> Vacio]
  /\ paginas_utilizadas = <<>> /\ contador_lru = 0
  /\ swap = {} /\ bloques = [b \in Bloques |-> Vacio]
  /\ estado = [p \in Procs |-> "no"] /\ repite = [p \in Procs |-> Nada]
  /\ por_enviar = {} /\ pedidos_fs = {} /\ pedidos = <<>>
  /\ kernel = KernelLibre /\ cpu = SinAcceso /\ fs = SinAcceso
  /\ caido = "no"

-----------------------------------------------------------------------------
(* The kernel and the CPU, as memoria sees them *)

\* iniciar_proceso: crear_proceso_memoria; the process can run without an answer.
IniciarProceso ==
  \E p \in Procs, tam \in Tamanios :
    /\ estado[p] = "no" /\ \A q \in Procs : q < p => estado[q] # "no"
    /\ estado' = [estado EXCEPT ![p] = "listo"]
    /\ pedidos' = Append(pedidos, Mensaje("INICIALIZAR_PROCESO", p, tam))
    /\ UNCHANGED <<algoritmo_pags, tablaVars, marcoVars, usoVars, swapVars, repite, por_enviar,
                   pedidos_fs, kernel, cpu, fs, caido>>

\* A thread of the kernel sends its message about p.
KernelEnvia(p) ==
  \E m \in por_enviar :
    /\ m.pid = p
    /\ pedidos' = Append(pedidos, m)
    /\ por_enviar' = por_enviar \ {m}
    /\ UNCHANGED <<algoritmo_pags, tablaVars, marcoVars, usoVars, swapVars, estado, repite,
                   pedidos_fs, kernel, cpu, fs, caido>>

\* fetch: PEDIDO_INSTRUCCION.  Of a process it does not know memoria says nothing, and the
\* CPU waits for ever.
CpuFetch ==
  \E p \in Procs :
    /\ cpu.paso = "recibir" /\ estado[p] = "listo"
    /\ cpu' = [cpu EXCEPT !.paso = IF Existe(p) THEN "ejecutar" ELSE "colgado", !.pid = p]
    /\ UNCHANGED <<algoritmo_pags, tablaVars, marcoVars, usoVars, swapVars, procesoVars, pedidos,
                   kernel, fs, caido>>

\* The instruction is EXIT: exit_pcb will send FINALIZAR_PROCESO.
CpuExit ==
  /\ cpu.paso = "ejecutar" /\ repite[cpu.pid] = Nada
  /\ estado' = [estado EXCEPT ![cpu.pid] = "fin"]
  /\ por_enviar' = por_enviar \cup {Mensaje("FINALIZAR_PROCESO", cpu.pid, Nada)}
  /\ cpu' = SinAcceso
  /\ UNCHANGED <<algoritmo_pags, tablaVars, marcoVars, usoVars, swapVars, repite, pedidos_fs, pedidos,
                 kernel, fs, caido>>

\* The page the instruction being executed is on: any, or that of the last fault.
PaginaPedida ==
  {v \in {cpu.pid} \X Indices : EnTabla(v) /\ repite[cpu.pid] \in {Nada, v[2]}}

\* MARCO for a page that is not in memory: the process blocks, a manejar_pf thread will
\* ask for the page, and the instruction will be executed again.
CpuFalla ==
  /\ cpu.paso = "ejecutar"
  /\ \E v \in PaginaPedida :
       /\ ~Entrada(v).presencia
       /\ por_enviar' = por_enviar \cup {Mensaje("PAGE_FAULT_KERNEL", v[1], v[2])}
       /\ repite' = [repite EXCEPT ![v[1]] = v[2]]
       /\ estado' = [estado EXCEPT ![v[1]] = "bloqueado"]
  /\ cpu' = SinAcceso
  /\ UNCHANGED <<algoritmo_pags, tablaVars, marcoVars, usoVars, swapVars, pedidos_fs, pedidos,
                 kernel, fs, caido>>

\* MARCO before there is a table: the pointer to it, or the entry it gives, is not one.
CpuSinTabla ==
  /\ cpu.paso = "ejecutar" /\ kernel.paso = "crear_tabla" /\ kernel.pid = cpu.pid
  /\ caido' = "sin_tabla"
  /\ UNCHANGED <<algoritmo_pags, tablaVars, marcoVars, usoVars, swapVars, procesoVars, pedidos,
                 kernel, cpu, fs>>

\* What the CPU asks of the frame it was given for the page v.
Acceso(v, op) ==
  [paso |-> IF op = "MOV_OUT" THEN "copiar" ELSE "buscar", pid |-> v[1], op |-> op,
   marco |-> Entrada(v).marco, pagina |-> NoPagina]

\* MARCO for a page in memory and MOV_IN_CPU or MOV_OUT_CPU for the frame.
CpuMov ==
  /\ cpu.paso = "ejecutar" /\ contador_lru < MaxUsos
  /\ \E v \in PaginaPedida, op \in Accesos \cap {"MOV_IN", "MOV_OUT"} :
       Entrada(v).presencia /\ cpu' = Acceso(v, op)
  /\ repite' = [repite EXCEPT ![cpu.pid] = Nada]
  /\ UNCHANGED <<algoritmo_pags, tablaVars, marcoVars, usoVars, swapVars, estado, por_enviar,
                 pedidos_fs, pedidos, kernel, fs, caido>>

\* MARCO for the page of an F_READ or F_WRITE: the address goes to the kernel, from there
\* to filesystem, and comes back on its connection with memoria.
CpuArchivo ==
  /\ cpu.paso = "ejecutar" /\ contador_lru < MaxUsos
  /\ \E v \in PaginaPedida, op \in Accesos \cap {"F_READ", "F_WRITE"} :
       Entrada(v).presencia /\ pedidos_fs' = pedidos_fs \cup {Acceso(v, op)}
  /\ estado' = [estado EXCEPT ![cpu.pid] = "bloqueado"]
  /\ repite' = [repite EXCEPT ![cpu.pid] = Nada]
  /\ cpu' = SinAcceso
  /\ UNCHANGED <<algoritmo_pags, tablaVars, marcoVars, usoVars, swapVars, por_enviar, pedidos,
                 kernel, fs, caido>>

-----------------------------------------------------------------------------
(* manejo_conexion_cpu and manejo_conexion_filesystem_ops *)

\* escribir_memoria_cpu: the memcpy, under mutex_memoria_usuario.
CpuCopia ==
  /\ cpu.paso = "copiar"
  /\ \E x \in Valores : memoria_usuario' = [memoria_usuario EXCEPT ![cpu.marco] = x]
  /\ cpu' = [cpu EXCEPT !.paso = "buscar"]
  /\ UNCHANGED <<algoritmo_pags, tablaVars, marcos, usoVars, swapVars, procesoVars, pedidos, kernel,
                 fs, caido>>

\* marco_desde_df, obtener_proceso_pid and the page of that frame, whoever has it by now;
\* the page found is not tested.  a is the thread, b the thread after it.
Buscar(a, b) ==
  /\ a.paso = "buscar"
  /\ IF PaginasDeMarco(a.marco) = {}
       THEN caido' = "pagina_nula" /\ b = a
       ELSE caido' = caido /\ b = [a EXCEPT !.paso = "contar",
                                            !.pagina = Primera(PaginasDeMarco(a.marco))]
  /\ UNCHANGED <<algoritmo_pags, tablaVars, marcoVars, usoVars, swapVars, procesoVars, pedidos,
                 kernel>>

\* Mutant of Contar: without cambiar_bit_modificado.
ContarSinBit(a, b) ==
  /\ a.paso = "contar"
  /\ contador_lru' = contador_lru + 1
  /\ b = [a EXCEPT !.paso = "sellar"]
  /\ UNCHANGED <<algoritmo_pags, tablaVars, marcoVars, paginas_utilizadas, swapVars, procesoVars,
                 pedidos, kernel, caido>>

\* cambiar_bit_modificado if it was a MOV_OUT, and contador_lru++ under its mutex.
Contar(a, b) ==
  /\ a.paso = "contar"
  /\ entradas_tabla' = IF EnTabla(a.pagina)
                         THEN [entradas_tabla EXCEPT ![a.pagina[1]][a.pagina[2]].modificado =
                                                       @ \/ a.op = "MOV_OUT"]
                         ELSE entradas_tabla
  /\ contador_lru' = contador_lru + 1
  /\ b = [a EXCEPT !.paso = "sellar"]
  /\ UNCHANGED <<algoritmo_pags, procesos_totales, cantidad_paginas, marcoVars, paginas_utilizadas,
                 swapVars, procesoVars, pedidos, kernel, caido>>

\* The rest of actualizo_entrada_para_futuro_reemplazo: the stamp and agregar_pagina_fifo,
\* which looks for the swap block of the page and not for the page.  A page whose table
\* was freed is written all the same.
Sellar(a, b) ==
  /\ a.paso = "sellar"
  /\ IF EnTabla(a.pagina)
       THEN /\ entradas_tabla' =
                 [entradas_tabla EXCEPT ![a.pagina[1]][a.pagina[2]].lru = contador_lru]
            /\ paginas_utilizadas' =
                 IF \E w \in ToSet(paginas_utilizadas) : Entrada(w).bloque = Entrada(a.pagina).bloque
                   THEN paginas_utilizadas ELSE Append(paginas_utilizadas, a.pagina)
            /\ caido' = caido
       ELSE caido' = "entrada_liberada" /\ UNCHANGED <<entradas_tabla, paginas_utilizadas>>
  /\ b = SinAcceso
  /\ UNCHANGED <<algoritmo_pags, procesos_totales, cantidad_paginas, marcoVars, contador_lru,
                 swapVars, por_enviar, repite, pedidos_fs, pedidos, kernel>>

\* The rest of a MOV_IN or MOV_OUT.
CpuBusca == Buscar(cpu, cpu') /\ UNCHANGED fs
CpuCuenta == Contar(cpu, cpu') /\ UNCHANGED fs
CpuSella == Sellar(cpu, cpu') /\ UNCHANGED <<estado, fs>>

\* F_READ_FS: escribir_memoria_fs writes the frame, marks and stamps no page, and the
\* process will be ready.
FsEscribe ==
  /\ fs.paso = "recibir"
  /\ \E a \in pedidos_fs, x \in Valores :
       /\ a.op = "F_READ"
       /\ memoria_usuario' = [memoria_usuario EXCEPT ![a.marco] = x]
       /\ pedidos_fs' = pedidos_fs \ {a}
       /\ estado' = [estado EXCEPT ![a.pid] = "listo"]
  /\ UNCHANGED <<algoritmo_pags, tablaVars, marcos, usoVars, swapVars, repite, por_enviar, pedidos,
                 kernel, cpu, fs, caido>>

\* F_WRITE_FS: leer_memoria_fs copies the frame.
FsLee ==
  /\ fs.paso = "recibir"
  /\ \E a \in pedidos_fs : a.op = "F_WRITE" /\ fs' = a /\ pedidos_fs' = pedidos_fs \ {a}
  /\ UNCHANGED <<algoritmo_pags, tablaVars, marcoVars, usoVars, swapVars, estado, repite,
                 por_enviar, pedidos, kernel, cpu, caido>>

\* The rest of leer_memoria_fs; the process will be ready.
FsBusca  == Buscar(fs, fs') /\ UNCHANGED cpu
FsCuenta == Contar(fs, fs') /\ UNCHANGED cpu
FsSella  == Sellar(fs, fs') /\ estado' = [estado EXCEPT ![fs.pid] = "listo"] /\ UNCHANGED cpu

-----------------------------------------------------------------------------
(* manejo_conexion_kernel *)

\* recibir_operacion: the next message of the kernel, if it is a codigo.
Recibe(codigo) ==
  /\ kernel.paso = "recibir" /\ pedidos # <<>> /\ Head(pedidos).codigo = codigo
  /\ pedidos' = Tail(pedidos)

\* The thread goes on with the message it received.
Atender(paso) ==
  kernel' = [KernelLibre EXCEPT !.paso = paso, !.pid = Head(pedidos).pid, !.arg = Head(pedidos).arg]

\* INICIALIZAR_PROCESO: the list of processes has it before it has a table.
InicializarProceso ==
  /\ Recibe("INICIALIZAR_PROCESO")
  /\ procesos_totales' = Append(procesos_totales, Head(pedidos).pid)
  /\ Atender("crear_tabla")
  /\ UNCHANGED <<algoritmo_pags, cantidad_paginas, entradas_tabla, marcoVars, usoVars, swapVars,
                 procesoVars, cpu, fs, caido>>

\* inicializar_estructuras_memoria_nuevo_proceso.
CrearTabla ==
  /\ kernel.paso = "crear_tabla"
  /\ cantidad_paginas' = [cantidad_paginas EXCEPT ![kernel.pid] = PaginasNecesarias(kernel.arg)]
  /\ entradas_tabla' = [entradas_tabla EXCEPT ![kernel.pid] = [i \in Indices |-> EntradaNueva]]
  /\ kernel' = [kernel EXCEPT !.paso = "pedir_swap"]
  /\ UNCHANGED <<algoritmo_pags, procesos_totales, marcoVars, usoVars, swapVars, procesoVars,
                 pedidos, cpu, fs, caido>>

\* Mutant of LibreNumero: the search goes from 1 to bloques_swap.
LibreDesdeUno(i) ==
  CHOOSE b \in (1 .. NBloques) \ swap : Cardinality({c \in (1 .. NBloques) \ swap : c < b}) = i

\* lista_bloques_swap_reservados: the block obtener_primer_bloque_libre_swap finds after i
\* others were taken.
LibreNumero(i) ==
  CHOOSE b \in Bloques \ swap : Cardinality({c \in Bloques \ swap : c < b}) = i

\* INICIO_SWAP, and asignar_id_bloque_swap of the list that came back.  With no block left
\* filesystem writes swap[-1].
AsignarSwap ==
  /\ kernel.paso = "pedir_swap"
  /\ LET p == kernel.pid
         n == cantidad_paginas[p]
     IN IF n > Cardinality(Bloques \ swap)
          THEN caido' = "sin_swap" /\ UNCHANGED <<swap, entradas_tabla, kernel>>
          ELSE /\ swap' = swap \cup {LibreNumero(i) : i \in 0 .. n - 1}
               /\ entradas_tabla' = [entradas_tabla EXCEPT ![p] =
                    [i \in Indices |-> IF i < n THEN [@[i] EXCEPT !.bloque = LibreNumero(i)] ELSE @[i]]]
               /\ kernel' = KernelLibre
               /\ UNCHANGED caido
  /\ UNCHANGED <<algoritmo_pags, procesos_totales, cantidad_paginas, marcoVars, usoVars, bloques,
                 procesoVars, pedidos, cpu, fs>>

\* Mutant of FinalizarProceso: obtener_lista_id_bloque_swap forgets the last page.
FinalizarSinLaUltima ==
  /\ Recibe("FINALIZAR_PROCESO")
  /\ LET p == Head(pedidos).pid
     IN swap' = swap \ {Entrada(<<p, i>>).bloque : i \in 0 .. cantidad_paginas[p] - 2}
  /\ Atender("liberar_marcos")
  /\ UNCHANGED <<algoritmo_pags, tablaVars, marcoVars, usoVars, bloques, procesoVars, cpu, fs, caido>>

\* FINALIZAR_PROCESO: limpiar_swap, and filesystem answers SWAP_LIBERADA.
FinalizarProceso ==
  /\ Recibe("FINALIZAR_PROCESO")
  /\ LET p == Head(pedidos).pid
     IN swap' = swap \ {Entrada(<<p, i>>).bloque : i \in 0 .. cantidad_paginas[p] - 1}
  /\ Atender("liberar_marcos")
  /\ UNCHANGED <<algoritmo_pags, tablaVars, marcoVars, usoVars, bloques, procesoVars, cpu, fs, caido>>

\* Mutants of LiberarMarcos: one frame only; the process stays in procesos_totales.
LiberarUnMarco ==
  /\ kernel.paso = "liberar_marcos"
  /\ \E m \in Marcos :
       /\ marcos[m] = kernel.pid \/ kernel.pid \notin {marcos[n] : n \in Marcos}
       /\ marcos' = [marcos EXCEPT ![m] = IF @ = kernel.pid THEN Nada ELSE @]
  /\ procesos_totales' = RemoveFirst(procesos_totales, kernel.pid)
  /\ kernel' = [kernel EXCEPT !.paso = "limpiar_fifo"]
  /\ UNCHANGED <<algoritmo_pags, cantidad_paginas, entradas_tabla, memoria_usuario, usoVars, swapVars,
                 procesoVars, pedidos, cpu, fs, caido>>

LiberarSinQuitar ==
  /\ kernel.paso = "liberar_marcos"
  /\ marcos' = [m \in Marcos |-> IF marcos[m] = kernel.pid THEN Nada ELSE marcos[m]]
  /\ kernel' = [kernel EXCEPT !.paso = "limpiar_fifo"]
  /\ UNCHANGED <<algoritmo_pags, tablaVars, memoria_usuario, usoVars, swapVars, procesoVars, pedidos,
                 cpu, fs, caido>>

\* eliminar_proceso_memoria: liberar_marcos_proceso, and out of procesos_totales.
LiberarMarcos ==
  /\ kernel.paso = "liberar_marcos"
  /\ marcos' = [m \in Marcos |-> IF marcos[m] = kernel.pid THEN Nada ELSE marcos[m]]
  /\ procesos_totales' = RemoveFirst(procesos_totales, kernel.pid)
  /\ kernel' = [kernel EXCEPT !.paso = "limpiar_fifo"]
  /\ UNCHANGED <<algoritmo_pags, cantidad_paginas, entradas_tabla, memoria_usuario, usoVars, swapVars,
                 procesoVars, pedidos, cpu, fs, caido>>

\* Mutant of LimpiarFifo: the loop stops one page early.
LimpiarMenosUna ==
  /\ kernel.paso = "limpiar_fifo"
  /\ paginas_utilizadas' =
       SelectSeq(paginas_utilizadas,
                 LAMBDA v : v[1] # kernel.pid \/ v[2] = cantidad_paginas[kernel.pid] - 1)
  /\ kernel' = [kernel EXCEPT !.paso = "liberar_tabla"]
  /\ UNCHANGED <<algoritmo_pags, tablaVars, marcoVars, contador_lru, swapVars, procesoVars, pedidos,
                 cpu, fs, caido>>

\* The pages of a list that are not of p, in the order of the list.
SinPaginasDe(lista, p) ==
  LET sin[n \in 0 .. Len(lista)] ==
        IF n = 0 THEN <<>>
        ELSE IF lista[n][1] = p THEN sin[n - 1] ELSE Append(sin[n - 1], lista[n])
  IN  sin[Len(lista)]

\* Its pages out of paginas_utilizadas.
LimpiarFifo ==
  /\ kernel.paso = "limpiar_fifo"
  /\ paginas_utilizadas' = SinPaginasDe(paginas_utilizadas, kernel.pid)
  /\ kernel' = [kernel EXCEPT !.paso = "liberar_tabla"]
  /\ UNCHANGED <<algoritmo_pags, tablaVars, marcoVars, contador_lru, swapVars, procesoVars, pedidos,
                 cpu, fs, caido>>

\* The table is freed.  If one of its pages came back to paginas_utilizadas meanwhile, what
\* the list says from now on is undefined.
LiberarTabla ==
  /\ kernel.paso = "liberar_tabla"
  /\ cantidad_paginas' = [cantidad_paginas EXCEPT ![kernel.pid] = 0]
  /\ entradas_tabla' = [entradas_tabla EXCEPT ![kernel.pid] = [i \in Indices |-> EntradaNueva]]
  /\ kernel' = KernelLibre
  /\ caido' = IF \E v \in ToSet(paginas_utilizadas) : v[1] = kernel.pid THEN "fifo_colgada" ELSE caido
  /\ UNCHANGED <<algoritmo_pags, procesos_totales, marcoVars, usoVars, swapVars, procesoVars, pedidos,
                 cpu, fs>>

MarcosLibres == {m \in Marcos : marcos[m] = Nada}

\* The page v is given the frame m.
Ubicar(v, m) ==
  /\ marcos' = [marcos EXCEPT ![m] = v[1]]
  /\ entradas_tabla' = [entradas_tabla EXCEPT ![v[1]][v[2]] =
                          [@ EXCEPT !.marco = m, !.presencia = TRUE, !.modificado = FALSE]]

\* PAGE_FAULT_KERNEL with a free frame: asignar_marco_libre takes the first.
PageFaultConMarco ==
  /\ Recibe("PAGE_FAULT_KERNEL") /\ MarcosLibres # {}
  /\ Ubicar(<<Head(pedidos).pid, Head(pedidos).arg>>, Min(MarcosLibres))
  /\ Atender("cargar")
  /\ UNCHANGED <<algoritmo_pags, procesos_totales, cantidad_paginas, memoria_usuario, usoVars,
                 swapVars, procesoVars, cpu, fs, caido>>

\* PAGE_FAULT_KERNEL with none: a page has to be replaced.
PageFaultSinMarco ==
  /\ Recibe("PAGE_FAULT_KERNEL") /\ MarcosLibres = {}
  /\ Atender("elegir")
  /\ UNCHANGED <<algoritmo_pags, tablaVars, marcoVars, usoVars, swapVars, procesoVars, cpu, fs,
                 caido>>

\* v is before w in the walk of obtener_total_pags_en_memoria.
Antes(v, w) ==
  \/ v[1] = w[1] /\ v[2] < w[2]
  \/ \E i, j \in DOMAIN procesos_totales :
       i < j /\ procesos_totales[i] = v[1] /\ procesos_totales[j] = w[1]

\* Mutant of MenosUsadas: menor_tiempo_lru starts at 0.
MenosUsadasDesdeCero == {v \in Presentes : Entrada(v).lru < 0}

\* obtener_entrada_menor_tiempo_lru: the first present page with the least stamp, if one is
\* below MAX_LRU.
MenosUsadas ==
  {v \in Presentes :
     /\ Entrada(v).lru < MAX_LRU
     /\ \A w \in Presentes \ {v} :
          Entrada(v).lru < Entrada(w).lru \/ (Entrada(v).lru = Entrada(w).lru /\ Antes(v, w))}

\* The victim v, and its frame.
ConVictima(v) == [kernel EXCEPT !.paso = "probar", !.victima = v, !.marco = Entrada(v).marco]

\* paginaAReemplazar: LRU.
ElegirLru ==
  /\ kernel.paso = "elegir" /\ algoritmo_pags = "LRU"
  /\ \E v \in MenosUsadas : kernel' = ConVictima(v)
  /\ UNCHANGED <<algoritmo_pags, tablaVars, marcoVars, usoVars, swapVars, procesoVars, pedidos, cpu,
                 fs, caido>>

\* paginaAReemplazar: FIFO takes the first page of the list, and it is in memory.
ElegirFifo ==
  /\ kernel.paso = "elegir" /\ algoritmo_pags = "FIFO" /\ paginas_utilizadas # <<>>
  /\ Entrada(Head(paginas_utilizadas)).marco # Nada
  /\ paginas_utilizadas' = Tail(paginas_utilizadas)
  /\ kernel' = ConVictima(Head(paginas_utilizadas))
  /\ UNCHANGED <<algoritmo_pags, tablaVars, marcoVars, contador_lru, swapVars, procesoVars, pedidos,
                 cpu, fs, caido>>

\* paginaAReemplazar finds nobody, or (FIFO) a page that is in no frame: a null pointer is
\* followed.
ElegirNadie ==
  /\ kernel.paso = "elegir"
  /\ \/ algoritmo_pags = "LRU" /\ MenosUsadas = {}
     \/ algoritmo_pags = "FIFO" /\ paginas_utilizadas = <<>>
     \/ /\ algoritmo_pags = "FIFO" /\ paginas_utilizadas # <<>>
        /\ Entrada(Head(paginas_utilizadas)).marco = Nada
  /\ caido' = "victima_nula"
  /\ UNCHANGED <<algoritmo_pags, tablaVars, marcoVars, usoVars, swapVars, procesoVars, pedidos,
                 kernel, cpu, fs>>

\* The modified bit of the victim is tested.
ProbarModificado ==
  /\ kernel.paso = "probar"
  /\ kernel' = [kernel EXCEPT !.paso = IF Entrada(kernel.victima).modificado
                                         THEN "swap_out" ELSE "desalojar"]
  /\ UNCHANGED <<algoritmo_pags, tablaVars, marcoVars, usoVars, swapVars, procesoVars, pedidos, cpu,
                 fs, caido>>

\* pedido_escritura_swap, and filesystem answers ESCRITURA_BLOQUE_OK.
SwapOut ==
  /\ kernel.paso = "swap_out"
  /\ bloques' = [bloques EXCEPT ![Entrada(kernel.victima).bloque] = memoria_usuario[kernel.marco]]
  /\ kernel' = [kernel EXCEPT !.paso = "desalojar"]
  /\ UNCHANGED <<algoritmo_pags, tablaVars, marcoVars, usoVars, swap, procesoVars, pedidos, cpu, fs,
                 caido>>

\* liberar_presencia_pagina of the victim; it keeps its LRU stamp.
Desalojar ==
  /\ kernel.paso = "desalojar"
  /\ LET v == kernel.victima
     IN entradas_tabla' = [entradas_tabla EXCEPT ![v[1]][v[2]] =
                             [@ EXCEPT !.marco = Nada, !.presencia = FALSE, !.modificado = FALSE]]
  /\ kernel' = [kernel EXCEPT !.paso = "ocupar", !.victima = NoPagina]
  /\ UNCHANGED <<algoritmo_pags, procesos_totales, cantidad_paginas, marcoVars, usoVars, swapVars,
                 procesoVars, pedidos, cpu, fs, caido>>

\* The frame goes to the page that faulted.
Ocupar ==
  /\ kernel.paso = "ocupar"
  /\ Ubicar(<<kernel.pid, kernel.arg>>, kernel.marco)
  /\ kernel' = [kernel EXCEPT !.paso = "cargar"]
  /\ UNCHANGED <<algoritmo_pags, procesos_totales, cantidad_paginas, memoria_usuario, usoVars,
                 swapVars, procesoVars, pedidos, cpu, fs, caido>>

\* Mutant of Cargar: without PAGINA_CARGADA.
CargarSinAviso ==
  /\ kernel.paso = "cargar"
  /\ LET e == Entrada(<<kernel.pid, kernel.arg>>)
     IN \E x \in {bloques[e.bloque], Basura} :
          memoria_usuario' = [memoria_usuario EXCEPT ![e.marco] = x]
  /\ kernel' = KernelLibre
  /\ UNCHANGED <<algoritmo_pags, tablaVars, marcos, usoVars, swapVars, procesoVars, pedidos, cpu,
                 fs, caido>>

\* pedido_lectura_swap, cargar_pagina_swap_en_memoria and PAGINA_CARGADA.  leer_bloque_swap
\* frees the buffer it returns: what is sent is the block or whatever is there by then.
Cargar ==
  /\ kernel.paso = "cargar"
  /\ LET e == Entrada(<<kernel.pid, kernel.arg>>)
     IN \E x \in {bloques[e.bloque], Basura} :
          memoria_usuario' = [memoria_usuario EXCEPT ![e.marco] = x]
  /\ estado' = [estado EXCEPT ![kernel.pid] = "listo"]
  /\ kernel' = KernelLibre
  /\ UNCHANGED <<algoritmo_pags, tablaVars, marcos, usoVars, swapVars, repite, por_enviar,
                 pedidos_fs, pedidos, cpu, fs, caido>>

-----------------------------------------------------------------------------
(* The specification *)

HiloCpu == CpuCopia \/ CpuBusca \/ CpuCuenta \/ CpuSella

HiloKernel ==
  \/ InicializarProceso \/ CrearTabla \/ AsignarSwap
  \/ FinalizarProceso \/ LiberarMarcos \/ LimpiarFifo \/ LiberarTabla
  \/ PageFaultConMarco \/ PageFaultSinMarco \/ ElegirLru \/ ElegirFifo \/ ElegirNadie
  \/ ProbarModificado \/ SwapOut \/ Desalojar \/ Ocupar \/ Cargar

HiloFs == FsEscribe \/ FsLee \/ FsBusca \/ FsCuenta \/ FsSella

Programas ==
  \/ IniciarProceso \/ CpuFetch \/ CpuExit \/ CpuFalla \/ CpuSinTabla \/ CpuMov \/ CpuArchivo
  \/ \E p \in Procs : KernelEnvia(p)

Next == caido = "no" /\ (Programas \/ HiloCpu \/ HiloKernel \/ HiloFs)

Spec == Init /\ [][Next]_vars

\* The kernel's thread of memoria is scheduled, and so are the threads of the kernel that
\* have a message to send.
Justicia ==
  /\ WF_vars(caido = "no" /\ HiloKernel)
  /\ \A p \in Procs : WF_vars(caido = "no" /\ KernelEnvia(p))

FairSpec == Spec /\ Justicia

-----------------------------------------------------------------------------
(* Properties *)

\* What each variable holds.
TypeOK ==
  /\ algoritmo_pags \in {"FIFO", "LRU"}
  /\ procesos_totales \in Seq(Procs) /\ cantidad_paginas \in [Procs -> 0 .. MaxPaginas]
  /\ entradas_tabla \in
       [Procs -> [Indices -> [marco : Marcos \cup {Nada}, presencia : BOOLEAN, modificado : BOOLEAN,
                              bloque : Bloques \cup {0}, lru : Nat]]]
  /\ marcos \in [Marcos -> Procs \cup {Nada}] /\ memoria_usuario \in [Marcos -> Palabras]
  /\ paginas_utilizadas \in Seq(Paginas) /\ contador_lru \in Nat
  /\ swap \subseteq Bloques /\ bloques \in [Bloques -> Palabras]
  /\ estado \in [Procs -> {"no", "listo", "bloqueado", "fin"}]
  /\ repite \in [Procs -> Indices \cup {Nada}]
  /\ \A m \in por_enviar \cup ToSet(pedidos) : m.pid \in Procs
  /\ kernel.marco \in Marcos \cup {Nada} /\ kernel.victima \in Paginas \cup {NoPagina}
  /\ \A a \in {cpu, fs} : a.marco \in Marcos \cup {Nada} /\ a.pagina \in Paginas \cup {NoPagina}
  /\ \A a \in pedidos_fs : a.pid \in Procs /\ a.marco \in Marcos
  /\ caido \in {"no", "sin_tabla", "sin_swap", "pagina_nula", "victima_nula", "entrada_liberada",
                "fifo_colgada"}

\* No frame has two pages: obtener_entrada_con_marco finds one page or none, whatever the
\* order of faults, replacements and exits.
UnaPaginaPorMarco ==
  \A v, w \in Presentes : Entrada(v).marco = Entrada(w).marco => v = w

\* The table of frames and the page tables agree: a page in memory has a frame of its
\* process and shares it with none, and a frame that is not free has a page, so an exit gives
\* back exactly the frames of its process.  Between the eviction and the new owner the frame
\* is in transit.
MarcosCoherentes ==
  /\ UnaPaginaPorMarco
  /\ \A v \in Presentes : marcos[Entrada(v).marco] = v[1]
  /\ \A m \in Marcos :
       marcos[m] # Nada => PaginasDeMarco(m) # {} \/ (kernel.paso = "ocupar" /\ kernel.marco = m)

\* The pages that own a swap block: not those of a process whose start or end is under way.
ConBloque ==
  {v \in Paginas :
     /\ Existe(v[1]) /\ EnTabla(v)
     /\ ~(kernel.pid = v[1] /\ kernel.paso \in {"pedir_swap", "liberar_marcos"})}

\* Every page has a swap block of its own, and filesystem's bitmap has the blocks of the
\* living processes and no other: no block is lost or shared by starts and exits.
SwapExclusivo ==
  /\ swap = {Entrada(v).bloque : v \in ConBloque}
  /\ Cardinality(swap) = Cardinality(ConBloque)

\* A thread has written the frame m and not yet marked its page, or m is being loaded.
Pendiente(m) ==
  \/ cpu.marco = m /\ cpu.op = "MOV_OUT" /\ cpu.paso \in {"buscar", "contar"}
  \/ kernel.paso = "cargar" /\ Entrada(<<kernel.pid, kernel.arg>>).marco = m

\* A page in memory that differs from its swap block is marked, or about to be: otherwise
\* its replacement would lose what was written (the comment in leer_memoria_cpu and
\* escribir_memoria_fs asks the same of an F_READ).
BitFiel ==
  \A v \in Presentes :
    LET e == Entrada(v)
    IN memoria_usuario[e.marco] \notin {bloques[e.bloque], Basura} =>
         e.modificado \/ Pendiente(e.marco)

\* The FIFO list has no page twice, and none of a process that is gone: LimpiarFifo ran
\* after the last use of its pages.
FifoSinColgados ==
  /\ IsInjective(paginas_utilizadas)
  /\ \A v \in ToSet(paginas_utilizadas) : EnTabla(v)

\* While only one process was ever started the replacement works: it finds a victim with a
\* frame, and nobody takes the frame of an access under way.  Only MAX_LRU accesses spoil it.
UnicoSeguro ==
  caido \in {"pagina_nula", "victima_nula", "entrada_liberada", "fifo_colgada"} =>
    \/ Cardinality({p \in Procs : estado[p] # "no"}) > 1
    \/ algoritmo_pags = "LRU" /\ contador_lru >= MAX_LRU

\* A page fault is answered, so its process is ready again, or memoria died.
PfRespondido ==
  \A p \in Procs :
    (estado[p] = "bloqueado" /\ repite[p] # Nada) ~> (estado[p] = "listo" \/ caido # "no")

\* Once every process ended memoria and filesystem have back all they had: frames, swap
\* blocks, tables and the FIFO list.
TodoDevuelto ==
  (\A p \in Procs : estado[p] = "fin") ~>
    \/ caido # "no"
    \/ /\ procesos_totales = <<>> /\ paginas_utilizadas = <<>> /\ swap = {}
       /\ \A m \in Marcos : marcos[m] = Nada

=============================================================================
