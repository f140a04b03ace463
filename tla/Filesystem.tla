------------------------------ MODULE Filesystem ------------------------------
(***************************************************************************)
(* The filesystem process: filesystem/src/filesystem.c without its swap    *)
(* half (Memoria has that one).                                            *)
(*                                                                         *)
(* comunicacion_kernel starts a detached thread for every request of the   *)
(* kernel and nothing is locked: hilo[p] is the thread that serves the     *)
(* request of process p.  All of them share the list of FCBs, the FAT file, *)
(* the blocks file and one socket to memoria, whose two directions are the *)
(* queues pedidos_mem and respuestas_mem.  An answer of memoria is two     *)
(* tokens, the code and the buffer, because the code receives them with    *)
(* two calls.                                                              *)
(*                                                                         *)
(* Abstracted: a size is a number of blocks, the contents of a block one   *)
(* word.  Reading past the end of a file leaves the variable uninitialised: *)
(* it may then be any FAT value.  fuera is a history variable: the ways in *)
(* which the use has left what the code can serve.                         *)
(***************************************************************************)
EXTENDS Integers, SequencesExt

CONSTANTS
  Procesos,     \* the processes of the kernel
  Archivos,     \* the names their programs use
  TamanioFat,   \* tamanio_fat = CANT_BLOQUES_TOTAL - CANT_BLOQUES_SWAP
  Usa,          \* the files that the program of each process names
  Tamanios,     \* the sizes that an F_TRUNCATE gives, in blocks
  MaxPedidos,   \* bound: requests of all the processes, but for F_CREATE
  MaxAvisos,    \* bound: no more requests once the use left the contract in these many ways
  Basura,       \* what a block holds when nobody has written it
  NoExiste      \* stands for a file that does not exist, in the refinement

Nadie     == "nadie"
Posicion  == {-1} \cup 0 .. TamanioFat - 1
SinLeer   == -2                       \* past the end of the FAT file
SinPedido == [op |-> "ninguna"]
Palabras  == Procesos \cup {Basura}   \* a process writes its own word
MaxBloques == Max(Tamanios)
Mitad(n)  == (n + 1) \div 2

ASSUME FilesystemSupuestos ==
  /\ TamanioFat \in Nat \ {0, 1}
  /\ Tamanios \subseteq Nat /\ Tamanios # {} /\ IsFiniteSet(Tamanios)
  /\ MaxPedidos \in Nat /\ MaxAvisos \in Nat
  /\ Usa \in [Procesos -> SUBSET Archivos]
  /\ Basura \notin Procesos /\ Nadie \notin Procesos
  /\ NoExiste \notin [largo : Nat, bloques : Seq(Palabras)]

VARIABLES
  lista_fcb,       \* the FCBs; the id of an FCB is its place in the list
  restos,          \* whether a previous run left FCB files in PATH_FCB
  fat,             \* the FAT file, by position; -1 lies 16 GB further on
  bloques,         \* the blocks file, by block
  hilo,            \* the thread that serves each process's request
  pedido,          \* the request of each process, still unanswered
  hecho,           \* what the request gave when it took effect, or "no"
  kernel,          \* exec_pcb inside kf_open: whom it opens what for
  abiertos,        \* pairs process, file that kf_open completed
  pagina,          \* the word in the buffer of each process, in memoria
  pedidos_mem, respuestas_mem,      \* socket_memoria_op
  pedidos,         \* how many requests there have been
  fuera,           \* how the use has left the contract
  caido            \* how the filesystem process died, or "no"

vars ==
  <<lista_fcb, restos, fat, bloques, hilo, pedido, hecho, kernel, abiertos, pagina,
    pedidos_mem, respuestas_mem, pedidos, fuera, caido>>
discoVars  == <<lista_fcb, restos, fat, bloques>>
kernelVars == <<pedido, kernel, abiertos, pedidos>>
memoriaVars == <<pagina, pedidos_mem, respuestas_mem>>

-----------------------------------------------------------------------------
(* The FCB list and the FAT *)

\* conseguir_id_fcb: the first FCB with that name, 0 if there is none.
conseguir_id_fcb(f) ==
  LET con == {k \in DOMAIN lista_fcb : lista_fcb[k].nombre = f} IN
  IF con = {} THEN 0 ELSE Min(con)

\* valor_fcb with BLOQUE_INICIAL: 0 for the FCB that does not exist.
BloqueInicialDe(k) == IF k = 0 THEN 0 ELSE lista_fcb[k].ini

\* inicializar_fcb
FcbNuevo(f) == [nombre |-> f, tam |-> 0, ini |-> 0]

\* posicion_en_fat: one value, or any past the end of the file.
posicion_en_fat(b) == IF fat[b] = SinLeer THEN Posicion ELSE {fat[b]}

\* modificar_en_fat: a write at -1 stretches the file with zeros.
modificar_en_fat(b, v) ==
  fat' = [k \in Posicion |->
    IF k = b THEN v ELSE IF b = -1 /\ fat[k] = SinLeer THEN 0 ELSE fat[k]]

\* The accesses that leave the file, and the search that finds nothing inside it.
FueraDeLaFat(b)  == IF fat[b] = SinLeer THEN {"fin_fat"} ELSE {}
Libres           == {i \in 1 .. TamanioFat - 1 : fat[i] = 0}
DiscoLleno       == Libres = {}

\* Mutant of obtener_primer_bloque_libre: the scan goes down from the last entry.
UltimoBloqueLibre ==
  {IF v = 0 THEN TamanioFat - 1 ELSE Max(Libres \cup {-1}) : v \in posicion_en_fat(TamanioFat - 1)}

\* obtener_primer_bloque_libre: the scan meets the entry past the end last.
obtener_primer_bloque_libre ==
  IF ~DiscoLleno THEN {Min(Libres)}
  ELSE {IF v = 0 THEN TamanioFat - 1 ELSE -1 : v \in posicion_en_fat(TamanioFat - 1)}

AvisoDiscoLleno == IF DiscoLleno THEN {"fin_fat"} ELSE {}

-----------------------------------------------------------------------------
(* What the kernel asks, and the contract *)

EnCurso(ops) == {p \in Procesos : pedido[p].op \in ops}

\* The ways a request leaves the contract: two threads on the socket to memoria,
\* two that take free blocks, a second F_TRUNCATE of a file, the half of a file
\* that is not its own.  (Two threads on one file do one of these,
\* unless the F_TRUNCATE changes nothing.)
Avisos(p, op, f, n) ==
  LET otros  == Procesos \ {p}
      fcb    == lista_fcb[conseguir_id_fcb(f)]
      mem    == {"F_WRITE", "F_READ"}
  IN (IF op \in mem /\ EnCurso(mem) \cap otros # {} THEN {"memoria"} ELSE {})
  \cup (IF op = "F_TRUNCATE" /\ EnCurso({op}) \cap otros # {} THEN {"truncados"} ELSE {})
  \cup (IF op = "F_TRUNCATE" /\ fcb.ini # 0 /\ n \notin {0, fcb.tam}
        THEN {"retruncado"} ELSE {})
  \cup (IF op \in mem /\ n >= Mitad(fcb.tam) THEN {"segunda_mitad"} ELSE {})

HiloLibre == [paso |-> "ninguno", bloque |-> 0, cuenta |-> 0, valor |-> Basura]
HiloEn(paso) == [HiloLibre EXCEPT !.paso = paso]

\* comunicacion_kernel receives a request and starts its thread.
Llega(p, op, f, n, paso) ==
  /\ pedido[p] = SinPedido /\ caido = "no"
  /\ pedido' = [pedido EXCEPT ![p] = [op |-> op, archivo |-> f, arg |-> n]]
  /\ hilo' = [hilo EXCEPT ![p] = HiloEn(paso)]
  /\ UNCHANGED <<discoVars, hecho, abiertos, pedidos_mem, respuestas_mem, caido>>

\* Mutant of PuedePedir: the other processes go on while one is inside kf_open.
PuedePedirSiempre == pedidos < MaxPedidos /\ Cardinality(fuera) < MaxAvisos

PuedePedir ==
  kernel.proceso = Nadie /\ pedidos < MaxPedidos /\ Cardinality(fuera) < MaxAvisos

\* kf_open: exec_pcb waits for the answer, so no process asks for anything meanwhile.
PedirAbrir(p, f) ==
  /\ PuedePedir /\ f \in Usa[p]
  /\ Llega(p, "F_OPEN", f, 0, "buscar")
  /\ kernel' = [proceso |-> p, archivo |-> f, falta |-> FALSE]
  /\ pedidos' = pedidos + 1
  /\ UNCHANGED <<pagina, fuera>>

\* recibir_op_FS answers FILE_DOESNT_EXISTS with F_CREATE.
PedirCrear(p) ==
  /\ kernel.proceso = p /\ kernel.falta
  /\ Llega(p, "F_CREATE", kernel.archivo, 0, "crear")
  /\ kernel' = [kernel EXCEPT !.falta = FALSE]
  /\ UNCHANGED <<pagina, pedidos, fuera>>

\* kf_truncate, kf_write and kf_read, of a file the process opened; a program
\* only reads and writes inside the size it gave the file.
Pedir(p, op, f, n) ==
  /\ PuedePedir /\ <<p, f>> \in abiertos
  /\ op # "F_TRUNCATE" => n < lista_fcb[conseguir_id_fcb(f)].tam
  /\ Llega(p, op, f, n, CASE op = "F_TRUNCATE" -> "truncar"
                          [] op = "F_WRITE"    -> "pedir"
                          [] op = "F_READ"     -> "ubicar")
  /\ fuera' = fuera \cup Avisos(p, op, f, n)
  /\ pagina' = IF op = "F_WRITE" THEN [pagina EXCEPT ![p] = p] ELSE pagina
  /\ pedidos' = pedidos + 1
  /\ UNCHANGED kernel

\* The thread's answer, and what recibir_op_FS does with it.
Responder(p) ==
  /\ hilo[p].paso = "responder" /\ caido = "no"
  /\ pedido' = [pedido EXCEPT ![p] = SinPedido]
  /\ hecho' = [hecho EXCEPT ![p] = "no"]
  /\ hilo' = [hilo EXCEPT ![p] = HiloLibre]
  /\ kernel' = IF pedido[p].op \notin {"F_OPEN", "F_CREATE"} \/ hecho[p] = "error" THEN kernel
               ELSE IF hecho[p] = "existe" THEN [kernel EXCEPT !.proceso = Nadie]
               ELSE [kernel EXCEPT !.falta = TRUE]
  /\ abiertos' = IF kernel'.proceso # kernel.proceso
                 THEN abiertos \cup {<<p, pedido[p].archivo>>} ELSE abiertos
  /\ UNCHANGED <<discoVars, memoriaVars, pedidos, fuera, caido>>

-----------------------------------------------------------------------------
(* The threads.  A thread moves alone, and stops with the process. *)

En(p, paso) == hilo[p].paso = paso /\ caido = "no" /\ UNCHANGED kernelVars
Ir(p, h)    == hilo' = [hilo EXCEPT ![p] = h]
Paso(p, paso) == Ir(p, [hilo[p] EXCEPT !.paso = paso])
Hace(p, resultado) == hecho' = [hecho EXCEPT ![p] = resultado]
Fcb(p)      == conseguir_id_fcb(pedido[p].archivo)

\* hilo_f_open.  An FCB file left by a previous run is text that
\* inicializar_fcb_list read as a struct: the first strcmp follows it as a pointer.
Abrir(p) ==
  /\ En(p, "buscar")
  /\ \/ /\ restos
        /\ caido' = "fcb_basura"
        /\ UNCHANGED <<hilo, hecho>>
     \/ /\ ~restos
        /\ Hace(p, IF Fcb(p) = 0 THEN "no existe" ELSE "existe")
        /\ Paso(p, "responder")
        /\ UNCHANGED caido
  /\ UNCHANGED <<discoVars, memoriaVars, fuera>>

\* hilo_f_create, crear_fcb.  buscar_fcb only finds an FCB whose first block
\* has a FAT entry: one that was never truncated does not stop a second one.
Crear(p) ==
  /\ En(p, "crear")
  /\ LET k == Fcb(p) IN
     \E v \in posicion_en_fat(BloqueInicialDe(k)) :
       IF k # 0 /\ v # 0
       THEN Hace(p, "error") /\ UNCHANGED lista_fcb
       ELSE /\ lista_fcb' = Append(lista_fcb, FcbNuevo(pedido[p].archivo))
            /\ Hace(p, "existe")
  /\ Paso(p, "responder")
  /\ UNCHANGED <<restos, fat, bloques, memoriaVars, fuera, caido>>

\* Mutant of Truncar: any other size goes to asignar_bloques.
TruncarAsigna(p) ==
  /\ En(p, "truncar")
  /\ LET fcb == lista_fcb[Fcb(p)]  n == pedido[p].arg IN
     Ir(p, IF n # fcb.tam
           THEN [hilo[p] EXCEPT !.paso = IF fcb.ini = 0 THEN "inicial" ELSE "libre",
                                !.bloque = fcb.ini, !.cuenta = n - fcb.tam]
           ELSE [hilo[p] EXCEPT !.paso = "fijar"])
  /\ UNCHANGED <<discoVars, memoriaVars, hecho, fuera, caido>>

\* truncar_fcb compares the sizes.  asignar_bloques starts at the first block even
\* when the file has others, and looks for one when it has none; desasignar_bloques
\* frees from the front, as many blocks as the new size has.
Truncar(p) ==
  /\ En(p, "truncar")
  /\ LET fcb == lista_fcb[Fcb(p)]  n == pedido[p].arg IN
     Ir(p, IF n > fcb.tam
           THEN [hilo[p] EXCEPT !.paso = IF fcb.ini = 0 THEN "inicial" ELSE "libre",
                                !.bloque = fcb.ini, !.cuenta = n - fcb.tam]
           ELSE IF n < fcb.tam /\ n > 0 /\ fcb.ini # -1
           THEN [hilo[p] EXCEPT !.paso = "quitar", !.cuenta = n]
           ELSE [hilo[p] EXCEPT !.paso = "fijar"])
  /\ UNCHANGED <<discoVars, memoriaVars, hecho, fuera, caido>>

BloqueInicial(p) ==
  /\ En(p, "inicial")
  /\ \E b \in obtener_primer_bloque_libre :
       /\ lista_fcb' = [lista_fcb EXCEPT ![Fcb(p)].ini = b]
       /\ Ir(p, [hilo[p] EXCEPT !.paso = "libre", !.bloque = b])
  /\ fuera' = fuera \cup AvisoDiscoLleno
  /\ UNCHANGED <<restos, fat, bloques, memoriaVars, hecho, caido>>

\* One turn of the loop of asignar_bloques: look for a free block, write it in the
\* entry of the current one, read that entry back.  The current block's own entry is
\* still free in the first turn, so the block it finds is itself.
BuscarLibre(p) ==
  /\ En(p, "libre")
  /\ \E b \in obtener_primer_bloque_libre :
       Ir(p, [hilo[p] EXCEPT !.paso = "anotar", !.valor = b])
  /\ fuera' = fuera \cup AvisoDiscoLleno
  /\ UNCHANGED <<discoVars, memoriaVars, hecho, caido>>

Anotar(p) ==
  /\ En(p, "anotar")
  /\ modificar_en_fat(hilo[p].bloque, hilo[p].valor)
  /\ Paso(p, "seguir")
  /\ fuera' = fuera \cup FueraDeLaFat(hilo[p].bloque)
  /\ UNCHANGED <<lista_fcb, restos, bloques, memoriaVars, hecho, caido>>

\* Mutant of Seguir: the loop of asignar_bloques stops one turn early.
SeguirUnoMenos(p) ==
  /\ En(p, "seguir")
  /\ \E b \in posicion_en_fat(hilo[p].bloque) :
       Ir(p, [paso   |-> IF hilo[p].cuenta <= 2 \/ b = 0 THEN "fijar" ELSE "libre",
              bloque |-> b, cuenta |-> hilo[p].cuenta - 1, valor |-> Basura])
  /\ UNCHANGED <<discoVars, memoriaVars, hecho, fuera, caido>>

Seguir(p) ==
  /\ En(p, "seguir")
  /\ \E b \in posicion_en_fat(hilo[p].bloque) :
       Ir(p, [paso   |-> IF hilo[p].cuenta = 1 \/ b = 0 THEN "fijar" ELSE "libre",
              bloque |-> b, cuenta |-> hilo[p].cuenta - 1, valor |-> Basura])
  /\ UNCHANGED <<discoVars, memoriaVars, hecho, fuera, caido>>

\* One turn of the loop of desasignar_bloques.
Quitar(p) ==
  /\ En(p, "quitar")
  /\ LET ini == lista_fcb[Fcb(p)].ini IN
       /\ \E sig \in posicion_en_fat(ini) :
            /\ lista_fcb' = [lista_fcb EXCEPT ![Fcb(p)].ini = sig]
            /\ Ir(p, [hilo[p] EXCEPT !.cuenta = @ - 1,
                        !.paso = IF hilo[p].cuenta = 1 \/ sig = -1 THEN "fijar" ELSE @])
       /\ modificar_en_fat(ini, -1)
       /\ fuera' = fuera \cup FueraDeLaFat(ini)
  /\ UNCHANGED <<restos, bloques, memoriaVars, hecho, caido>>

\* The end of truncar_fcb: the size changes last.
Fijar(p) ==
  /\ En(p, "fijar")
  /\ lista_fcb' = [lista_fcb EXCEPT ![Fcb(p)].tam = pedido[p].arg]
  /\ Hace(p, "existe") /\ Paso(p, "responder")
  /\ UNCHANGED <<restos, fat, bloques, memoriaVars, fuera, caido>>

\* realizar_f_write asks memoria for the page before it looks at the file.
PedirMemoria(p) ==
  /\ En(p, "pedir")
  /\ pedidos_mem' = Append(pedidos_mem, [op |-> "F_WRITE", proceso |-> p, dato |-> Basura])
  /\ Paso(p, "codigo")
  /\ UNCHANGED <<discoVars, pagina, respuestas_mem, hecho, fuera, caido>>

\* recibir_operacion on the socket to memoria, by either kind of thread: it takes what
\* comes.  A buffer taken for a code leaves the stream unreadable; a code of the other
\* kind makes the thread skip the buffer, and still answer that it succeeded.
RecibirCodigo(p) ==
  /\ En(p, "codigo") /\ respuestas_mem # <<>>
  /\ respuestas_mem' = Tail(respuestas_mem)
  /\ LET t == Head(respuestas_mem) IN
       \/ t.tipo = "buffer" /\ caido' = "corrido" /\ UNCHANGED <<hilo, hecho>>
       \/ /\ t.tipo = "codigo" /\ UNCHANGED caido
          /\ IF t.valor = pedido[p].op THEN Paso(p, "buffer") /\ UNCHANGED hecho
             ELSE Paso(p, "responder") /\ Hace(p, "existe")
  /\ UNCHANGED <<discoVars, pagina, pedidos_mem, fuera>>

\* Mutant of RecibirBuffer: realizar_f_read does not receive the int.
RecibirBufferOlvida(p) ==
  /\ En(p, "buffer") /\ respuestas_mem # <<>>
  /\ respuestas_mem' = IF pedido[p].op = "F_WRITE" THEN Tail(respuestas_mem) ELSE respuestas_mem
  /\ Ir(p, [hilo[p] EXCEPT !.valor = Head(respuestas_mem).valor,
              !.paso = IF pedido[p].op = "F_WRITE" THEN "ubicar" ELSE "responder"])
  /\ UNCHANGED <<discoVars, pagina, pedidos_mem, hecho, fuera, caido>>

\* recibir_buffer of an F_WRITE, recibir_int of an F_READ.
RecibirBuffer(p) ==
  /\ En(p, "buffer") /\ respuestas_mem # <<>>
  /\ respuestas_mem' = Tail(respuestas_mem)
  /\ LET t == Head(respuestas_mem) IN
       \/ t.tipo = "codigo" /\ caido' = "corrido" /\ UNCHANGED hilo
       \/ /\ t.tipo = "buffer" /\ UNCHANGED caido
          /\ Ir(p, [hilo[p] EXCEPT !.valor = t.valor,
                      !.paso = IF pedido[p].op = "F_WRITE" THEN "ubicar" ELSE "responder"])
  /\ UNCHANGED <<discoVars, pagina, pedidos_mem, hecho, fuera>>

\* Mutant of Ubicar: the walk takes one step less.
UbicarAntes(p) ==
  /\ En(p, "ubicar")
  /\ Ir(p, [hilo[p] EXCEPT !.paso = "caminar", !.cuenta = IF pedido[p].arg = 0 THEN 0 ELSE pedido[p].arg - 1,
                           !.bloque = lista_fcb[Fcb(p)].ini])
  /\ UNCHANGED <<discoVars, memoriaVars, hecho, fuera, caido>>

\* The walk of realizar_f_write and realizar_f_read along the FAT.
Ubicar(p) ==
  /\ En(p, "ubicar")
  /\ Ir(p, [hilo[p] EXCEPT !.paso = "caminar", !.cuenta = pedido[p].arg,
                           !.bloque = lista_fcb[Fcb(p)].ini])
  /\ UNCHANGED <<discoVars, memoriaVars, hecho, fuera, caido>>

Caminar(p) ==
  /\ En(p, "caminar") /\ hilo[p].cuenta > 0
  /\ \E b \in posicion_en_fat(hilo[p].bloque) :
       Ir(p, [hilo[p] EXCEPT !.bloque = b, !.cuenta = @ - 1])
  /\ fuera' = fuera \cup FueraDeLaFat(hilo[p].bloque)
  /\ UNCHANGED <<discoVars, memoriaVars, hecho, caido>>

\* escribir_bloque
Escribir(p) ==
  /\ En(p, "caminar") /\ hilo[p].cuenta = 0 /\ pedido[p].op = "F_WRITE"
  /\ bloques' = [bloques EXCEPT ![hilo[p].bloque] = hilo[p].valor]
  /\ Hace(p, "existe") /\ Paso(p, "responder")
  /\ UNCHANGED <<lista_fcb, restos, fat, memoriaVars, fuera, caido>>

leer_bloque(b) == bloques[b]

\* The packet with the block for memoria.
Leer(p) ==
  /\ En(p, "caminar") /\ hilo[p].cuenta = 0 /\ pedido[p].op = "F_READ"
  /\ pedidos_mem' = Append(pedidos_mem,
       [op |-> "F_READ", proceso |-> p, dato |-> leer_bloque(hilo[p].bloque)])
  /\ Paso(p, "codigo")
  /\ UNCHANGED <<discoVars, pagina, respuestas_mem, hecho, fuera, caido>>

-----------------------------------------------------------------------------
(* The other ends *)

\* Mutant of Servir: the page of an F_READ is written and not answered.
ServirSinResponder ==
  /\ pedidos_mem # <<>> /\ caido = "no"
  /\ pedidos_mem' = Tail(pedidos_mem)
  /\ LET m == Head(pedidos_mem)
         respuesta(v) == <<[tipo |-> "codigo", valor |-> m.op], [tipo |-> "buffer", valor |-> v]>>
     IN \/ /\ m.op = "F_WRITE"
           /\ respuestas_mem' = respuestas_mem \o respuesta(pagina[m.proceso])
           /\ UNCHANGED <<pagina, hecho>>
        \/ /\ m.op = "F_READ"
           /\ pagina' = [pagina EXCEPT ![m.proceso] = m.dato]
           /\ hecho' = [hecho EXCEPT ![m.proceso] = "existe"]
           /\ UNCHANGED respuestas_mem
  /\ UNCHANGED <<discoVars, kernelVars, hilo, fuera, caido>>

\* manejo_conexion_filesystem_ops in memoria: one request at a time.
Servir ==
  /\ pedidos_mem # <<>> /\ caido = "no"
  /\ pedidos_mem' = Tail(pedidos_mem)
  /\ LET m == Head(pedidos_mem)
         respuesta(v) == <<[tipo |-> "codigo", valor |-> m.op], [tipo |-> "buffer", valor |-> v]>>
     IN \/ /\ m.op = "F_WRITE"
           /\ respuestas_mem' = respuestas_mem \o respuesta(pagina[m.proceso])
           /\ UNCHANGED <<pagina, hecho>>
        \/ /\ m.op = "F_READ"
           /\ pagina' = [pagina EXCEPT ![m.proceso] = m.dato]
           /\ hecho' = IF pedido[m.proceso].op = "F_READ" THEN [hecho EXCEPT ![m.proceso] = "existe"]
                       ELSE hecho
           /\ respuestas_mem' = respuestas_mem \o respuesta(Basura)
  /\ UNCHANGED <<discoVars, kernelVars, hilo, fuera, caido>>

-----------------------------------------------------------------------------

\* crear_fat counts from 1, so it writes all the entries but the last one.
FatInicial == [b \in Posicion |-> IF b \in 0 .. TamanioFat - 2 THEN 0 ELSE SinLeer]

\* inicializar_fcb_list takes the FCB files of a previous run, if there are any.
RestosPosibles == BOOLEAN

\* crear_archivo_bloques
BloquesVacios == [b \in Posicion |-> Basura]

\* Every start empties the FAT and the blocks; the FCB files of a previous run stay.
Init ==
  /\ lista_fcb = <<>> /\ restos \in RestosPosibles
  /\ fat = FatInicial
  /\ bloques = BloquesVacios
  /\ hilo = [p \in Procesos |-> HiloLibre]
  /\ pedido = [p \in Procesos |-> SinPedido] /\ hecho = [p \in Procesos |-> "no"]
  /\ kernel = [proceso |-> Nadie, archivo |-> Nadie, falta |-> FALSE] /\ abiertos = {}
  /\ pagina = [p \in Procesos |-> Basura] /\ pedidos_mem = <<>> /\ respuestas_mem = <<>>
  /\ pedidos = 0 /\ fuera = {} /\ caido = "no"

\* The requests of the programs; they may always stop asking.
Programas ==
  \E p \in Procesos, f \in Archivos :
    \/ PedirAbrir(p, f)
    \/ \E n \in Tamanios : Pedir(p, "F_TRUNCATE", f, n)
    \/ \E n \in 0 .. MaxBloques - 1 : Pedir(p, "F_WRITE", f, n) \/ Pedir(p, "F_READ", f, n)

Hilo(p) ==
  \/ Abrir(p) \/ Crear(p)
  \/ Truncar(p) \/ BloqueInicial(p) \/ BuscarLibre(p) \/ Anotar(p) \/ Seguir(p)
  \/ Quitar(p) \/ Fijar(p)
  \/ PedirMemoria(p) \/ RecibirCodigo(p) \/ RecibirBuffer(p)
  \/ Ubicar(p) \/ Caminar(p) \/ Escribir(p) \/ Leer(p)
  \/ Responder(p) \/ PedirCrear(p)

Next == Programas \/ (\E p \in Procesos : Hilo(p)) \/ Servir

Spec == Init /\ [][Next]_vars

\* Every thread that can run runs, and so do memoria and the kernel's answer to
\* FILE_DOESNT_EXISTS.
FairSpec == Spec /\ WF_vars(Servir) /\ \A p \in Procesos : WF_vars(Hilo(p))

-----------------------------------------------------------------------------
(* Properties *)

Pasos ==
  {"ninguno", "libre", "buscar", "crear", "truncar", "inicial", "anotar", "seguir", "quitar",
   "fijar", "pedir", "codigo", "buffer", "ubicar", "caminar", "responder"}

\* Type invariant.
TypeOK ==
  /\ lista_fcb \in Seq([nombre : Archivos, tam : 0 .. MaxBloques, ini : Posicion])
  /\ restos \in BOOLEAN
  /\ fat \in [Posicion -> Posicion \cup {SinLeer}]
  /\ bloques \in [Posicion -> Palabras]
  /\ \A p \in Procesos :
       /\ hilo[p].paso \in Pasos /\ hilo[p].bloque \in Posicion
       /\ hilo[p].cuenta \in 0 .. MaxBloques
       /\ hilo[p].valor \in Palabras \cup Posicion
       /\ hecho[p] \in {"no", "existe", "no existe", "error"}
       /\ pagina[p] \in Palabras
  /\ abiertos \subseteq Procesos \X Archivos /\ pedidos \in 0 .. MaxPedidos
  /\ caido \in {"no", "corrido", "fcb_basura"}

\* Two FCBs never have the same name, although crear_fcb lets a second one through
\* while the first has no blocks: kf_open keeps the whole kernel waiting between its
\* F_OPEN and its F_CREATE.
NombresUnicos ==
  \A j, k \in DOMAIN lista_fcb : j # k => lista_fcb[j].nombre # lista_fcb[k].nombre

\* The i-th block of an FCB, counting from 0, as the walks find it.
Cadena(fcb, i) ==
  LET b[k \in 0 .. i] == IF k = 0 THEN fcb.ini ELSE fat[b[k - 1]] IN b[i]

\* The blocks of the first half of a file, the ones that are only its own.
Propios(k) ==
  {Cadena(lista_fcb[k], i) : i \in 0 .. Mitad(lista_fcb[k].tam) - 1}

\* Blocks are not shared: the first half of a file never overlaps the first half of
\* another one, and has that many blocks, whatever the threads that write and read
\* do meanwhile.  It takes one F_TRUNCATE at a time, of empty files, with room left.
BloquesExclusivos ==
  fuera \cap {"truncados", "retruncado", "fin_fat"} = {} =>
    \A j, k \in DOMAIN lista_fcb :
      /\ Cardinality(Propios(j)) = Mitad(lista_fcb[j].tam)
      /\ j # k => Propios(j) \cap Propios(k) = {}

\* No thread writes the block of the last FAT entry, which escribir_bloque_swap takes
\* for the first block of the swap, unless the disk filled up or an access left the
\* FAT file: a page swapped out survives even accesses that leave their half of the
\* file and crossed answers.
SwapIntacto ==
  "fin_fat" \notin fuera => bloques[TamanioFat - 1] = Basura

\* The stream of answers is only misread when two requests that use the socket to
\* memoria were served at once: an F_TRUNCATE, F_OPEN or F_CREATE next to them does
\* no harm.
SoloDosPorMemoria == caido = "corrido" => "memoria" \in fuera

\* While the use keeps to the contract the filesystem is a store of arrays: what is
\* read is what was last written there, whatever the other threads do meanwhile.
contenido ==
  [f \in Archivos |->
    LET k == conseguir_id_fcb(f) IN
    IF k = 0 THEN NoExiste
    ELSE [largo   |-> lista_fcb[k].tam,
          bloques |-> [i \in 1 .. Mitad(lista_fcb[k].tam) |->
                         bloques[Cadena(lista_fcb[k], i - 1)]]]]

Contrato == INSTANCE Almacen WITH
  contenido <- IF fuera = {} THEN contenido ELSE <<>>,
  vale      <- fuera = {}

EsUnAlmacen == Contrato!Spec

\* Every request is answered and every kf_open returns, the one that must create the
\* file too, unless the process died or two requests crossed on the socket to memoria:
\* no walk and no search goes round for ever, and no F_ERROR, which wakes nobody up,
\* answers an F_CREATE.
PedidoTermina ==
  \A p \in Procesos :
    (pedido[p] # SinPedido \/ kernel.proceso = p) ~>
      \/ pedido[p] = SinPedido /\ kernel.proceso # p
      \/ caido # "no" \/ "memoria" \in fuera
=============================================================================
