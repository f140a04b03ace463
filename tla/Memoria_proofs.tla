---------------------------- MODULE Memoria_proofs ----------------------------
(***************************************************************************)
(* Proofs about Memoria for every set of processes, every memory and every *)
(* bound: types, frames and page tables that agree, and swap blocks that   *)
(* are neither shared nor lost.                                            *)
(***************************************************************************)
EXTENDS Memoria, Lemas

-----------------------------------------------------------------------------
(* The inductive invariant: types *)

Codigos  == {"INICIALIZAR_PROCESO", "PAGE_FAULT_KERNEL", "FINALIZAR_PROCESO"}
Mensajes == [codigo : Codigos, pid : Procs, arg : Int]

Ops   == {"MOV_IN", "MOV_OUT", "F_READ", "F_WRITE"}
Hilos == [paso : {"recibir", "ejecutar", "colgado", "copiar", "buscar", "contar", "sellar"},
          pid : Procs \cup {Nada}, op : Ops, marco : Marcos \cup {Nada},
          pagina : Paginas \cup {NoPagina}]

\* What the kernel's thread does for a new process, for a page fault, for an end.
PasosIni == {"crear_tabla", "pedir_swap"}
PasosPf  == {"elegir", "probar", "swap_out", "desalojar", "ocupar", "cargar"}
PasosFin == {"liberar_marcos", "limpiar_fifo", "liberar_tabla"}
Kernels  == [paso : {"recibir"} \cup PasosIni \cup PasosPf \cup PasosFin,
             pid : Procs \cup {Nada}, arg : Int, victima : Paginas \cup {NoPagina},
             marco : Marcos \cup {Nada}]

Entradas ==
  [marco : Marcos \cup {Nada}, presencia : BOOLEAN, modificado : BOOLEAN,
   bloque : Bloques \cup {0}, lru : Nat]

TipoTabla ==
  /\ procesos_totales \in Seq(Procs) /\ cantidad_paginas \in [Procs -> 0 .. MaxPaginas]
  /\ entradas_tabla \in [Procs -> [Indices -> Entradas]]

TipoMarcos ==
  /\ marcos \in [Marcos -> Procs \cup {Nada}] /\ memoria_usuario \in [Marcos -> Palabras]
  /\ paginas_utilizadas \in Seq(Paginas) /\ contador_lru \in Nat
  /\ swap \subseteq Bloques /\ bloques \in [Bloques -> Palabras]

TipoProcesos ==
  /\ algoritmo_pags \in {"FIFO", "LRU"}
  /\ estado \in [Procs -> {"no", "listo", "bloqueado", "fin"}]
  /\ repite \in [Procs -> Indices \cup {Nada}]
  /\ por_enviar \subseteq Mensajes /\ pedidos \in Seq(Mensajes) /\ pedidos_fs \subseteq Hilos

TipoHilos ==
  /\ kernel \in Kernels /\ cpu \in Hilos /\ fs \in Hilos
  /\ caido \in {"no", "sin_tabla", "sin_swap", "pagina_nula", "victima_nula", "entrada_liberada",
                "fifo_colgada"}

Tipo == TipoTabla /\ TipoMarcos /\ TipoProcesos /\ TipoHilos

-----------------------------------------------------------------------------
(* The inductive invariant: what each process waits for *)

\* A page fault of the page i of p that was not served yet.
Falla(p, i) ==
  /\ estado[p] = "bloqueado" /\ repite[p] = i /\ i \in Indices
  /\ Existe(p) /\ i < cantidad_paginas[p] /\ ~Entrada(<<p, i>>).presencia

\* What a message of the kernel says of its process while nobody has received it.
Bien(m) ==
  /\ m.codigo = "INICIALIZAR_PROCESO" =>
       /\ m.arg \in Tamanios /\ estado[m.pid] = "listo"
       /\ ~Existe(m.pid) /\ cantidad_paginas[m.pid] = 0
  /\ m.codigo = "PAGE_FAULT_KERNEL" => Falla(m.pid, m.arg)
  /\ m.codigo = "FINALIZAR_PROCESO" => estado[m.pid] = "fin" /\ Existe(m.pid)

\* The kernel's thread is not at work for p, but to start it.
NoAtiende(p) == kernel.paso \in PasosPf \cup PasosFin => kernel.pid # p

\* A process has one message on its way at most.
Mensajeria ==
  /\ \A m \in por_enviar : Bien(m) /\ m.codigo # "INICIALIZAR_PROCESO" /\ NoAtiende(m.pid)
  /\ \A i \in DOMAIN pedidos : Bien(pedidos[i]) /\ NoAtiende(pedidos[i].pid)
  /\ \A m, n \in por_enviar : m.pid = n.pid => m = n
  /\ \A m \in por_enviar, i \in DOMAIN pedidos : m.pid # pedidos[i].pid
  /\ \A i, j \in DOMAIN pedidos : pedidos[i].pid = pedidos[j].pid => i = j

\* What the kernel's thread works on, at each of its steps.
Servicio ==
  /\ kernel.paso # "recibir" => kernel.pid \in Procs
  /\ kernel.paso \in PasosIni =>
       /\ estado[kernel.pid] # "no" /\ Existe(kernel.pid)
       /\ \A i \in Indices : ~Entrada(<<kernel.pid, i>>).presencia
  /\ kernel.paso = "crear_tabla" => cantidad_paginas[kernel.pid] = 0 /\ kernel.arg \in Tamanios
  /\ kernel.paso \in PasosPf \ {"cargar"} => Falla(kernel.pid, kernel.arg)
  /\ kernel.paso = "cargar" =>
       /\ estado[kernel.pid] = "bloqueado" /\ repite[kernel.pid] = kernel.arg
       /\ kernel.arg \in Indices /\ Existe(kernel.pid)
       /\ kernel.arg < cantidad_paginas[kernel.pid]
       /\ Entrada(<<kernel.pid, kernel.arg>>).presencia
  /\ kernel.paso \in PasosFin => estado[kernel.pid] = "fin"
  /\ kernel.paso = "liberar_marcos" => Existe(kernel.pid)
  /\ kernel.paso \in {"limpiar_fifo", "liberar_tabla"} => ~Existe(kernel.pid)

\* The process of an access, and the frame or the page it goes to.
EnAcceso(a) ==
  /\ a.paso # "recibir" => a.pid \in Procs
  /\ a.paso \in {"copiar", "buscar"} => a.marco \in Marcos
  /\ a.paso \in {"contar", "sellar"} => a.pagina \in Paginas

EsperaArchivo(p) == estado[p] = "bloqueado" /\ repite[p] = Nada

Accesorios ==
  /\ EnAcceso(cpu) /\ EnAcceso(fs)
  /\ cpu.paso \notin {"recibir", "colgado"} => estado[cpu.pid] = "listo" /\ Existe(cpu.pid)
  /\ fs.paso # "recibir" => EsperaArchivo(fs.pid)
  /\ \A a \in pedidos_fs : a.paso = "buscar" /\ EnAcceso(a) /\ EsperaArchivo(a.pid)
  /\ \A a \in pedidos_fs : fs.paso # "recibir" => a.pid # fs.pid
  /\ \A a, b \in pedidos_fs : a.pid = b.pid => a = b

\* The tables of the processes memoria knows are the only ones with pages in memory, but
\* for one that is being freed.
Tablas ==
  /\ \A p \in Procs : estado[p] = "no" => ~Existe(p) /\ cantidad_paginas[p] = 0
  /\ \A i, j \in DOMAIN procesos_totales : procesos_totales[i] = procesos_totales[j] => i = j
  /\ \A v \in Paginas : Entrada(v).presencia <=> Entrada(v).marco # Nada
  /\ \A v \in Paginas : Entrada(v).presencia =>
       /\ EnTabla(v)
       /\ Existe(v[1]) \/ (kernel.pid = v[1] /\ kernel.paso \in {"limpiar_fifo", "liberar_tabla"})

Lugar == Mensajeria /\ Servicio /\ Accesorios /\ Tablas

-----------------------------------------------------------------------------
(* The inductive invariant: frames and blocks *)

\* The page to be replaced is in memory until it is evicted; from then on its frame is
\* nobody's.
EnTransito ==
  /\ kernel.paso \in {"probar", "swap_out", "desalojar"} =>
       /\ kernel.victima \in Presentes /\ kernel.marco = Entrada(kernel.victima).marco
  /\ kernel.paso = "ocupar" =>
       /\ kernel.marco \in Marcos
       /\ \A v \in Presentes : Entrada(v).marco # kernel.marco

ConMarcos == MarcosCoherentes /\ EnTransito

\* SwapExclusivo without its count.
ConBloques ==
  /\ swap = {Entrada(v).bloque : v \in ConBloque}
  /\ \A v, w \in ConBloque : Entrada(v).bloque = Entrada(w).bloque => v = w

IInv == Tipo /\ Lugar /\ ConMarcos /\ ConBloques

-----------------------------------------------------------------------------
(* The constants *)

LEMMA NadaFuera ==
  /\ Nada \notin Procs /\ Nada \notin Marcos /\ Nada \notin Bloques /\ Nada \in Int
  /\ Nada \notin Indices /\ Indices \subseteq Nat /\ Procs \subseteq Nat
  BY MemoriaSupuestos DEF Nada, Marcos, Bloques, Indices

LEMMA PaginasNaturales == \A t \in Tamanios : PaginasNecesarias(t) \in Nat
  <1> SUFFICES ASSUME NEW t \in Tamanios PROVE PaginasNecesarias(t) \in Nat
    OBVIOUS
  <1>1. t \in Nat /\ TamPagina \in Nat \ {0}
    BY MemoriaSupuestos
  <1>2. t \div TamPagina \in Nat
    BY <1>1
  <1> QED BY <1>2 DEF PaginasNecesarias

\* MaxPaginas bounds the pages of every process.
LEMMA MaxPaginasEs ==
  MaxPaginas \in Nat /\ \A t \in Tamanios : PaginasNecesarias(t) \in 0 .. MaxPaginas
  <1> DEFINE T == {PaginasNecesarias(t) : t \in Tamanios}
  <1>1. T \in SUBSET Nat /\ T # {}
    BY PaginasNaturales, MemoriaSupuestos
  <1>2. IsFiniteSet(T)
    <2> DEFINE f == [t \in Tamanios |-> PaginasNecesarias(t)]
    <2>1. f \in Surjection(Tamanios, T)
      BY DEF Surjection
    <2> HIDE DEF T, f
    <2> QED BY <2>1, MemoriaSupuestos, FS_Surjection
  <1>3. Max(T) \in T /\ \A m \in T : m <= Max(T)
    <2> HIDE DEF T
    <2> QED BY <1>1, <1>2, MaxMin
  <1>4. MaxPaginas = Max(T)
    BY DEF MaxPaginas
  <1>5. \A t \in Tamanios : PaginasNecesarias(t) \in T
    OBVIOUS
  <1>6. MaxPaginas \in Nat
    BY <1>1, <1>3, <1>4
  <1> HIDE DEF T
  <1> QED BY <1>3, <1>4, <1>5, <1>6, PaginasNaturales

-----------------------------------------------------------------------------
(* The list of pages without those of a process *)

Filtra(lista, p, f, n) ==
  IF n = 0 THEN <<>> ELSE IF lista[n][1] = p THEN f[n - 1] ELSE Append(f[n - 1], lista[n])

\* The recursive function of SinPaginasDe exists.
LEMMA FiltroExiste ==
  ASSUME NEW lista, NEW p, NEW m \in Nat
  PROVE  \E f : f = [n \in 0 .. m |-> Filtra(lista, p, f, n)]
  <1> DEFINE Buena(k, f) == f = [n \in 0 .. k |-> Filtra(lista, p, f, n)]
             B == {k \in Nat : \E f : Buena(k, f)}
  <1>1. 0 \in B
    <2> DEFINE f == [n \in 0 .. 0 |-> <<>>]
    <2>1. Buena(0, f)
      BY DEF Filtra
    <2> QED BY <2>1
  <1>2. ASSUME NEW k \in B PROVE k + 1 \in B
    <2>1. PICK f : Buena(k, f)
      OBVIOUS
    <2> DEFINE g == [n \in 0 .. k + 1 |-> IF n <= k THEN f[n] ELSE Filtra(lista, p, f, n)]
    <2>2. ASSUME NEW n \in 0 .. k + 1 PROVE g[n] = Filtra(lista, p, g, n)
      <3>1. CASE n = 0
        BY <3>1, <2>1 DEF Filtra
      <3>2. CASE n # 0
        <4>1. g[n - 1] = f[n - 1]
          BY <3>2
        <4>2. Filtra(lista, p, g, n) = Filtra(lista, p, f, n)
          BY <3>2, <4>1 DEF Filtra
        <4>3. n <= k => f[n] = Filtra(lista, p, f, n)
          BY <2>1
        <4> QED BY <4>2, <4>3
      <3> QED BY <3>1, <3>2
    <2>3. Buena(k + 1, g)
      BY <2>2
    <2> HIDE DEF g, Buena
    <2> QED BY <2>3
  <1>3. B = Nat
    <2>1. B \in SUBSET Nat
      OBVIOUS
    <2> HIDE DEF B
    <2> QED BY <1>1, <1>2, <2>1, Induccion
  <1> QED BY <1>3

\* What is left of the first n pages: pages of others, and none twice.
Filtrada(r, lista, p, n) ==
  /\ r \in Seq(Paginas)
  /\ \A k \in DOMAIN r : \E i \in 1 .. n : r[k] = lista[i] /\ lista[i][1] # p
  /\ SinRepetir(lista) => SinRepetir(r)

LEMMA SinPaginasTipo ==
  ASSUME NEW lista \in Seq(Paginas), NEW p
  PROVE  Filtrada(SinPaginasDe(lista, p), lista, p, Len(lista))
  <1> DEFINE m == Len(lista)
             sin == CHOOSE f : f = [n \in 0 .. m |-> Filtra(lista, p, f, n)]
  <1>1. m \in Nat /\ \A i \in 1 .. m : lista[i] \in Paginas
    OBVIOUS
  <1>2. sin = [n \in 0 .. m |-> Filtra(lista, p, sin, n)]
    <2>1. \E f : f = [n \in 0 .. m |-> Filtra(lista, p, f, n)]
      BY <1>1, FiltroExiste
    <2> QED BY <2>1
  <1>3. SinPaginasDe(lista, p) = sin[m]
    BY DEF SinPaginasDe, Filtra
  <1> DEFINE N == {n \in Nat : n <= m => Filtrada(sin[n], lista, p, n)}
  <1>4. DOMAIN lista = 1 .. m
    OBVIOUS
  <1> HIDE DEF sin, m
  <1>5. 0 \in N
    <2>1. sin[0] = <<>>
      BY <1>1, <1>2 DEF Filtra
    <2>2. <<>> \in Seq(Paginas) /\ DOMAIN <<>> = {}
      OBVIOUS
    <2> QED BY <2>1, <2>2 DEF Filtrada, SinRepetir
  <1>6. ASSUME NEW n \in N PROVE n + 1 \in N
    <2> SUFFICES ASSUME n + 1 <= m PROVE Filtrada(sin[n + 1], lista, p, n + 1)
      OBVIOUS
    <2> DEFINE r == sin[n]
               v == lista[n + 1]
    <2>1. Filtrada(r, lista, p, n)
      BY <1>1
    <2>2. v \in Paginas
      BY <1>1
    <2>3. sin[n + 1] = IF v[1] = p THEN r ELSE Append(r, v)
      <3>1. n + 1 \in 0 .. m /\ n + 1 # 0 /\ (n + 1) - 1 = n
        BY <1>1
      <3>2. sin[n + 1] = Filtra(lista, p, sin, n + 1)
        BY <1>2, <3>1
      <3> QED BY <3>1, <3>2 DEF Filtra
    <2>4. CASE v[1] = p
      <3>1. sin[n + 1] = r
        BY <2>3, <2>4
      <3> HIDE DEF r, v
      <3> QED BY <2>1, <3>1 DEF Filtrada
    <2>5. CASE v[1] # p
      <3> DEFINE s == Append(r, v)
      <3>1. sin[n + 1] = s
        BY <2>3, <2>5
      <3>2. r \in Seq(Paginas)
        BY <2>1 DEF Filtrada
      <3> HIDE DEF r
      <3>3. /\ s \in Seq(Paginas) /\ DOMAIN s = 1 .. Len(r) + 1
            /\ \A k \in 1 .. Len(r) : s[k] = r[k]
            /\ s[Len(r) + 1] = v /\ DOMAIN r = 1 .. Len(r) /\ Len(r) \in Nat
        BY <2>2, <3>2, AppendProperties
      <3> HIDE DEF s
      <3>4. \A k \in DOMAIN s : \E i \in 1 .. n + 1 : s[k] = lista[i] /\ lista[i][1] # p
        <4> SUFFICES ASSUME NEW k \in DOMAIN s
                     PROVE  \E i \in 1 .. n + 1 : s[k] = lista[i] /\ lista[i][1] # p
          OBVIOUS
        <4>1. CASE k = Len(r) + 1
          BY <4>1, <3>3, <2>5
        <4>2. CASE k # Len(r) + 1
          <5>1. k \in DOMAIN r
            BY <4>2, <3>3
          <5>2. PICK i \in 1 .. n : r[k] = lista[i] /\ lista[i][1] # p
            BY <5>1, <2>1 DEF Filtrada
          <5> QED BY <5>1, <5>2, <3>3
        <4> QED BY <4>1, <4>2
      <3>5. SinRepetir(lista) => SinRepetir(s)
        <4> SUFFICES ASSUME SinRepetir(lista), NEW k \in DOMAIN s, NEW j \in DOMAIN s, s[k] = s[j]
                     PROVE  k = j
          BY DEF SinRepetir
        <4>1. \A h \in DOMAIN r : r[h] # v
          <5> SUFFICES ASSUME NEW h \in DOMAIN r PROVE r[h] # v
            OBVIOUS
          <5>1. PICK i \in 1 .. n : r[h] = lista[i]
            BY <2>1 DEF Filtrada
          <5>2. i \in DOMAIN lista /\ n + 1 \in DOMAIN lista /\ i # n + 1
            BY <1>1, <1>4
          <5>3. lista[i] # lista[n + 1]
            BY <5>2 DEF SinRepetir
          <5> QED BY <5>1, <5>3
        <4>2. SinRepetir(r)
          BY <2>1 DEF Filtrada
        <4>3. CASE k \in DOMAIN r /\ j \in DOMAIN r
          BY <4>2, <4>3, <3>3 DEF SinRepetir
        <4>4. CASE ~(k \in DOMAIN r /\ j \in DOMAIN r)
          BY <4>1, <4>4, <3>3
        <4> QED BY <4>3, <4>4
      <3> QED BY <3>1, <3>3, <3>4, <3>5 DEF Filtrada
    <2> QED BY <2>4, <2>5
  <1>7. N = Nat
    <2>1. N \in SUBSET Nat
      OBVIOUS
    <2> HIDE DEF N
    <2> QED BY <1>5, <1>6, <2>1, Induccion
  <1>8. Filtrada(sin[m], lista, p, m)
    BY <1>1, <1>7
  <1> QED BY <1>3, <1>8 DEF m

-----------------------------------------------------------------------------
(* The queue of the kernel's messages and the table of a page *)

\* recibir_operacion takes the first message and leaves the others.
LEMMA ColaMengua ==
  ASSUME NEW S, NEW s \in Seq(S), s # <<>>
  PROVE  /\ Head(s) \in S /\ Head(s) = s[1] /\ 1 \in DOMAIN s
         /\ Tail(s) \in Seq(S)
         /\ \A i \in DOMAIN Tail(s) : i + 1 \in DOMAIN s /\ i + 1 # 1 /\ Tail(s)[i] = s[i + 1]
  <1>1. Len(s) \in Nat /\ Len(s) # 0 /\ DOMAIN s = 1 .. Len(s)
    BY EmptySeq
  <1>2. /\ Tail(s) \in Seq(S) /\ Len(Tail(s)) = Len(s) - 1
        /\ \A i \in 1 .. Len(s) - 1 : Tail(s)[i] = s[i + 1]
    BY HeadTailProperties
  <1>3. Head(s) = s[1] /\ s[1] \in S
    BY <1>1
  <1> DEFINE t == Tail(s)
             n == Len(s)
  <1>4. DOMAIN t = 1 .. n - 1
    BY <1>1, <1>2
  <1> HIDE DEF t, n
  <1>5. n \in Nat => \A i \in 1 .. n - 1 : i + 1 \in 1 .. n /\ i + 1 # 1
    OBVIOUS
  <1> QED BY <1>1, <1>2, <1>3, <1>4, <1>5 DEF t, n

\* Append, seen from the places.
LEMMA ColaCrece ==
  ASSUME NEW S, NEW s \in Seq(S), NEW e \in S
  PROVE  /\ Append(s, e) \in Seq(S) /\ Len(s) \in Nat /\ DOMAIN s = 1 .. Len(s)
         /\ DOMAIN Append(s, e) = DOMAIN s \cup {Len(s) + 1} /\ Len(s) + 1 \notin DOMAIN s
         /\ \A i \in DOMAIN s : Append(s, e)[i] = s[i]
         /\ Append(s, e)[Len(s) + 1] = e
  <1> DEFINE t == Append(s, e)
             n == Len(s)
  <1>1. /\ t \in Seq(S) /\ Len(t) = n + 1 /\ n \in Nat /\ DOMAIN s = 1 .. n
        /\ \A i \in 1 .. n : t[i] = s[i]
        /\ t[n + 1] = e
    BY AppendProperties
  <1>2. DOMAIN t = 1 .. n + 1
    BY <1>1
  <1> HIDE DEF t, n
  <1>3. DOMAIN t = DOMAIN s \cup {n + 1} /\ n + 1 \notin DOMAIN s
    BY <1>1, <1>2
  <1> QED BY <1>1, <1>3 DEF t, n

LEMMA PaginaPar ==
  ASSUME NEW v \in Paginas
  PROVE  v[1] \in Procs /\ v[2] \in Indices /\ v = <<v[1], v[2]>>
  BY DEF Paginas

LEMMA EntradaTipo ==
  ASSUME TipoTabla, NEW v \in Paginas
  PROVE  Entrada(v) \in Entradas
  BY PaginaPar DEF TipoTabla, Entrada

\* One entry of a table is written, the others stay.
LEMMA TablaPone ==
  ASSUME TipoTabla, NEW w \in Paginas, NEW e \in Entradas,
         entradas_tabla' = [entradas_tabla EXCEPT ![w[1]][w[2]] = e]
  PROVE  /\ entradas_tabla' \in [Procs -> [Indices -> Entradas]]
         /\ \A v \in Paginas : Entrada(v)' = IF v = w THEN e ELSE Entrada(v)
  <1>1. w[1] \in Procs /\ w[2] \in Indices
    BY PaginaPar
  <1>2. entradas_tabla' \in [Procs -> [Indices -> Entradas]]
    BY <1>1 DEF TipoTabla
  <1>3. ASSUME NEW v \in Paginas PROVE Entrada(v)' = IF v = w THEN e ELSE Entrada(v)
    <2>1. v[1] \in Procs /\ v[2] \in Indices
      BY PaginaPar
    <2>2. v = w <=> v[1] = w[1] /\ v[2] = w[2]
      BY PaginaPar
    <2> QED BY <1>1, <2>1, <2>2 DEF TipoTabla, Entrada
  <1> QED BY <1>2, <1>3

-----------------------------------------------------------------------------
(* The programs, the CPU's thread and filesystem's: types *)

\* The parts of Tipo whose variables a step leaves alone.
LEMMA TipoIgual ==
  ASSUME Tipo
  PROVE  /\ UNCHANGED tablaVars => TipoTabla'
         /\ UNCHANGED <<marcoVars, usoVars, swapVars>> => TipoMarcos'
         /\ UNCHANGED <<algoritmo_pags, procesoVars, pedidos>> => TipoProcesos'
         /\ UNCHANGED <<kernel, cpu, fs, caido>> => TipoHilos'
  <1>1. UNCHANGED tablaVars => TipoTabla'
    BY DEF tablaVars, Tipo, TipoTabla
  <1>2. UNCHANGED <<marcoVars, usoVars, swapVars>> => TipoMarcos'
    BY DEF marcoVars, usoVars, swapVars, Tipo, TipoMarcos
  <1>3. UNCHANGED <<algoritmo_pags, procesoVars, pedidos>> => TipoProcesos'
    BY DEF procesoVars, Tipo, TipoProcesos
  <1>4. UNCHANGED <<kernel, cpu, fs, caido>> => TipoHilos'
    BY DEF Tipo, TipoHilos
  <1> QED BY <1>1, <1>2, <1>3, <1>4

LEMMA MensajeTipo ==
  ASSUME NEW c \in Codigos, NEW p \in Procs, NEW n \in Int
  PROVE  Mensaje(c, p, n) \in Mensajes
  BY DEF Mensaje, Mensajes

LEMMA SinAccesoTipo == SinAcceso \in Hilos
  BY DEF SinAcceso, Hilos, Ops

LEMMA IniciarProcesoTipo ==
  ASSUME Tipo, IniciarProceso
  PROVE  Tipo'
  <1>1. PICK p \in Procs, tam \in Tamanios :
          /\ estado' = [estado EXCEPT ![p] = "listo"]
          /\ pedidos' = Append(pedidos, Mensaje("INICIALIZAR_PROCESO", p, tam))
    BY DEF IniciarProceso
  <1>2. Mensaje("INICIALIZAR_PROCESO", p, tam) \in Mensajes
    BY MensajeTipo, MemoriaSupuestos DEF Codigos
  <1>3. pedidos' \in Seq(Mensajes)
    BY <1>1, <1>2, AppendProperties DEF Tipo, TipoProcesos
  <1>4. estado' \in [Procs -> {"no", "listo", "bloqueado", "fin"}]
    BY <1>1 DEF Tipo, TipoProcesos
  <1>5. TipoProcesos'
    BY <1>3, <1>4 DEF IniciarProceso, Tipo, TipoProcesos
  <1> QED BY <1>5, TipoIgual DEF IniciarProceso, Tipo

LEMMA KernelEnviaTipo ==
  ASSUME Tipo, NEW p \in Procs, KernelEnvia(p)
  PROVE  Tipo'
  <1>1. PICK m \in por_enviar : pedidos' = Append(pedidos, m) /\ por_enviar' = por_enviar \ {m}
    BY DEF KernelEnvia
  <1>2. pedidos' \in Seq(Mensajes)
    BY <1>1, AppendProperties DEF Tipo, TipoProcesos
  <1>3. TipoProcesos'
    BY <1>1, <1>2 DEF KernelEnvia, Tipo, TipoProcesos
  <1> QED BY <1>3, TipoIgual DEF KernelEnvia, Tipo

LEMMA CpuFetchTipo ==
  ASSUME Tipo, CpuFetch
  PROVE  Tipo'
  <1>1. cpu' \in Hilos
    BY DEF CpuFetch, Tipo, TipoHilos, Hilos
  <1>2. TipoHilos'
    BY <1>1 DEF CpuFetch, Tipo, TipoHilos
  <1> QED BY <1>2, TipoIgual DEF CpuFetch, Tipo

LEMMA CpuExitTipo ==
  ASSUME Tipo, Lugar, CpuExit
  PROVE  Tipo'
  <1>1. cpu.pid \in Procs
    BY DEF CpuExit, Lugar, Accesorios, EnAcceso
  <1>2. Mensaje("FINALIZAR_PROCESO", cpu.pid, Nada) \in Mensajes
    BY <1>1, MensajeTipo, NadaFuera DEF Codigos
  <1>3. TipoProcesos'
    BY <1>1, <1>2 DEF CpuExit, Tipo, TipoProcesos
  <1>4. TipoHilos'
    BY SinAccesoTipo DEF CpuExit, Tipo, TipoHilos
  <1> QED BY <1>3, <1>4, TipoIgual DEF CpuExit, Tipo

LEMMA PaginaPedidaTipo ==
  ASSUME Tipo, Lugar, cpu.paso = "ejecutar", NEW v \in PaginaPedida
  PROVE  /\ v \in Paginas /\ v[1] = cpu.pid /\ v[2] \in Indices /\ cpu.pid \in Procs
         /\ EnTabla(v) /\ repite[cpu.pid] \in {Nada, v[2]} /\ v = <<v[1], v[2]>>
  BY DEF Lugar, Accesorios, EnAcceso, PaginaPedida, Paginas

LEMMA CpuFallaTipo ==
  ASSUME Tipo, Lugar, CpuFalla
  PROVE  Tipo'
  <1>1. PICK v \in PaginaPedida :
          /\ por_enviar' = por_enviar \cup {Mensaje("PAGE_FAULT_KERNEL", v[1], v[2])}
          /\ repite' = [repite EXCEPT ![v[1]] = v[2]]
          /\ estado' = [estado EXCEPT ![v[1]] = "bloqueado"]
    BY DEF CpuFalla
  <1>2. v[1] \in Procs /\ v[2] \in Indices
    BY PaginaPedidaTipo DEF CpuFalla
  <1>3. Mensaje("PAGE_FAULT_KERNEL", v[1], v[2]) \in Mensajes
    <2>1. \A i \in Indices : i \in Int
      BY DEF Indices
    <2>2. v[2] \in Int
      BY <1>2, <2>1
    <2> QED BY <1>2, <2>2, MensajeTipo DEF Codigos
  <1>4. TipoProcesos'
    BY <1>1, <1>2, <1>3 DEF CpuFalla, Tipo, TipoProcesos
  <1>5. TipoHilos'
    BY SinAccesoTipo DEF CpuFalla, Tipo, TipoHilos
  <1> QED BY <1>4, <1>5, TipoIgual DEF CpuFalla, Tipo

LEMMA CpuSinTablaTipo ==
  ASSUME Tipo, CpuSinTabla
  PROVE  Tipo'
  <1>1. TipoHilos'
    BY DEF CpuSinTabla, Tipo, TipoHilos
  <1> QED BY <1>1, TipoIgual DEF CpuSinTabla, Tipo

LEMMA AccesoTipo ==
  ASSUME TipoTabla, NEW v \in Paginas, NEW op \in Accesos
  PROVE  Acceso(v, op) \in Hilos
  <1>1. Entrada(v).marco \in Marcos \cup {Nada}
    BY EntradaTipo DEF Entradas
  <1>2. v[1] \in Procs /\ op \in Ops
    BY PaginaPar, MemoriaSupuestos DEF Ops
  <1> QED BY <1>1, <1>2 DEF Acceso, Hilos

LEMMA CpuMovTipo ==
  ASSUME Tipo, Lugar, CpuMov
  PROVE  Tipo'
  <1>1. PICK v \in PaginaPedida, op \in Accesos : cpu' = Acceso(v, op)
    BY DEF CpuMov
  <1>2. v \in Paginas /\ cpu.pid \in Procs
    BY PaginaPedidaTipo DEF CpuMov
  <1>3. TipoHilos'
    BY <1>1, <1>2, AccesoTipo DEF CpuMov, Tipo, TipoHilos
  <1>4. TipoProcesos'
    BY <1>2 DEF CpuMov, Tipo, TipoProcesos
  <1> QED BY <1>3, <1>4, TipoIgual DEF CpuMov, Tipo

LEMMA CpuArchivoTipo ==
  ASSUME Tipo, Lugar, CpuArchivo
  PROVE  Tipo'
  <1>1. PICK v \in PaginaPedida, op \in Accesos :
          pedidos_fs' = pedidos_fs \cup {Acceso(v, op)}
    BY DEF CpuArchivo
  <1>2. v \in Paginas /\ cpu.pid \in Procs
    BY PaginaPedidaTipo DEF CpuArchivo
  <1>3. TipoHilos'
    BY SinAccesoTipo DEF CpuArchivo, Tipo, TipoHilos
  <1>4. Acceso(v, op) \in Hilos
    BY <1>2, AccesoTipo DEF Tipo
  <1>5. TipoProcesos'
    BY <1>1, <1>2, <1>4 DEF CpuArchivo, Tipo, TipoProcesos
  <1> QED BY <1>3, <1>5, TipoIgual DEF CpuArchivo, Tipo

LEMMA CpuCopiaTipo ==
  ASSUME Tipo, CpuCopia
  PROVE  Tipo'
  <1>1. PICK x \in Valores : memoria_usuario' = [memoria_usuario EXCEPT ![cpu.marco] = x]
    BY DEF CpuCopia
  <1>2. x \in Palabras
    BY DEF Palabras
  <1>3. TipoMarcos'
    BY <1>1, <1>2 DEF CpuCopia, usoVars, swapVars, Tipo, TipoMarcos
  <1>4. cpu' \in Hilos
    BY DEF CpuCopia, Tipo, TipoHilos, Hilos
  <1>5. TipoHilos'
    BY <1>4 DEF CpuCopia, Tipo, TipoHilos
  <1> QED BY <1>3, <1>5, TipoIgual DEF CpuCopia, Tipo

\* list_find gives a page that has the frame.
LEMMA PrimeraTipo ==
  ASSUME NEW m, PaginasDeMarco(m) # {}
  PROVE  Primera(PaginasDeMarco(m)) \in PaginasDeMarco(m)
  <1> DEFINE s == PaginasDeMarco(m)
             N == {v[2] : v \in s}
  <1>1. \A v \in s : v[2] \in Nat
    BY NadaFuera, PaginaPar DEF PaginasDeMarco, Presentes
  <1> HIDE DEF s
  <1>2. N \in SUBSET Nat /\ N # {}
    BY <1>1 DEF s
  <1>3. PICK n \in N : \A k \in N : n <= k
    <2> HIDE DEF N
    <2> QED BY <1>2, Menor
  <1>4. PICK v \in s : v[2] = n
    BY <1>3
  <1>5. \A w \in s : v[2] <= w[2]
    BY <1>3, <1>4
  <1>6. Primera(s) \in s
    BY <1>4, <1>5 DEF Primera
  <1> QED BY <1>6 DEF s

\* What the three steps of an access leave in the thread.
LEMMA BuscarEs ==
  ASSUME Tipo, NEW a \in Hilos, NEW b, Buscar(a, b)
  PROVE  /\ b \in Hilos /\ a.paso = "buscar"
         /\ \/ caido' = "pagina_nula" /\ b = a
            \/ /\ caido' = caido /\ b.paso = "contar" /\ b.pid = a.pid /\ b.op = a.op
               /\ b.marco = a.marco /\ b.pagina \in PaginasDeMarco(a.marco)
               /\ b.pagina \in Paginas
  <1> DEFINE v == Primera(PaginasDeMarco(a.marco))
  <1>1. CASE PaginasDeMarco(a.marco) = {}
    BY <1>1 DEF Buscar
  <1>2. CASE PaginasDeMarco(a.marco) # {}
    <2>1. v \in PaginasDeMarco(a.marco)
      BY <1>2, PrimeraTipo
    <2>2. v \in Paginas
      BY <2>1 DEF PaginasDeMarco, Presentes
    <2>3. caido' = caido /\ b = [a EXCEPT !.paso = "contar", !.pagina = v] /\ a.paso = "buscar"
      BY <1>2 DEF Buscar
    <2> HIDE DEF v
    <2> QED BY <2>1, <2>2, <2>3 DEF Hilos
  <1> QED BY <1>1, <1>2

\* The modified bit is all that Contar changes in a table.
LEMMA ContarEs ==
  ASSUME Tipo, NEW a \in Hilos, a.pagina \in Paginas, NEW b, Contar(a, b)
  PROVE  /\ b \in Hilos /\ a.paso = "contar" /\ b = [a EXCEPT !.paso = "sellar"]
         /\ contador_lru' = contador_lru + 1
         /\ entradas_tabla' \in [Procs -> [Indices -> Entradas]]
         /\ \A v \in Paginas :
              /\ Entrada(v)'.marco = Entrada(v).marco
              /\ Entrada(v)'.presencia = Entrada(v).presencia
              /\ Entrada(v)'.bloque = Entrada(v).bloque
              /\ Entrada(v).modificado => Entrada(v)'.modificado
              /\ v = a.pagina /\ EnTabla(v) /\ a.op = "MOV_OUT" => Entrada(v)'.modificado
  <1>1. b \in Hilos /\ a.paso = "contar" /\ b = [a EXCEPT !.paso = "sellar"]
        /\ contador_lru' = contador_lru + 1
    BY DEF Contar, Hilos
  <1>2. CASE EnTabla(a.pagina)
    <2> DEFINE w == a.pagina
               e == [Entrada(w) EXCEPT !.modificado = @ \/ a.op = "MOV_OUT"]
    <2>1. Entrada(w) \in Entradas
      BY EntradaTipo DEF Tipo
    <2>2. /\ e \in Entradas /\ e.marco = Entrada(w).marco
          /\ e.presencia = Entrada(w).presencia /\ e.bloque = Entrada(w).bloque
          /\ e.modificado = (Entrada(w).modificado \/ a.op = "MOV_OUT")
      <3> HIDE DEF w
      <3> QED BY <2>1 DEF Entradas
    <2>3. entradas_tabla' = [entradas_tabla EXCEPT ![w[1]][w[2]] = e]
      BY <1>2 DEF Contar, Entrada
    <2> HIDE DEF e
    <2>4. /\ entradas_tabla' \in [Procs -> [Indices -> Entradas]]
          /\ \A v \in Paginas : Entrada(v)' = IF v = w THEN e ELSE Entrada(v)
      BY <2>2, <2>3, TablaPone DEF Tipo
    <2> QED BY <1>1, <2>2, <2>4
  <1>3. CASE ~EnTabla(a.pagina)
    <2>1. entradas_tabla' = entradas_tabla
      BY <1>3 DEF Contar
    <2> QED BY <1>1, <1>3, <2>1 DEF Entrada, Tipo, TipoTabla
  <1> QED BY <1>2, <1>3

\* The stamp is all that Sellar changes in a table, and a page may enter the list.
LEMMA SellarEs ==
  ASSUME Tipo, NEW a \in Hilos, a.pagina \in Paginas, NEW b, Sellar(a, b)
  PROVE  /\ b = SinAcceso /\ a.paso = "sellar"
         /\ caido' \in {caido, "entrada_liberada"}
         /\ entradas_tabla' \in [Procs -> [Indices -> Entradas]]
         /\ \A v \in Paginas :
              /\ Entrada(v)'.marco = Entrada(v).marco
              /\ Entrada(v)'.presencia = Entrada(v).presencia
              /\ Entrada(v)'.bloque = Entrada(v).bloque
              /\ Entrada(v)'.modificado = Entrada(v).modificado
         /\ \/ paginas_utilizadas' = paginas_utilizadas
            \/ /\ paginas_utilizadas' = Append(paginas_utilizadas, a.pagina)
               /\ EnTabla(a.pagina)
               /\ \A i \in DOMAIN paginas_utilizadas : paginas_utilizadas[i] # a.pagina
         /\ paginas_utilizadas' \in Seq(Paginas)
  <1>1. b = SinAcceso /\ a.paso = "sellar" /\ caido' \in {caido, "entrada_liberada"}
    BY DEF Sellar
  <1>2. /\ \/ paginas_utilizadas' = paginas_utilizadas
           \/ /\ paginas_utilizadas' = Append(paginas_utilizadas, a.pagina)
              /\ EnTabla(a.pagina)
              /\ \A i \in DOMAIN paginas_utilizadas : paginas_utilizadas[i] # a.pagina
        /\ paginas_utilizadas' \in Seq(Paginas)
    <2>1. \/ paginas_utilizadas' = paginas_utilizadas
          \/ /\ paginas_utilizadas' = Append(paginas_utilizadas, a.pagina)
             /\ EnTabla(a.pagina)
             /\ ~\E w \in ToSet(paginas_utilizadas) : Entrada(w).bloque = Entrada(a.pagina).bloque
      BY DEF Sellar
    <2>2. ASSUME NEW i \in DOMAIN paginas_utilizadas, paginas_utilizadas[i] = a.pagina
          PROVE  \E w \in ToSet(paginas_utilizadas) : Entrada(w).bloque = Entrada(a.pagina).bloque
      <3>1. a.pagina \in ToSet(paginas_utilizadas)
        BY <2>2 DEF ToSet
      <3> QED BY <3>1
    <2>3. paginas_utilizadas \in Seq(Paginas)
      BY DEF Tipo, TipoMarcos
    <2> QED BY <2>1, <2>2, <2>3, AppendProperties
  <1>3. CASE EnTabla(a.pagina)
    <2> DEFINE w == a.pagina
               e == [Entrada(w) EXCEPT !.lru = contador_lru]
    <2>1. Entrada(w) \in Entradas /\ contador_lru \in Nat
      BY EntradaTipo DEF Tipo, TipoMarcos
    <2>2. /\ e \in Entradas /\ e.marco = Entrada(w).marco
          /\ e.presencia = Entrada(w).presencia /\ e.bloque = Entrada(w).bloque
          /\ e.modificado = Entrada(w).modificado
      <3> HIDE DEF w
      <3> QED BY <2>1 DEF Entradas
    <2>3. entradas_tabla' = [entradas_tabla EXCEPT ![w[1]][w[2]] = e]
      BY <1>3 DEF Sellar, Entrada
    <2> HIDE DEF e
    <2>4. /\ entradas_tabla' \in [Procs -> [Indices -> Entradas]]
          /\ \A v \in Paginas : Entrada(v)' = IF v = w THEN e ELSE Entrada(v)
      BY <2>2, <2>3, TablaPone DEF Tipo
    <2>5. \A v \in Paginas :
              /\ Entrada(v)'.marco = Entrada(v).marco
              /\ Entrada(v)'.presencia = Entrada(v).presencia
              /\ Entrada(v)'.bloque = Entrada(v).bloque
              /\ Entrada(v)'.modificado = Entrada(v).modificado
      BY <2>2, <2>4
    <2> QED BY <1>1, <1>2, <2>4, <2>5
  <1>4. CASE ~EnTabla(a.pagina)
    <2>1. entradas_tabla' = entradas_tabla
      BY <1>4 DEF Sellar
    <2>2. \A v \in Paginas : Entrada(v)' = Entrada(v)
      BY <2>1 DEF Entrada
    <2>3. entradas_tabla' \in [Procs -> [Indices -> Entradas]]
      BY <2>1 DEF Tipo, TipoTabla
    <2> QED BY <1>1, <1>2, <2>2, <2>3
  <1> QED BY <1>3, <1>4

\* The kernel's thread, the lists of processes, frames and blocks, and what each page has
\* of them: all that the other threads leave alone.
Quietas ==
  /\ UNCHANGED <<procesos_totales, cantidad_paginas, marcos, kernel, swap>>
  /\ \A v \in Paginas :
       /\ Entrada(v)'.marco = Entrada(v).marco
       /\ Entrada(v)'.presencia = Entrada(v).presencia
       /\ Entrada(v)'.bloque = Entrada(v).bloque

LEMMA BuscaTipo ==
  ASSUME Tipo, CpuBusca \/ FsBusca
  PROVE  Tipo' /\ Quietas
  <1>1. cpu \in Hilos /\ fs \in Hilos
    BY DEF Tipo, TipoHilos
  <1>2. CASE CpuBusca
    <2>1. cpu' \in Hilos /\ caido' \in {caido, "pagina_nula"}
      BY <1>1, <1>2, BuscarEs DEF CpuBusca
    <2>2. TipoHilos'
      BY <1>2, <2>1 DEF CpuBusca, Buscar, Tipo, TipoHilos
    <2> QED BY <1>2, <2>2, TipoIgual
            DEF CpuBusca, Buscar, Tipo, Quietas, tablaVars, marcoVars, swapVars, Entrada
  <1>3. CASE FsBusca
    <2>1. fs' \in Hilos /\ caido' \in {caido, "pagina_nula"}
      BY <1>1, <1>3, BuscarEs DEF FsBusca
    <2>2. TipoHilos'
      BY <1>3, <2>1 DEF FsBusca, Buscar, Tipo, TipoHilos
    <2> QED BY <1>3, <2>2, TipoIgual
            DEF FsBusca, Buscar, Tipo, Quietas, tablaVars, marcoVars, swapVars, Entrada
  <1> QED BY <1>2, <1>3

LEMMA CuentaTipo ==
  ASSUME Tipo, Lugar, CpuCuenta \/ FsCuenta
  PROVE  Tipo' /\ Quietas
  <1>1. cpu \in Hilos /\ fs \in Hilos
    BY DEF Tipo, TipoHilos
  <1>2. PICK a \in Hilos, b \in Hilos :
          /\ a.pagina \in Paginas /\ Contar(a, b)
          /\ \/ a = cpu /\ b = cpu' /\ UNCHANGED fs
             \/ a = fs /\ b = fs' /\ UNCHANGED cpu
    <2>1. CASE CpuCuenta
      <3>1. cpu.pagina \in Paginas /\ Contar(cpu, cpu') /\ UNCHANGED fs
        BY <2>1 DEF CpuCuenta, Contar, Lugar, Accesorios, EnAcceso
      <3>2. cpu' \in Hilos
        BY <1>1, <3>1, ContarEs
      <3> QED BY <1>1, <3>1, <3>2
    <2>2. CASE FsCuenta
      <3>1. fs.pagina \in Paginas /\ Contar(fs, fs') /\ UNCHANGED cpu
        BY <2>2 DEF FsCuenta, Contar, Lugar, Accesorios, EnAcceso
      <3>2. fs' \in Hilos
        BY <1>1, <3>1, ContarEs
      <3> QED BY <1>1, <3>1, <3>2
    <2> QED BY <2>1, <2>2
  <1>3. /\ contador_lru' = contador_lru + 1
        /\ entradas_tabla' \in [Procs -> [Indices -> Entradas]]
        /\ \A v \in Paginas :
              /\ Entrada(v)'.marco = Entrada(v).marco
              /\ Entrada(v)'.presencia = Entrada(v).presencia
              /\ Entrada(v)'.bloque = Entrada(v).bloque
    BY <1>2, ContarEs
  <1>4. cpu' \in Hilos /\ fs' \in Hilos
    BY <1>1, <1>2
  <1>5. TipoTabla'
    BY <1>2, <1>3 DEF Contar, Tipo, TipoTabla
  <1>6. TipoMarcos'
    BY <1>2, <1>3 DEF Contar, Tipo, TipoMarcos, marcoVars, swapVars
  <1>7. TipoHilos'
    BY <1>2, <1>4 DEF Contar, Tipo, TipoHilos
  <1>8. Quietas
    BY <1>2, <1>3 DEF Contar, Quietas, marcoVars, swapVars
  <1>9. UNCHANGED <<algoritmo_pags, procesoVars, pedidos>>
    BY <1>2 DEF Contar
  <1> QED BY <1>5, <1>6, <1>7, <1>8, <1>9, TipoIgual DEF Tipo

LEMMA SellaTipo ==
  ASSUME Tipo, Lugar, CpuSella \/ FsSella
  PROVE  Tipo' /\ Quietas
  <1>1. cpu \in Hilos /\ fs \in Hilos
    BY DEF Tipo, TipoHilos
  <1>2. PICK a \in Hilos, b \in Hilos :
          /\ a.pagina \in Paginas /\ Sellar(a, b)
          /\ \/ a = cpu /\ b = cpu' /\ UNCHANGED <<estado, fs>>
             \/ /\ a = fs /\ b = fs' /\ UNCHANGED cpu
                /\ fs.pid \in Procs /\ estado' = [estado EXCEPT ![fs.pid] = "listo"]
    <2>1. CASE CpuSella
      <3>1. cpu.pagina \in Paginas /\ Sellar(cpu, cpu') /\ UNCHANGED <<estado, fs>>
        BY <2>1 DEF CpuSella, Sellar, Lugar, Accesorios, EnAcceso
      <3>2. cpu' \in Hilos
        BY <3>1, SinAccesoTipo DEF Sellar
      <3> QED BY <1>1, <3>1, <3>2
    <2>2. CASE FsSella
      <3>1. /\ fs.pagina \in Paginas /\ Sellar(fs, fs') /\ UNCHANGED cpu
            /\ fs.pid \in Procs /\ estado' = [estado EXCEPT ![fs.pid] = "listo"]
        BY <2>2 DEF FsSella, Sellar, Lugar, Accesorios, EnAcceso
      <3>2. fs' \in Hilos
        BY <3>1, SinAccesoTipo DEF Sellar
      <3> QED BY <1>1, <3>1, <3>2
    <2> QED BY <2>1, <2>2
  <1>3. /\ caido' \in {caido, "entrada_liberada"} /\ paginas_utilizadas' \in Seq(Paginas)
        /\ entradas_tabla' \in [Procs -> [Indices -> Entradas]]
        /\ \A v \in Paginas :
              /\ Entrada(v)'.marco = Entrada(v).marco
              /\ Entrada(v)'.presencia = Entrada(v).presencia
              /\ Entrada(v)'.bloque = Entrada(v).bloque
    BY <1>2, SellarEs
  <1>4. cpu' \in Hilos /\ fs' \in Hilos
    BY <1>1, <1>2
  <1>5. TipoTabla'
    BY <1>2, <1>3 DEF Sellar, Tipo, TipoTabla
  <1>6. TipoMarcos'
    BY <1>2, <1>3 DEF Sellar, Tipo, TipoMarcos, marcoVars, swapVars
  <1>7. TipoHilos'
    BY <1>2, <1>3, <1>4 DEF Sellar, Tipo, TipoHilos
  <1>8. Quietas
    BY <1>2, <1>3 DEF Sellar, Quietas, marcoVars, swapVars
  <1>9. estado' \in [Procs -> {"no", "listo", "bloqueado", "fin"}]
    BY <1>2 DEF Tipo, TipoProcesos
  <1>10. TipoProcesos'
    BY <1>2, <1>9 DEF Sellar, Tipo, TipoProcesos
  <1> QED BY <1>5, <1>6, <1>7, <1>8, <1>10 DEF Tipo

LEMMA FsEscribeTipo ==
  ASSUME Tipo, FsEscribe
  PROVE  Tipo' /\ Quietas
  <1>1. PICK a \in pedidos_fs, x \in Valores :
          /\ memoria_usuario' = [memoria_usuario EXCEPT ![a.marco] = x]
          /\ pedidos_fs' = pedidos_fs \ {a}
          /\ estado' = [estado EXCEPT ![a.pid] = "listo"]
    BY DEF FsEscribe
  <1>2. x \in Palabras
    BY DEF Palabras
  <1>3. TipoMarcos'
    BY <1>1, <1>2 DEF FsEscribe, Tipo, TipoMarcos, usoVars, swapVars
  <1>4. TipoProcesos'
    BY <1>1 DEF FsEscribe, Tipo, TipoProcesos
  <1>5. Quietas
    BY DEF FsEscribe, Quietas, tablaVars, swapVars, Entrada
  <1> QED BY <1>3, <1>4, <1>5, TipoIgual DEF FsEscribe, Tipo

LEMMA FsLeeTipo ==
  ASSUME Tipo, FsLee
  PROVE  Tipo' /\ Quietas
  <1>1. fs' \in Hilos
    BY DEF FsLee, Tipo, TipoProcesos
  <1>2. TipoHilos'
    BY <1>1 DEF FsLee, Tipo, TipoHilos
  <1>3. TipoProcesos'
    BY DEF FsLee, Tipo, TipoProcesos
  <1>4. Quietas
    BY DEF FsLee, Quietas, tablaVars, marcoVars, swapVars, Entrada
  <1> QED BY <1>2, <1>3, <1>4, TipoIgual DEF FsLee, Tipo

\* The programs, the CPU's thread and filesystem's keep the types and all that the kernel's
\* thread works with.
LEMMA OtrosTipo ==
  ASSUME Tipo, Lugar, Programas \/ HiloCpu \/ HiloFs
  PROVE  Tipo' /\ Quietas
  <1>1. CASE IniciarProceso
    BY <1>1, IniciarProcesoTipo DEF IniciarProceso, Quietas, tablaVars, marcoVars, swapVars, Entrada
  <1>2. CASE CpuFetch
    BY <1>2, CpuFetchTipo DEF CpuFetch, Quietas, tablaVars, marcoVars, swapVars, Entrada
  <1>3. CASE CpuExit
    BY <1>3, CpuExitTipo DEF CpuExit, Quietas, tablaVars, marcoVars, swapVars, Entrada
  <1>4. CASE CpuFalla
    BY <1>4, CpuFallaTipo DEF CpuFalla, Quietas, tablaVars, marcoVars, swapVars, Entrada
  <1>5. CASE CpuSinTabla
    BY <1>5, CpuSinTablaTipo DEF CpuSinTabla, Quietas, tablaVars, marcoVars, swapVars, Entrada
  <1>6. CASE CpuMov
    BY <1>6, CpuMovTipo DEF CpuMov, Quietas, tablaVars, marcoVars, swapVars, Entrada
  <1>7. CASE CpuArchivo
    BY <1>7, CpuArchivoTipo DEF CpuArchivo, Quietas, tablaVars, marcoVars, swapVars, Entrada
  <1>8. ASSUME NEW p \in Procs, KernelEnvia(p) PROVE Tipo' /\ Quietas
    BY <1>8, KernelEnviaTipo DEF KernelEnvia, Quietas, tablaVars, marcoVars, swapVars, Entrada
  <1>9. CASE CpuCopia
    BY <1>9, CpuCopiaTipo DEF CpuCopia, Quietas, tablaVars, swapVars, Entrada
  <1>10. CASE CpuBusca \/ FsBusca
    BY <1>10, BuscaTipo
  <1>11. CASE CpuCuenta \/ FsCuenta
    BY <1>11, CuentaTipo
  <1>12. CASE CpuSella \/ FsSella
    BY <1>12, SellaTipo
  <1>13. CASE FsEscribe
    BY <1>13, FsEscribeTipo
  <1>14. CASE FsLee
    BY <1>14, FsLeeTipo
  <1> QED BY <1>1, <1>2, <1>3, <1>4, <1>5, <1>6, <1>7, <1>8, <1>9, <1>10, <1>11, <1>12, <1>13,
             <1>14 DEF Programas, HiloCpu, HiloFs

-----------------------------------------------------------------------------
(* The kernel's thread: types *)

\* What the thread has once it received a message.
LEMMA AtenderEs ==
  ASSUME Tipo, NEW c, NEW paso, Recibe(c), Atender(paso),
         paso \in {"recibir"} \cup PasosIni \cup PasosPf \cup PasosFin
  PROVE  /\ kernel' \in Kernels /\ kernel'.paso = paso
         /\ kernel'.pid = Head(pedidos).pid /\ kernel'.arg = Head(pedidos).arg
         /\ kernel'.victima = NoPagina /\ kernel'.marco = Nada
         /\ kernel.paso = "recibir" /\ pedidos # <<>> /\ Head(pedidos).codigo = c
         /\ Head(pedidos) \in Mensajes /\ Head(pedidos).pid \in Procs
         /\ pedidos' = Tail(pedidos) /\ pedidos' \in Seq(Mensajes)
         /\ Head(pedidos) = pedidos[1] /\ 1 \in DOMAIN pedidos
  <1>1. kernel.paso = "recibir" /\ pedidos # <<>> /\ Head(pedidos).codigo = c
        /\ pedidos' = Tail(pedidos)
    BY DEF Recibe
  <1>2. pedidos \in Seq(Mensajes)
    BY DEF Tipo, TipoProcesos
  <1>3. /\ Head(pedidos) \in Mensajes /\ Tail(pedidos) \in Seq(Mensajes)
        /\ Head(pedidos) = pedidos[1] /\ 1 \in DOMAIN pedidos
    BY <1>1, <1>2, ColaMengua
  <1>4. Head(pedidos).pid \in Procs /\ Head(pedidos).arg \in Int
    BY <1>3 DEF Mensajes
  <1> DEFINE m == Head(pedidos)
  <1>5. kernel' = [KernelLibre EXCEPT !.paso = paso, !.pid = m.pid, !.arg = m.arg]
    BY DEF Atender
  <1> HIDE DEF m
  <1>6. /\ kernel' \in Kernels /\ kernel'.paso = paso /\ kernel'.pid = m.pid /\ kernel'.arg = m.arg
        /\ kernel'.victima = NoPagina /\ kernel'.marco = Nada
    BY <1>4, <1>5 DEF KernelLibre, Kernels, m
  <1> QED BY <1>1, <1>3, <1>4, <1>6 DEF m

\* TipoHilos after a step of the kernel's thread that only moves it.
LEMMA KernelTipo ==
  ASSUME Tipo, kernel' \in Kernels, UNCHANGED <<cpu, fs, caido>>
  PROVE  TipoHilos'
  BY DEF Tipo, TipoHilos

LEMMA KernelLibreTipo == KernelLibre \in Kernels
  BY NadaFuera DEF KernelLibre, Kernels

LEMMA EntradaNuevaTipo == EntradaNueva \in Entradas
  BY MemoriaSupuestos DEF EntradaNueva, Entradas

LEMMA InicializarProcesoTipo ==
  ASSUME Tipo, InicializarProceso
  PROVE  Tipo'
  <1>1. kernel' \in Kernels /\ Head(pedidos).pid \in Procs /\ pedidos' \in Seq(Mensajes)
    BY AtenderEs DEF InicializarProceso, PasosIni
  <1>2. TipoTabla'
    BY <1>1, AppendProperties DEF InicializarProceso, Tipo, TipoTabla
  <1>3. TipoProcesos'
    BY <1>1 DEF InicializarProceso, procesoVars, Tipo, TipoProcesos
  <1>4. TipoHilos'
    BY <1>1, KernelTipo DEF InicializarProceso
  <1> QED BY <1>2, <1>3, <1>4, TipoIgual DEF InicializarProceso, Tipo

LEMMA CrearTablaTipo ==
  ASSUME Tipo, Lugar, CrearTabla
  PROVE  Tipo'
  <1>1. kernel.pid \in Procs /\ PaginasNecesarias(kernel.arg) \in 0 .. MaxPaginas
    BY MaxPaginasEs DEF CrearTabla, Lugar, Servicio, PasosIni
  <1>2. TipoTabla'
    BY <1>1, EntradaNuevaTipo DEF CrearTabla, Tipo, TipoTabla
  <1>3. kernel' \in Kernels
    BY DEF CrearTabla, Tipo, TipoHilos, Kernels, PasosIni
  <1> QED BY <1>2, <1>3, KernelTipo, TipoIgual DEF CrearTabla, Tipo

\* The blocks that INICIO_SWAP gives: free, and each for one page.
LEMMA LibreNumeroEs ==
  ASSUME Tipo, NEW i \in Nat, i < Cardinality(Bloques \ swap)
  PROVE  /\ LibreNumero(i) \in Bloques \ swap
         /\ Cardinality({c \in Bloques \ swap : c < LibreNumero(i)}) = i
  <1> DEFINE S == Bloques \ swap
  <1>1. Bloques \in SUBSET Nat /\ IsFiniteSet(Bloques)
    BY MemoriaSupuestos, FS_Interval DEF Bloques
  <1>2. S \in SUBSET Nat /\ IsFiniteSet(S)
    BY <1>1, FS_Subset
  <1>3. LibreNumero(i) = CHOOSE b \in S : Cardinality({c \in S : c < b}) = i
    BY DEF LibreNumero
  <1>4. i < Cardinality(S)
    OBVIOUS
  <1> HIDE DEF S
  <1>5. \E b \in S : Cardinality({c \in S : c < b}) = i
    BY <1>2, <1>4, Numerados
  <1>6. LibreNumero(i) \in S /\ Cardinality({c \in S : c < LibreNumero(i)}) = i
    BY <1>3, <1>5
  <1> QED BY <1>6 DEF S

\* What AsignarSwap does when there is room: a block for each page of the process.
LEMMA AsignarSwapEs ==
  ASSUME Tipo, Lugar, AsignarSwap, cantidad_paginas[kernel.pid] <= Cardinality(Bloques \ swap)
  PROVE  /\ kernel.pid \in Procs /\ kernel' = KernelLibre /\ UNCHANGED caido
         /\ \A i \in Indices : i < cantidad_paginas[kernel.pid] =>
              LibreNumero(i) \in Bloques \ swap
         /\ swap' = swap \cup {LibreNumero(i) : i \in 0 .. cantidad_paginas[kernel.pid] - 1}
         /\ 0 .. cantidad_paginas[kernel.pid] - 1
              = {i \in Indices : i < cantidad_paginas[kernel.pid]}
         /\ entradas_tabla' \in [Procs -> [Indices -> Entradas]]
         /\ \A v \in Paginas :
              /\ Entrada(v)'.marco = Entrada(v).marco
              /\ Entrada(v)'.presencia = Entrada(v).presencia
              /\ Entrada(v)'.modificado = Entrada(v).modificado
              /\ Entrada(v)'.bloque = IF v[1] = kernel.pid /\ EnTabla(v)
                                        THEN LibreNumero(v[2]) ELSE Entrada(v).bloque
  <1> DEFINE p == kernel.pid
             n == cantidad_paginas[p]
             t == [i \in Indices |-> IF i < n THEN [entradas_tabla[p][i] EXCEPT !.bloque = LibreNumero(i)]
                                              ELSE entradas_tabla[p][i]]
  <1>1. p \in Procs
    BY DEF AsignarSwap, Lugar, Servicio
  <1>2. n \in 0 .. MaxPaginas /\ n \in Nat /\ MaxPaginas \in Nat
    BY <1>1, MaxPaginasEs DEF Tipo, TipoTabla
  <1>3. Cardinality(Bloques \ swap) \in Nat
    <2>1. IsFiniteSet(Bloques)
      BY MemoriaSupuestos, FS_Interval DEF Bloques
    <2> QED BY <2>1, FS_Subset, FS_CardinalityType
  <1>4. ~(n > Cardinality(Bloques \ swap))
    BY <1>2, <1>3
  <1>5. /\ swap' = swap \cup {LibreNumero(i) : i \in 0 .. n - 1}
        /\ entradas_tabla' = [entradas_tabla EXCEPT ![p] = t]
        /\ kernel' = KernelLibre /\ UNCHANGED caido
    BY <1>4 DEF AsignarSwap
  <1>6. \A i \in Indices : i \in Nat /\ (i < n => LibreNumero(i) \in Bloques \ swap)
    <2> SUFFICES ASSUME NEW i \in Indices
                 PROVE  i \in Nat /\ (i < n => LibreNumero(i) \in Bloques \ swap)
      OBVIOUS
    <2>1. i \in Nat
      BY DEF Indices
    <2> HIDE DEF n
    <2>2. i < n => i < Cardinality(Bloques \ swap)
      BY <1>2, <1>3, <1>4, <2>1
    <2> QED BY <2>1, <2>2, LibreNumeroEs
  <1>7. 0 .. n - 1 = {i \in Indices : i < n}
    <2> HIDE DEF n
    <2> QED BY <1>2 DEF Indices
  <1> HIDE DEF n, t, p
  <1>8. \A i \in Indices :
          /\ t[i] \in Entradas /\ t[i].marco = entradas_tabla[p][i].marco
          /\ t[i].presencia = entradas_tabla[p][i].presencia
          /\ t[i].modificado = entradas_tabla[p][i].modificado
          /\ t[i].bloque = IF i < n THEN LibreNumero(i) ELSE entradas_tabla[p][i].bloque
    <2> SUFFICES ASSUME NEW i \in Indices
                 PROVE  /\ t[i] \in Entradas /\ t[i].marco = entradas_tabla[p][i].marco
                        /\ t[i].presencia = entradas_tabla[p][i].presencia
                        /\ t[i].modificado = entradas_tabla[p][i].modificado
                        /\ t[i].bloque = IF i < n THEN LibreNumero(i) ELSE entradas_tabla[p][i].bloque
      OBVIOUS
    <2> DEFINE e == entradas_tabla[p][i]
    <2>1. e \in Entradas
      BY <1>1 DEF Tipo, TipoTabla
    <2>2. t[i] = IF i < n THEN [e EXCEPT !.bloque = LibreNumero(i)] ELSE e
      BY DEF t
    <2>3. i < n => LibreNumero(i) \in Bloques \cup {0}
      BY <1>6
    <2> HIDE DEF e
    <2>4. CASE i < n
      BY <2>1, <2>2, <2>3, <2>4 DEF Entradas, e
    <2>5. CASE ~(i < n)
      BY <2>1, <2>2, <2>5 DEF e
    <2> QED BY <2>4, <2>5
  <1>9. t \in [Indices -> Entradas]
    BY <1>8 DEF t
  <1>10. entradas_tabla' \in [Procs -> [Indices -> Entradas]]
    BY <1>1, <1>5, <1>9 DEF Tipo, TipoTabla
  <1>11. ASSUME NEW v \in Paginas
         PROVE  /\ Entrada(v)'.marco = Entrada(v).marco
                /\ Entrada(v)'.presencia = Entrada(v).presencia
                /\ Entrada(v)'.modificado = Entrada(v).modificado
                /\ Entrada(v)'.bloque = IF v[1] = p /\ EnTabla(v)
                                          THEN LibreNumero(v[2]) ELSE Entrada(v).bloque
    <2>1. v[1] \in Procs /\ v[2] \in Indices
      BY PaginaPar
    <2>2. entradas_tabla'[v[1]] = IF v[1] = p THEN t ELSE entradas_tabla[v[1]]
      BY <1>1, <1>5, <2>1 DEF Tipo, TipoTabla
    <2>3. CASE v[1] = p
      <3>1. Entrada(v)' = t[v[2]] /\ Entrada(v) = entradas_tabla[p][v[2]]
        BY <2>2, <2>3 DEF Entrada
      <3>2. EnTabla(v) <=> v[2] < n
        BY <2>3 DEF EnTabla, n
      <3> QED BY <1>8, <2>1, <2>3, <3>1, <3>2
    <2>4. CASE v[1] # p
      <3>1. Entrada(v)' = Entrada(v)
        BY <2>2, <2>4 DEF Entrada
      <3> QED BY <2>4, <3>1
    <2> QED BY <2>3, <2>4
  <1> QED BY <1>1, <1>5, <1>6, <1>7, <1>10, <1>11 DEF n, p

\* It does that or leaves the tables alone.
LEMMA AsignaEs ==
  ASSUME Tipo, Lugar, AsignarSwap
  PROVE  \/ cantidad_paginas[kernel.pid] <= Cardinality(Bloques \ swap) /\ kernel' = KernelLibre
         \/ UNCHANGED <<swap, entradas_tabla, kernel>> /\ caido' = "sin_swap"
  <1> DEFINE n == cantidad_paginas[kernel.pid]
  <1>1. CASE n > Cardinality(Bloques \ swap)
    BY <1>1 DEF AsignarSwap
  <1>2. CASE ~(n > Cardinality(Bloques \ swap))
    <2>1. n \in Nat /\ Cardinality(Bloques \ swap) \in Nat
      <3>1. IsFiniteSet(Bloques)
        BY MemoriaSupuestos, FS_Interval DEF Bloques
      <3>2. kernel.pid \in Procs /\ MaxPaginas \in Nat
        BY MaxPaginasEs DEF AsignarSwap, Lugar, Servicio
      <3>3. n \in 0 .. MaxPaginas
        BY <3>2 DEF Tipo, TipoTabla
      <3> QED BY <3>1, <3>2, <3>3, FS_Subset, FS_CardinalityType
    <2>2. n <= Cardinality(Bloques \ swap)
      <3> HIDE DEF n
      <3> QED BY <1>2, <2>1
    <2>3. kernel' = KernelLibre
      BY <1>2 DEF AsignarSwap
    <2> QED BY <2>2, <2>3
  <1> QED BY <1>1, <1>2

LEMMA AsignarSwapTipo ==
  ASSUME Tipo, Lugar, AsignarSwap
  PROVE  Tipo'
  <1>1. CASE UNCHANGED <<swap, entradas_tabla, kernel>> /\ caido' = "sin_swap"
    <2>1. TipoHilos'
      BY <1>1 DEF AsignarSwap, Tipo, TipoHilos
    <2> QED BY <1>1, <2>1, TipoIgual DEF AsignarSwap, Tipo, tablaVars, swapVars
  <1>2. CASE cantidad_paginas[kernel.pid] <= Cardinality(Bloques \ swap)
    <2> DEFINE n == cantidad_paginas[kernel.pid]
    <2>1. /\ kernel' = KernelLibre /\ UNCHANGED caido
          /\ entradas_tabla' \in [Procs -> [Indices -> Entradas]]
          /\ swap' = swap \cup {LibreNumero(i) : i \in 0 .. n - 1}
          /\ \A i \in Indices : i < n => LibreNumero(i) \in Bloques \ swap
          /\ 0 .. n - 1 = {i \in Indices : i < n}
      BY <1>2, AsignarSwapEs
    <2> HIDE DEF n
    <2>2. swap' \subseteq Bloques
      <3>1. swap \subseteq Bloques
        BY DEF Tipo, TipoMarcos
      <3> QED BY <2>1, <3>1
    <2>3. TipoTabla'
      BY <2>1 DEF AsignarSwap, Tipo, TipoTabla
    <2>4. TipoMarcos'
      BY <2>2 DEF AsignarSwap, marcoVars, usoVars, Tipo, TipoMarcos
    <2>5. TipoHilos'
      BY <2>1, KernelLibreTipo, KernelTipo DEF AsignarSwap
    <2> QED BY <2>3, <2>4, <2>5, TipoIgual DEF AsignarSwap, Tipo
  <1> QED BY <1>1, <1>2, AsignaEs

LEMMA FinalizarProcesoTipo ==
  ASSUME Tipo, FinalizarProceso
  PROVE  Tipo'
  <1>1. kernel' \in Kernels /\ pedidos' \in Seq(Mensajes)
    BY AtenderEs DEF FinalizarProceso, PasosFin
  <1>2. swap' \subseteq Bloques
    <2>1. swap' \subseteq swap
      BY DEF FinalizarProceso
    <2> QED BY <2>1 DEF Tipo, TipoMarcos
  <1>3. TipoMarcos'
    BY <1>2 DEF FinalizarProceso, marcoVars, usoVars, Tipo, TipoMarcos
  <1>4. TipoProcesos'
    BY <1>1 DEF FinalizarProceso, procesoVars, Tipo, TipoProcesos
  <1>5. TipoHilos'
    BY <1>1, KernelTipo DEF FinalizarProceso
  <1> QED BY <1>3, <1>4, <1>5, TipoIgual DEF FinalizarProceso, Tipo

\* The thread goes to another step with what it has.
LEMMA PasoTipo ==
  ASSUME Tipo, NEW paso \in {"recibir"} \cup PasosIni \cup PasosPf \cup PasosFin,
         kernel' = [kernel EXCEPT !.paso = paso]
  PROVE  kernel' \in Kernels
  BY DEF Tipo, TipoHilos, Kernels

LEMMA LiberarMarcosTipo ==
  ASSUME Tipo, LiberarMarcos
  PROVE  Tipo'
  <1>1. kernel' \in Kernels
    BY PasoTipo DEF LiberarMarcos, PasosFin
  <1>2. TipoTabla'
    BY RemoveFirstTipo DEF LiberarMarcos, Tipo, TipoTabla
  <1>3. TipoMarcos'
    BY DEF LiberarMarcos, usoVars, swapVars, Tipo, TipoMarcos
  <1> QED BY <1>1, <1>2, <1>3, KernelTipo, TipoIgual DEF LiberarMarcos, Tipo

LEMMA LimpiarFifoTipo ==
  ASSUME Tipo, LimpiarFifo
  PROVE  Tipo'
  <1>1. kernel' \in Kernels
    BY PasoTipo DEF LimpiarFifo, PasosFin
  <1>2. paginas_utilizadas' \in Seq(Paginas)
    <2>1. paginas_utilizadas \in Seq(Paginas)
      BY DEF Tipo, TipoMarcos
    <2> QED BY <2>1, SinPaginasTipo DEF LimpiarFifo, Filtrada
  <1>3. TipoMarcos'
    BY <1>2 DEF LimpiarFifo, marcoVars, swapVars, Tipo, TipoMarcos
  <1> QED BY <1>1, <1>3, KernelTipo, TipoIgual DEF LimpiarFifo, Tipo

LEMMA LiberarTablaTipo ==
  ASSUME Tipo, LiberarTabla
  PROVE  Tipo'
  <1>1. TipoTabla'
    <2>1. cantidad_paginas' \in [Procs -> 0 .. MaxPaginas]
      <3>1. MaxPaginas \in Nat
        BY MaxPaginasEs
      <3>2. 0 \in 0 .. MaxPaginas
        BY <3>1
      <3> QED BY <3>2 DEF LiberarTabla, Tipo, TipoTabla
    <2>2. entradas_tabla' \in [Procs -> [Indices -> Entradas]]
      BY EntradaNuevaTipo DEF LiberarTabla, Tipo, TipoTabla
    <2> QED BY <2>1, <2>2 DEF LiberarTabla, Tipo, TipoTabla
  <1>2. TipoHilos'
    BY KernelLibreTipo DEF LiberarTabla, Tipo, TipoHilos
  <1> QED BY <1>1, <1>2, TipoIgual DEF LiberarTabla, Tipo

\* The page that gets a frame, and all the others.
LEMMA UbicarEs ==
  ASSUME TipoTabla, TipoMarcos, NEW w \in Paginas, NEW m \in Marcos, Ubicar(w, m)
  PROVE  /\ entradas_tabla' \in [Procs -> [Indices -> Entradas]]
         /\ marcos' \in [Marcos -> Procs \cup {Nada}]
         /\ \A k \in Marcos : marcos'[k] = IF k = m THEN w[1] ELSE marcos[k]
         /\ Entrada(w)'.marco = m /\ Entrada(w)'.presencia
         /\ Entrada(w)'.bloque = Entrada(w).bloque
         /\ \A v \in Paginas : v # w => Entrada(v)' = Entrada(v)
  <1> DEFINE e == [Entrada(w) EXCEPT !.marco = m, !.presencia = TRUE, !.modificado = FALSE]
  <1>1. Entrada(w) \in Entradas
    BY EntradaTipo
  <1>2. e \in Entradas /\ e.marco = m /\ e.presencia /\ e.bloque = Entrada(w).bloque
    BY <1>1 DEF Entradas
  <1>3. entradas_tabla' = [entradas_tabla EXCEPT ![w[1]][w[2]] = e]
    BY DEF Ubicar, Entrada
  <1> HIDE DEF e
  <1>4. /\ entradas_tabla' \in [Procs -> [Indices -> Entradas]]
        /\ \A v \in Paginas : Entrada(v)' = IF v = w THEN e ELSE Entrada(v)
    BY <1>2, <1>3, TablaPone
  <1>5. w[1] \in Procs
    BY PaginaPar
  <1>6. /\ marcos' \in [Marcos -> Procs \cup {Nada}]
        /\ \A k \in Marcos : marcos'[k] = IF k = m THEN w[1] ELSE marcos[k]
    BY <1>5 DEF Ubicar, TipoMarcos
  <1> QED BY <1>2, <1>4, <1>6

\* The page fault that was received, and the first free frame.
LEMMA PageFaultEs ==
  ASSUME Tipo, Lugar, Recibe("PAGE_FAULT_KERNEL")
  PROVE  /\ Falla(Head(pedidos).pid, Head(pedidos).arg) /\ Head(pedidos) \in Mensajes
         /\ <<Head(pedidos).pid, Head(pedidos).arg>> \in Paginas
         /\ MarcosLibres # {} => Min(MarcosLibres) \in MarcosLibres
         /\ MarcosLibres \subseteq Marcos
  <1>1. Head(pedidos) \in Mensajes /\ Head(pedidos) = pedidos[1] /\ 1 \in DOMAIN pedidos
    BY ColaMengua DEF Recibe, Tipo, TipoProcesos
  <1>2. Bien(Head(pedidos)) /\ Head(pedidos).codigo = "PAGE_FAULT_KERNEL"
    BY <1>1 DEF Recibe, Lugar, Mensajeria
  <1>3. Falla(Head(pedidos).pid, Head(pedidos).arg)
    BY <1>2 DEF Bien
  <1>4. Head(pedidos).pid \in Procs /\ Head(pedidos).arg \in Indices
    BY <1>1, <1>3 DEF Mensajes, Falla
  <1>5. MarcosLibres \in SUBSET Nat /\ MarcosLibres \subseteq Marcos
    BY DEF MarcosLibres, Marcos
  <1>6. MarcosLibres # {} => Min(MarcosLibres) \in MarcosLibres
    BY <1>5, MaxMin
  <1> QED BY <1>1, <1>3, <1>4, <1>5, <1>6 DEF Paginas

LEMMA PageFaultConMarcoTipo ==
  ASSUME Tipo, Lugar, PageFaultConMarco
  PROVE  Tipo'
  <1> DEFINE w == <<Head(pedidos).pid, Head(pedidos).arg>>
             m == Min(MarcosLibres)
  <1>1. kernel' \in Kernels /\ pedidos' \in Seq(Mensajes)
    BY AtenderEs DEF PageFaultConMarco, PasosPf
  <1>2. w \in Paginas /\ m \in Marcos /\ Ubicar(w, m)
    BY PageFaultEs DEF PageFaultConMarco
  <1> HIDE DEF w, m
  <1>3. /\ entradas_tabla' \in [Procs -> [Indices -> Entradas]]
        /\ marcos' \in [Marcos -> Procs \cup {Nada}]
    BY <1>2, UbicarEs DEF Tipo
  <1>4. TipoTabla'
    BY <1>3 DEF PageFaultConMarco, Tipo, TipoTabla
  <1>5. TipoMarcos'
    BY <1>3 DEF PageFaultConMarco, usoVars, swapVars, Tipo, TipoMarcos
  <1>6. TipoProcesos'
    BY <1>1 DEF PageFaultConMarco, procesoVars, Tipo, TipoProcesos
  <1> QED BY <1>1, <1>4, <1>5, <1>6, KernelTipo DEF PageFaultConMarco, Tipo

LEMMA PageFaultSinMarcoTipo ==
  ASSUME Tipo, PageFaultSinMarco
  PROVE  Tipo'
  <1>1. kernel' \in Kernels /\ pedidos' \in Seq(Mensajes)
    BY AtenderEs DEF PageFaultSinMarco, PasosPf
  <1>2. TipoProcesos'
    BY <1>1 DEF PageFaultSinMarco, procesoVars, Tipo, TipoProcesos
  <1> QED BY <1>1, <1>2, KernelTipo, TipoIgual DEF PageFaultSinMarco, Tipo

\* The thread with its victim.
LEMMA ConVictimaTipo ==
  ASSUME Tipo, NEW v \in Paginas
  PROVE  /\ ConVictima(v) \in Kernels /\ ConVictima(v).paso = "probar"
         /\ ConVictima(v).pid = kernel.pid /\ ConVictima(v).arg = kernel.arg
         /\ ConVictima(v).victima = v /\ ConVictima(v).marco = Entrada(v).marco
  <1> DEFINE m == Entrada(v).marco
  <1>1. m \in Marcos \cup {Nada}
    BY EntradaTipo DEF Tipo, Entradas
  <1>2. ConVictima(v) = [kernel EXCEPT !.paso = "probar", !.victima = v, !.marco = m]
    BY DEF ConVictima
  <1> HIDE DEF m
  <1>3. kernel \in Kernels
    BY DEF Tipo, TipoHilos
  <1> QED BY <1>1, <1>2, <1>3 DEF Kernels, PasosPf, m

\* The victim, of either algorithm, is a page, and nothing but the thread and the list
\* changes.
LEMMA ElegirEs ==
  ASSUME Tipo, ElegirLru \/ ElegirFifo
  PROVE  \E v \in Paginas :
           /\ kernel' = ConVictima(v) /\ kernel.paso = "elegir"
           /\ \/ v \in Presentes /\ UNCHANGED paginas_utilizadas
              \/ /\ paginas_utilizadas # <<>> /\ paginas_utilizadas' = Tail(paginas_utilizadas)
                 /\ v = Head(paginas_utilizadas) /\ Entrada(v).marco # Nada
  <1>1. CASE ElegirLru
    <2>1. PICK v \in MenosUsadas : kernel' = ConVictima(v)
      BY <1>1 DEF ElegirLru
    <2>2. v \in Presentes /\ v \in Paginas
      BY DEF MenosUsadas, Presentes
    <2> QED BY <1>1, <2>1, <2>2 DEF ElegirLru, usoVars
  <1>2. CASE ElegirFifo
    <2>1. Head(paginas_utilizadas) \in Paginas
      BY <1>2, ColaMengua DEF ElegirFifo, Tipo, TipoMarcos
    <2> QED BY <1>2, <2>1 DEF ElegirFifo
  <1> QED BY <1>1, <1>2

LEMMA ElegirTipo ==
  ASSUME Tipo, ElegirLru \/ ElegirFifo
  PROVE  Tipo'
  <1>1. PICK v \in Paginas :
           /\ kernel' = ConVictima(v)
           /\ \/ UNCHANGED paginas_utilizadas
              \/ paginas_utilizadas # <<>> /\ paginas_utilizadas' = Tail(paginas_utilizadas)
    BY ElegirEs
  <1>2. kernel' \in Kernels
    BY <1>1, ConVictimaTipo
  <1>3. paginas_utilizadas' \in Seq(Paginas)
    BY <1>1, ColaMengua DEF Tipo, TipoMarcos
  <1>4. /\ UNCHANGED <<algoritmo_pags, tablaVars, marcoVars, contador_lru, swapVars, procesoVars>>
        /\ UNCHANGED <<pedidos, cpu, fs, caido>>
    BY DEF ElegirLru, ElegirFifo, usoVars
  <1>5. TipoMarcos'
    BY <1>3, <1>4 DEF marcoVars, swapVars, Tipo, TipoMarcos
  <1> QED BY <1>2, <1>4, <1>5, KernelTipo, TipoIgual DEF Tipo

LEMMA ElegirNadieTipo ==
  ASSUME Tipo, ElegirNadie
  PROVE  Tipo'
  <1>1. TipoHilos'
    BY DEF ElegirNadie, Tipo, TipoHilos
  <1> QED BY <1>1, TipoIgual DEF ElegirNadie, Tipo

LEMMA ProbarModificadoTipo ==
  ASSUME Tipo, ProbarModificado
  PROVE  Tipo'
  <1>1. kernel' \in Kernels
    BY PasoTipo DEF ProbarModificado, PasosPf
  <1> QED BY <1>1, KernelTipo, TipoIgual DEF ProbarModificado, Tipo

\* The frame of the victim is one.
LEMMA VictimaEs ==
  ASSUME Tipo, Lugar, ConMarcos, kernel.paso \in {"probar", "swap_out", "desalojar"}
  PROVE  /\ kernel.victima \in Presentes /\ kernel.victima \in Paginas
         /\ kernel.marco = Entrada(kernel.victima).marco /\ kernel.marco \in Marcos
  <1>1. kernel.victima \in Presentes /\ kernel.marco = Entrada(kernel.victima).marco
    BY DEF ConMarcos, EnTransito
  <1>2. kernel.victima \in Paginas /\ Entrada(kernel.victima).presencia
    BY <1>1 DEF Presentes
  <1>3. Entrada(kernel.victima).marco # Nada
    BY <1>2 DEF Lugar, Tablas
  <1>4. Entrada(kernel.victima).marco \in Marcos \cup {Nada}
    BY <1>2, EntradaTipo DEF Tipo, Entradas
  <1> QED BY <1>1, <1>2, <1>3, <1>4

LEMMA SwapOutTipo ==
  ASSUME Tipo, Lugar, ConMarcos, SwapOut
  PROVE  Tipo'
  <1>1. kernel' \in Kernels
    BY PasoTipo DEF SwapOut, PasosPf
  <1>2. memoria_usuario[kernel.marco] \in Palabras
    BY VictimaEs DEF SwapOut, Tipo, TipoMarcos
  <1> DEFINE x == memoria_usuario[kernel.marco]
             b == Entrada(kernel.victima).bloque
  <1>3. bloques' = [bloques EXCEPT ![b] = x]
    BY DEF SwapOut
  <1> HIDE DEF x, b
  <1>4. bloques' \in [Bloques -> Palabras]
    BY <1>2, <1>3 DEF Tipo, TipoMarcos, x
  <1>5. TipoMarcos'
    BY <1>4 DEF SwapOut, marcoVars, usoVars, Tipo, TipoMarcos
  <1> QED BY <1>1, <1>5, KernelTipo, TipoIgual DEF SwapOut, Tipo

\* The victim leaves its frame; the others keep theirs.
LEMMA DesalojarEs ==
  ASSUME Tipo, Desalojar, NEW w \in Paginas, w = kernel.victima
  PROVE  /\ entradas_tabla' \in [Procs -> [Indices -> Entradas]]
         /\ Entrada(w)'.marco = Nada /\ ~Entrada(w)'.presencia
         /\ Entrada(w)'.bloque = Entrada(w).bloque
         /\ \A v \in Paginas : v # w => Entrada(v)' = Entrada(v)
         /\ kernel' \in Kernels /\ kernel'.paso = "ocupar" /\ kernel'.pid = kernel.pid
         /\ kernel'.arg = kernel.arg /\ kernel'.marco = kernel.marco
  <1> DEFINE e == [Entrada(w) EXCEPT !.marco = Nada, !.presencia = FALSE, !.modificado = FALSE]
  <1>1. Entrada(w) \in Entradas
    BY EntradaTipo DEF Tipo
  <1>2. e \in Entradas /\ e.marco = Nada /\ ~e.presencia /\ e.bloque = Entrada(w).bloque
    BY <1>1 DEF Entradas
  <1>3. entradas_tabla' = [entradas_tabla EXCEPT ![w[1]][w[2]] = e]
    BY DEF Desalojar, Entrada
  <1> HIDE DEF e
  <1>4. /\ entradas_tabla' \in [Procs -> [Indices -> Entradas]]
        /\ \A v \in Paginas : Entrada(v)' = IF v = w THEN e ELSE Entrada(v)
    BY <1>2, <1>3, TablaPone DEF Tipo
  <1>5. /\ kernel' \in Kernels /\ kernel'.paso = "ocupar" /\ kernel'.pid = kernel.pid
        /\ kernel'.arg = kernel.arg /\ kernel'.marco = kernel.marco
    BY DEF Desalojar, Tipo, TipoHilos, Kernels, PasosPf
  <1> QED BY <1>2, <1>4, <1>5

LEMMA DesalojarTipo ==
  ASSUME Tipo, Lugar, ConMarcos, Desalojar
  PROVE  Tipo'
  <1>1. kernel.victima \in Paginas
    BY VictimaEs DEF Desalojar
  <1>2. kernel' \in Kernels /\ entradas_tabla' \in [Procs -> [Indices -> Entradas]]
    BY <1>1, DesalojarEs
  <1>3. TipoTabla'
    BY <1>2 DEF Desalojar, Tipo, TipoTabla
  <1> QED BY <1>2, <1>3, KernelTipo, TipoIgual DEF Desalojar, Tipo

\* The page the thread is serving.
LEMMA ServidaEs ==
  ASSUME Tipo, Lugar, kernel.paso \in PasosPf
  PROVE  /\ kernel.pid \in Procs /\ kernel.arg \in Indices /\ Existe(kernel.pid)
         /\ <<kernel.pid, kernel.arg>> \in Paginas /\ EnTabla(<<kernel.pid, kernel.arg>>)
         /\ estado[kernel.pid] = "bloqueado" /\ repite[kernel.pid] = kernel.arg
         /\ kernel.paso = "cargar" <=> Entrada(<<kernel.pid, kernel.arg>>).presencia
  <1>1. kernel.pid \in Procs
    BY DEF Lugar, Servicio, PasosPf
  <1>2. /\ kernel.arg \in Indices /\ Existe(kernel.pid) /\ kernel.arg < cantidad_paginas[kernel.pid]
        /\ estado[kernel.pid] = "bloqueado" /\ repite[kernel.pid] = kernel.arg
        /\ kernel.paso = "cargar" <=> Entrada(<<kernel.pid, kernel.arg>>).presencia
    BY DEF Lugar, Servicio, Falla
  <1> QED BY <1>1, <1>2 DEF Paginas, EnTabla

LEMMA OcuparTipo ==
  ASSUME Tipo, Lugar, ConMarcos, Ocupar
  PROVE  Tipo'
  <1> DEFINE w == <<kernel.pid, kernel.arg>>
  <1>1. kernel' \in Kernels
    BY PasoTipo DEF Ocupar, PasosPf
  <1>2. w \in Paginas /\ kernel.marco \in Marcos /\ Ubicar(w, kernel.marco)
    BY ServidaEs DEF Ocupar, PasosPf, ConMarcos, EnTransito
  <1> HIDE DEF w
  <1>3. /\ entradas_tabla' \in [Procs -> [Indices -> Entradas]]
        /\ marcos' \in [Marcos -> Procs \cup {Nada}]
    BY <1>2, UbicarEs DEF Tipo
  <1>4. TipoTabla'
    BY <1>3 DEF Ocupar, Tipo, TipoTabla
  <1>5. TipoMarcos'
    BY <1>3 DEF Ocupar, usoVars, swapVars, Tipo, TipoMarcos
  <1> QED BY <1>1, <1>4, <1>5, KernelTipo, TipoIgual DEF Ocupar, Tipo

LEMMA CargarTipo ==
  ASSUME Tipo, Lugar, ConBloques, Cargar
  PROVE  Tipo'
  <1> DEFINE w == <<kernel.pid, kernel.arg>>
             e == Entrada(w)
  <1>1. w \in Paginas /\ Existe(w[1]) /\ EnTabla(w) /\ kernel.pid \in Procs
    BY ServidaEs DEF Cargar, PasosPf
  <1>2. w \in ConBloque
    BY <1>1 DEF ConBloque, Cargar
  <1>3. e.bloque \in Bloques
    <2> HIDE DEF w
    <2>1. e.bloque \in swap
      BY <1>2 DEF ConBloques
    <2> QED BY <2>1 DEF Tipo, TipoMarcos
  <1>4. PICK x \in {bloques[e.bloque], Basura} :
          memoria_usuario' = [memoria_usuario EXCEPT ![e.marco] = x]
    BY DEF Cargar
  <1> HIDE DEF e, w
  <1>5. x \in Palabras
    BY <1>3 DEF Palabras, Tipo, TipoMarcos
  <1>6. TipoMarcos'
    BY <1>4, <1>5 DEF Cargar, usoVars, swapVars, Tipo, TipoMarcos
  <1>7. TipoProcesos'
    BY <1>1 DEF Cargar, Tipo, TipoProcesos
  <1>8. TipoHilos'
    BY KernelLibreTipo, KernelTipo DEF Cargar
  <1> QED BY <1>6, <1>7, <1>8, TipoIgual DEF Cargar, Tipo

LEMMA PasoTodoTipo ==
  ASSUME IInv, [Next]_vars
  PROVE  Tipo'
  <1> USE DEF IInv
  <1>1. CASE UNCHANGED vars
    BY <1>1, TipoIgual DEF vars, Tipo
  <1>2. CASE Programas \/ HiloCpu \/ HiloFs
    BY <1>2, OtrosTipo
  <1>3. CASE HiloKernel
    BY <1>3, InicializarProcesoTipo, CrearTablaTipo, AsignarSwapTipo, FinalizarProcesoTipo,
       LiberarMarcosTipo, LimpiarFifoTipo, LiberarTablaTipo, PageFaultConMarcoTipo,
       PageFaultSinMarcoTipo, ElegirTipo, ElegirNadieTipo, ProbarModificadoTipo, SwapOutTipo,
       DesalojarTipo, OcuparTipo, CargarTipo DEF HiloKernel
  <1> QED BY <1>1, <1>2, <1>3 DEF Next

-----------------------------------------------------------------------------
(* What each process waits for: the messages *)

\* The processes with a message on its way.
ConMensaje == {m.pid : m \in por_enviar} \cup {pedidos[i].pid : i \in DOMAIN pedidos}

\* The step leaves true what the messages about q say.
Conserva(q) ==
  /\ \A m \in Mensajes : m.pid = q /\ Bien(m) => Bien(m)'
  /\ NoAtiende(q) => NoAtiende(q)'

\* The messages about p stay true if nothing they speak of changes.
Quieto(p) ==
  /\ estado'[p] = estado[p] /\ repite'[p] = repite[p]
  /\ Existe(p)' <=> Existe(p)
  /\ cantidad_paginas'[p] = cantidad_paginas[p]
  /\ \A i \in Indices : Entrada(<<p, i>>)'.presencia => Entrada(<<p, i>>).presencia

LEMMA QuietoConserva ==
  ASSUME NEW p, Quieto(p), NoAtiende(p) => NoAtiende(p)'
  PROVE  Conserva(p)
  <1> SUFFICES ASSUME NEW m \in Mensajes, m.pid = p, Bien(m) PROVE Bien(m)'
    BY DEF Conserva
  <1>1. m.codigo = "PAGE_FAULT_KERNEL" => Falla(m.pid, m.arg)'
    <2> SUFFICES ASSUME Falla(m.pid, m.arg) PROVE Falla(m.pid, m.arg)'
      BY DEF Bien
    <2>1. m.arg \in Indices
      BY DEF Falla
    <2>2. ~Entrada(<<m.pid, m.arg>>)'.presencia
      BY <2>1 DEF Falla, Quieto
    <2> QED BY <2>1, <2>2 DEF Falla, Quieto
  <1> QED BY <1>1 DEF Bien, Quieto

LEMMA MensajesTipo ==
  ASSUME Tipo
  PROVE  /\ \A m \in por_enviar : m \in Mensajes
         /\ \A i \in DOMAIN pedidos : pedidos[i] \in Mensajes
         /\ \A m \in Mensajes : m.pid \in Procs
         /\ pedidos \in Seq(Mensajes) /\ ConMensaje \subseteq Procs
  <1>1. por_enviar \subseteq Mensajes /\ pedidos \in Seq(Mensajes)
    BY DEF Tipo, TipoProcesos
  <1>2. \A i \in DOMAIN pedidos : pedidos[i] \in Mensajes
    BY <1>1
  <1>3. \A m \in Mensajes : m.pid \in Procs
    BY DEF Mensajes
  <1> QED BY <1>1, <1>2, <1>3 DEF ConMensaje

LEMMA MensajeriaIgual ==
  ASSUME Tipo, Mensajeria, UNCHANGED <<por_enviar, pedidos>>, \A q \in ConMensaje : Conserva(q)
  PROVE  Mensajeria'
  <1>1. \A m \in por_enviar : m \in Mensajes /\ Conserva(m.pid)
    BY MensajesTipo DEF ConMensaje
  <1>2. \A i \in DOMAIN pedidos : pedidos[i] \in Mensajes /\ pedidos[i].pid \in ConMensaje
    BY MensajesTipo DEF ConMensaje
  <1>3. ASSUME NEW m \in Mensajes, Conserva(m.pid), Bien(m), NoAtiende(m.pid)
        PROVE  Bien(m)' /\ NoAtiende(m.pid)'
    BY <1>3 DEF Conserva
  <1>4. \A m \in por_enviar : Bien(m)' /\ m.codigo # "INICIALIZAR_PROCESO" /\ NoAtiende(m.pid)'
    BY <1>1, <1>3 DEF Mensajeria
  <1>5. ASSUME NEW i \in DOMAIN pedidos
        PROVE  Bien(pedidos[i])' /\ NoAtiende(pedidos[i].pid)'
    <2>1. PICK m \in Mensajes : m = pedidos[i]
      BY <1>2
    <2>2. Bien(m) /\ NoAtiende(m.pid) /\ m.pid \in ConMensaje
      BY <1>2, <2>1 DEF Mensajeria
    <2>3. Bien(m)' /\ NoAtiende(m.pid)'
      BY <1>3, <2>2
    <2>4. pedidos'[i] = m
      BY <2>1
    <2> QED BY <2>3, <2>4
  <1> QED BY <1>4, <1>5 DEF Mensajeria

\* A new message in por_enviar.
LEMMA MensajeriaEnvia ==
  ASSUME Tipo, Mensajeria, NEW n \in Mensajes, n.pid \notin ConMensaje,
         por_enviar' = por_enviar \cup {n}, UNCHANGED pedidos,
         \A q \in ConMensaje : Conserva(q),
         Bien(n)', NoAtiende(n.pid)', n.codigo # "INICIALIZAR_PROCESO"
  PROVE  Mensajeria'
  <1>1. \A m \in por_enviar : m \in Mensajes /\ Conserva(m.pid) /\ m.pid # n.pid
    BY MensajesTipo DEF ConMensaje
  <1>2. \A i \in DOMAIN pedidos :
          pedidos[i] \in Mensajes /\ pedidos[i].pid \in ConMensaje /\ pedidos[i].pid # n.pid
    BY MensajesTipo DEF ConMensaje
  <1>3. ASSUME NEW m \in Mensajes, Conserva(m.pid), Bien(m), NoAtiende(m.pid)
        PROVE  Bien(m)' /\ NoAtiende(m.pid)'
    BY <1>3 DEF Conserva
  <1>4. \A m \in por_enviar' : Bien(m)' /\ m.codigo # "INICIALIZAR_PROCESO" /\ NoAtiende(m.pid)'
    BY <1>1, <1>3 DEF Mensajeria
  <1>5. ASSUME NEW i \in DOMAIN pedidos
        PROVE  Bien(pedidos[i])' /\ NoAtiende(pedidos[i].pid)'
    <2>1. PICK m \in Mensajes : m = pedidos[i]
      BY <1>2
    <2>2. Bien(m) /\ NoAtiende(m.pid) /\ m.pid \in ConMensaje
      BY <1>2, <2>1 DEF Mensajeria
    <2>3. Bien(m)' /\ NoAtiende(m.pid)'
      BY <1>3, <2>2
    <2>4. pedidos'[i] = m
      BY <2>1
    <2> QED BY <2>3, <2>4
  <1>6. \A m, k \in por_enviar' : m.pid = k.pid => m = k
    BY <1>1 DEF Mensajeria
  <1>7. \A m \in por_enviar', i \in DOMAIN pedidos' : m.pid # pedidos'[i].pid
    BY <1>2 DEF Mensajeria
  <1> QED BY <1>4, <1>5, <1>6, <1>7 DEF Mensajeria

\* A message enters the kernel's queue, and leaves por_enviar if it was there.
LEMMA MensajeriaEncola ==
  ASSUME Tipo, Mensajeria, NEW n \in Mensajes,
         por_enviar' = por_enviar \ {n}, n \in por_enviar \/ n.pid \notin ConMensaje,
         pedidos' = Append(pedidos, n),
         \A q \in ConMensaje : Conserva(q), Bien(n)', NoAtiende(n.pid)'
  PROVE  Mensajeria'
  <1>1. \A m \in por_enviar : m \in Mensajes /\ Conserva(m.pid)
    BY MensajesTipo DEF ConMensaje
  <1>2. \A i \in DOMAIN pedidos : pedidos[i] \in Mensajes /\ pedidos[i].pid \in ConMensaje
    BY MensajesTipo DEF ConMensaje
  <1>3. ASSUME NEW m \in Mensajes, Conserva(m.pid), Bien(m), NoAtiende(m.pid)
        PROVE  Bien(m)' /\ NoAtiende(m.pid)'
    BY <1>3 DEF Conserva
  <1>4. \A m \in por_enviar' : Bien(m)' /\ m.codigo # "INICIALIZAR_PROCESO" /\ NoAtiende(m.pid)'
    BY <1>1, <1>3 DEF Mensajeria
  <1> DEFINE k == Len(pedidos) + 1
  <1>5. /\ DOMAIN pedidos' = DOMAIN pedidos \cup {k} /\ k \notin DOMAIN pedidos
        /\ \A i \in DOMAIN pedidos : pedidos'[i] = pedidos[i]
        /\ pedidos'[k] = n
    BY MensajesTipo, ColaCrece
  <1> HIDE DEF k
  <1>6. ASSUME NEW i \in DOMAIN pedidos'
        PROVE  Bien(pedidos[i])' /\ NoAtiende(pedidos[i].pid)'
    <2>1. CASE i = k
      BY <1>5, <2>1
    <2>2. CASE i \in DOMAIN pedidos
      <3>1. PICK m \in Mensajes : m = pedidos[i]
        BY <1>2, <2>2
      <3>2. Bien(m) /\ NoAtiende(m.pid) /\ m.pid \in ConMensaje
        BY <1>2, <2>2, <3>1 DEF Mensajeria
      <3>3. Bien(m)' /\ NoAtiende(m.pid)'
        BY <1>3, <3>2
      <3>4. pedidos'[i] = m
        BY <1>5, <2>2, <3>1
      <3> QED BY <3>3, <3>4
    <2> QED BY <1>5, <2>1, <2>2
  <1>7. \A m, j \in por_enviar' : m.pid = j.pid => m = j
    BY DEF Mensajeria
  <1>8. /\ \A m \in por_enviar' : m.pid # n.pid
        /\ \A i \in DOMAIN pedidos : pedidos[i].pid # n.pid
    BY DEF Mensajeria, ConMensaje
  <1>9. \A m \in por_enviar', i \in DOMAIN pedidos' : m.pid # pedidos'[i].pid
    BY <1>5, <1>8 DEF Mensajeria
  <1>10. \A i, j \in DOMAIN pedidos' : pedidos'[i].pid = pedidos'[j].pid => i = j
    BY <1>5, <1>8 DEF Mensajeria
  <1> QED BY <1>4, <1>6, <1>7, <1>9, <1>10 DEF Mensajeria

\* The kernel's thread takes the first message: nobody else speaks of its process.
LEMMA MensajeriaRecibe ==
  ASSUME Tipo, Mensajeria, NEW h, pedidos # <<>>, h = Head(pedidos).pid,
         pedidos' = Tail(pedidos), UNCHANGED por_enviar,
         \A q \in ConMensaje \ {h} : Conserva(q)
  PROVE  Mensajeria'
  <1>1. \A m \in por_enviar : m \in Mensajes /\ m.pid \in ConMensaje
    BY MensajesTipo DEF ConMensaje
  <1>2. \A i \in DOMAIN pedidos : pedidos[i] \in Mensajes /\ pedidos[i].pid \in ConMensaje
    BY MensajesTipo DEF ConMensaje
  <1>3. /\ Head(pedidos) = pedidos[1] /\ 1 \in DOMAIN pedidos
        /\ \A i \in DOMAIN pedidos' :
             i + 1 \in DOMAIN pedidos /\ i + 1 # 1 /\ pedidos'[i] = pedidos[i + 1]
    BY MensajesTipo, ColaMengua
  <1>4. ASSUME NEW m \in Mensajes, m.pid \in ConMensaje, m.pid # h, Bien(m), NoAtiende(m.pid)
        PROVE  Bien(m)' /\ NoAtiende(m.pid)'
    BY <1>4 DEF Conserva
  <1>5. \A m \in por_enviar : m.pid # h
    BY <1>3 DEF Mensajeria
  <1>6. \A m \in por_enviar : Bien(m)' /\ m.codigo # "INICIALIZAR_PROCESO" /\ NoAtiende(m.pid)'
    BY <1>1, <1>4, <1>5 DEF Mensajeria
  <1>7. ASSUME NEW i \in DOMAIN pedidos'
        PROVE  Bien(pedidos[i])' /\ NoAtiende(pedidos[i].pid)'
    <2>1. PICK m \in Mensajes : m = pedidos[i + 1]
      BY <1>2, <1>3
    <2>2. m.pid # h
      BY <1>3, <2>1 DEF Mensajeria
    <2>3. Bien(m) /\ NoAtiende(m.pid) /\ m.pid \in ConMensaje
      BY <1>2, <1>3, <2>1 DEF Mensajeria
    <2>4. Bien(m)' /\ NoAtiende(m.pid)'
      BY <1>4, <2>2, <2>3
    <2>5. pedidos'[i] = m
      BY <1>3, <2>1
    <2> QED BY <2>4, <2>5
  <1>8. \A m \in por_enviar', i \in DOMAIN pedidos' : m.pid # pedidos'[i].pid
    BY <1>3 DEF Mensajeria
  <1>9. \A i, j \in DOMAIN pedidos' : pedidos'[i].pid = pedidos'[j].pid => i = j
    <2> SUFFICES ASSUME NEW i \in DOMAIN pedidos', NEW j \in DOMAIN pedidos',
                        pedidos'[i].pid = pedidos'[j].pid
                 PROVE  i = j
      OBVIOUS
    <2>1. i + 1 = j + 1
      BY <1>3 DEF Mensajeria
    <2>2. DOMAIN pedidos' \subseteq Int
      <3>1. pedidos' \in Seq(Mensajes)
        BY MensajesTipo, ColaMengua
      <3> QED BY <3>1
    <2> QED BY <2>1, <2>2
  <1>10. \A m, k \in por_enviar' : m.pid = k.pid => m = k
    BY DEF Mensajeria
  <1> QED BY <1>6, <1>7, <1>8, <1>9, <1>10 DEF Mensajeria

-----------------------------------------------------------------------------
(* What each process waits for: the programs, the CPU's thread and filesystem's *)

\* No message speaks of p and the kernel's thread is not at work for it, but to start it.
Suelto(p) == p \notin ConMensaje /\ NoAtiende(p)

LEMMA SueltoSi ==
  ASSUME Tipo, Lugar, NEW p \in Procs,
         estado[p] = "no" \/ (estado[p] = "listo" /\ Existe(p)) \/ EsperaArchivo(p)
  PROVE  Suelto(p)
  <1>1. ASSUME NEW m \in Mensajes, m.pid = p, Bien(m) PROVE FALSE
    <2>1. m.codigo \in Codigos
      BY DEF Mensajes
    <2>2. CASE m.codigo = "INICIALIZAR_PROCESO"
      BY <1>1, <2>2 DEF Bien, EsperaArchivo
    <2>3. CASE m.codigo = "PAGE_FAULT_KERNEL"
      BY <1>1, <2>3, NadaFuera DEF Bien, Falla, EsperaArchivo
    <2>4. CASE m.codigo = "FINALIZAR_PROCESO"
      BY <1>1, <2>4 DEF Bien, EsperaArchivo
    <2> QED BY <2>1, <2>2, <2>3, <2>4 DEF Codigos
  <1>2. p \notin ConMensaje
    <2>1. \A m \in por_enviar : m \in Mensajes /\ Bien(m)
      BY MensajesTipo DEF Lugar, Mensajeria
    <2>2. \A i \in DOMAIN pedidos : pedidos[i] \in Mensajes /\ Bien(pedidos[i])
      BY MensajesTipo DEF Lugar, Mensajeria
    <2> QED BY <1>1, <2>1, <2>2 DEF ConMensaje
  <1>3. NoAtiende(p)
    <2>1. ASSUME kernel.paso \in PasosPf, kernel.pid = p PROVE FALSE
      <3>1. estado[p] = "bloqueado" /\ repite[p] \in Indices
        BY <2>1, ServidaEs
      <3> QED BY <3>1, NadaFuera DEF EsperaArchivo
    <2>2. ASSUME kernel.paso \in PasosFin, kernel.pid = p PROVE FALSE
      BY <2>2 DEF Lugar, Servicio, EsperaArchivo
    <2> QED BY <2>1, <2>2 DEF NoAtiende
  <1> QED BY <1>2, <1>3 DEF Suelto

\* Only processes nobody speaks of change their state or the page they repeat.
SoloSueltos ==
  \A q \in Procs :
    /\ Suelto(q) \/ (estado'[q] = estado[q] /\ repite'[q] = repite[q])
    /\ estado'[q] = "no" => estado[q] = "no"

\* What those threads leave true.
LEMMA OtrosLugar ==
  ASSUME Tipo, Lugar, Quietas, SoloSueltos
  PROVE  /\ Servicio' /\ Tablas' /\ \A q \in ConMensaje : Conserva(q)
         /\ \A q : NoAtiende(q)' <=> NoAtiende(q)
         /\ \A q : Existe(q)' <=> Existe(q)
         /\ cantidad_paginas' = cantidad_paginas
  <1> USE DEF Lugar
  <1>1. /\ \A q : NoAtiende(q)' <=> NoAtiende(q)
        /\ \A q : Existe(q)' <=> Existe(q)
        /\ cantidad_paginas' = cantidad_paginas /\ kernel' = kernel
        /\ procesos_totales' = procesos_totales
    BY DEF Quietas, NoAtiende, Existe
  <1>2. ASSUME NEW q \in ConMensaje PROVE Conserva(q)
    <2>1. q \in Procs /\ ~Suelto(q)
      BY MensajesTipo DEF Suelto
    <2>2. \A i \in Indices : <<q, i>> \in Paginas
      BY <2>1 DEF Paginas
    <2>3. Quieto(q)
      BY <1>1, <2>1, <2>2 DEF Quieto, SoloSueltos, Quietas
    <2> QED BY <1>1, <2>3, QuietoConserva
  <1>3. Tablas'
    <2>1. \A q \in Procs : estado'[q] = "no" => estado[q] = "no"
      BY DEF SoloSueltos
    <2>2. \A v \in Paginas : EnTabla(v)' <=> EnTabla(v)
      BY <1>1 DEF EnTabla
    <2>3. \A v \in Paginas : Entrada(v)'.presencia <=> Entrada(v)'.marco # Nada
      BY DEF Tablas, Quietas
    <2>4. \A v \in Paginas : Entrada(v)'.presencia => Entrada(v).presencia
      BY DEF Quietas
    <2> QED BY <1>1, <2>1, <2>2, <2>3, <2>4 DEF Tablas
  <1>4. Servicio'
    <2> DEFINE k == kernel.pid
    <2>1. CASE kernel.paso = "recibir"
      BY <1>1, <2>1 DEF Servicio, PasosIni, PasosPf, PasosFin
    <2>2. CASE kernel.paso \in PasosIni
      <3>1. k \in Procs /\ estado[k] # "no" /\ Existe(k)
        BY <2>2 DEF Servicio, PasosIni
      <3>2. estado'[k] # "no"
        BY <3>1 DEF SoloSueltos
      <3>3. \A i \in Indices : ~Entrada(<<k, i>>)'.presencia
        <4>1. \A i \in Indices : <<k, i>> \in Paginas /\ ~Entrada(<<k, i>>).presencia
          BY <2>2, <3>1 DEF Servicio, Paginas
        <4> QED BY <4>1 DEF Quietas
      <3> QED BY <1>1, <2>2, <3>1, <3>2, <3>3 DEF Servicio, PasosIni, PasosPf, PasosFin
    <2>3. CASE kernel.paso \in PasosPf
      <3>1. /\ k \in Procs /\ kernel.arg \in Indices /\ Existe(k)
            /\ <<k, kernel.arg>> \in Paginas /\ kernel.arg < cantidad_paginas[k]
            /\ estado[k] = "bloqueado" /\ repite[k] = kernel.arg
            /\ kernel.paso = "cargar" <=> Entrada(<<k, kernel.arg>>).presencia
        BY <2>3, ServidaEs DEF EnTabla
      <3>2. ~Suelto(k)
        BY <2>3 DEF Suelto, NoAtiende
      <3>3. estado'[k] = "bloqueado" /\ repite'[k] = kernel.arg
        BY <3>1, <3>2 DEF SoloSueltos
      <3> DEFINE w == <<k, kernel.arg>>
      <3>4. PICK u \in Paginas : u = w
        BY <3>1
      <3>5. kernel.paso = "cargar" <=> Entrada(u)'.presencia
        BY <3>1, <3>4 DEF Quietas
      <3>6. Entrada(u)' = Entrada(<<kernel.pid, kernel.arg>>)'
        BY <1>1, <3>4 DEF Entrada
      <3> HIDE DEF w
      <3> QED BY <1>1, <2>3, <3>1, <3>3, <3>5, <3>6 DEF Servicio, Falla, PasosIni, PasosPf, PasosFin
    <2>4. CASE kernel.paso \in PasosFin
      <3>1. k \in Procs /\ estado[k] = "fin" /\ ~Suelto(k)
        BY <2>4 DEF Servicio, PasosFin, Suelto, NoAtiende
      <3>2. estado'[k] = "fin"
        BY <3>1 DEF SoloSueltos
      <3> QED BY <1>1, <2>4, <3>1, <3>2 DEF Servicio, PasosIni, PasosPf, PasosFin
    <2>5. kernel.paso \in {"recibir"} \cup PasosIni \cup PasosPf \cup PasosFin
      BY DEF Tipo, TipoHilos, Kernels
    <2> QED BY <2>1, <2>2, <2>3, <2>4, <2>5
  <1> QED BY <1>1, <1>2, <1>3, <1>4

LEMMA IniciarProcesoLugar ==
  ASSUME Tipo, Lugar, IniciarProceso
  PROVE  Lugar'
  <1>1. PICK p \in Procs, tam \in Tamanios :
          /\ estado[p] = "no" /\ estado' = [estado EXCEPT ![p] = "listo"]
          /\ pedidos' = Append(pedidos, Mensaje("INICIALIZAR_PROCESO", p, tam))
    BY DEF IniciarProceso
  <1> DEFINE m == Mensaje("INICIALIZAR_PROCESO", p, tam)
  <1>2. m \in Mensajes /\ m.codigo = "INICIALIZAR_PROCESO" /\ m.pid = p /\ m.arg = tam
    BY MensajeTipo, MemoriaSupuestos DEF Codigos, Mensaje
  <1>3. Quietas /\ UNCHANGED <<por_enviar, repite, cpu, fs, pedidos_fs>>
    BY OtrosTipo DEF Programas, IniciarProceso
  <1>4. Suelto(p)
    BY <1>1, SueltoSi
  <1>5. /\ estado'[p] = "listo" /\ \A q \in Procs : q # p => estado'[q] = estado[q]
    BY <1>1 DEF Tipo, TipoProcesos
  <1>6. SoloSueltos
    BY <1>3, <1>4, <1>5 DEF SoloSueltos
  <1>7. /\ Servicio' /\ Tablas' /\ \A q \in ConMensaje : Conserva(q)
        /\ \A q : NoAtiende(q)' <=> NoAtiende(q)
        /\ \A q : Existe(q)' <=> Existe(q)
        /\ cantidad_paginas' = cantidad_paginas
    BY <1>3, <1>6, OtrosLugar
  <1>8. ~Existe(p) /\ cantidad_paginas[p] = 0
    BY <1>1 DEF Lugar, Tablas
  <1>9. pedidos' = Append(pedidos, m)
    BY <1>1
  <1> HIDE DEF m
  <1>10. Mensajeria'
    <2>1. Bien(m)'
      BY <1>1, <1>2, <1>5, <1>7, <1>8 DEF Bien
    <2>2. m.pid \notin ConMensaje /\ NoAtiende(m.pid)'
      BY <1>2, <1>4, <1>7 DEF Suelto
    <2>3. por_enviar' = por_enviar \ {m}
      BY <1>3, <2>2 DEF ConMensaje
    <2> QED BY <1>2, <1>7, <1>9, <2>1, <2>2, <2>3, MensajeriaEncola DEF Lugar
  <1>11. Accesorios'
    BY <1>1, <1>3, <1>5, <1>7 DEF Lugar, Accesorios, EsperaArchivo, EnAcceso
  <1> QED BY <1>7, <1>10, <1>11 DEF Lugar

\* A step that changes no state keeps what the messages and the kernel's thread say.
LEMMA MismoEstado ==
  ASSUME Tipo, Lugar, Quietas, UNCHANGED <<estado, repite>>
  PROVE  /\ Servicio' /\ Tablas' /\ \A q \in ConMensaje : Conserva(q)
         /\ \A q : NoAtiende(q)' <=> NoAtiende(q)
         /\ \A q : Existe(q)' <=> Existe(q)
         /\ UNCHANGED <<por_enviar, pedidos>> => Mensajeria'
  <1>1. SoloSueltos
    BY DEF SoloSueltos
  <1>2. /\ Servicio' /\ Tablas' /\ \A q \in ConMensaje : Conserva(q)
        /\ \A q : NoAtiende(q)' <=> NoAtiende(q)
        /\ \A q : Existe(q)' <=> Existe(q)
    BY <1>1, OtrosLugar
  <1> QED BY <1>2, MensajeriaIgual DEF Lugar

LEMMA KernelEnviaLugar ==
  ASSUME Tipo, Lugar, NEW p \in Procs, KernelEnvia(p)
  PROVE  Lugar'
  <1>1. PICK m \in por_enviar : pedidos' = Append(pedidos, m) /\ por_enviar' = por_enviar \ {m}
    BY DEF KernelEnvia
  <1>2. Quietas /\ UNCHANGED <<estado, repite, cpu, fs, pedidos_fs>>
    BY OtrosTipo DEF Programas, KernelEnvia
  <1>3. /\ Servicio' /\ Tablas' /\ \A q \in ConMensaje : Conserva(q)
        /\ \A q : NoAtiende(q)' <=> NoAtiende(q)
        /\ \A q : Existe(q)' <=> Existe(q)
    BY <1>2, MismoEstado
  <1>4. m \in Mensajes /\ Bien(m) /\ NoAtiende(m.pid) /\ m.pid \in ConMensaje
    BY MensajesTipo DEF Lugar, Mensajeria, ConMensaje
  <1>5. Bien(m)' /\ NoAtiende(m.pid)'
    BY <1>3, <1>4 DEF Conserva
  <1>6. Mensajeria'
    BY <1>1, <1>3, <1>4, <1>5, MensajeriaEncola DEF Lugar
  <1>7. Accesorios'
    BY <1>2, <1>3 DEF Lugar, Accesorios, EsperaArchivo, EnAcceso
  <1> QED BY <1>3, <1>6, <1>7 DEF Lugar

LEMMA CpuFetchLugar ==
  ASSUME Tipo, Lugar, CpuFetch
  PROVE  Lugar'
  <1>1. PICK p \in Procs :
          /\ estado[p] = "listo"
          /\ cpu' = [cpu EXCEPT !.paso = IF Existe(p) THEN "ejecutar" ELSE "colgado", !.pid = p]
    BY DEF CpuFetch
  <1>2. Quietas /\ UNCHANGED <<estado, repite, fs, pedidos_fs, por_enviar, pedidos>>
    BY OtrosTipo DEF Programas, CpuFetch, procesoVars
  <1>3. Servicio' /\ Tablas' /\ Mensajeria' /\ \A q : Existe(q)' <=> Existe(q)
    BY <1>2, MismoEstado
  <1>4. cpu'.pid = p /\ cpu'.paso = IF Existe(p) THEN "ejecutar" ELSE "colgado"
    BY <1>1 DEF Tipo, TipoHilos, Hilos
  <1>5. Accesorios'
    BY <1>1, <1>2, <1>3, <1>4 DEF Lugar, Accesorios, EsperaArchivo, EnAcceso
  <1> QED BY <1>3, <1>5 DEF Lugar

\* The process the CPU runs: nobody speaks of it.
LEMMA EnEjecucion ==
  ASSUME Tipo, Lugar, cpu.paso = "ejecutar"
  PROVE  /\ cpu.pid \in Procs /\ estado[cpu.pid] = "listo" /\ Existe(cpu.pid)
         /\ Suelto(cpu.pid)
  <1>1. cpu.pid \in Procs /\ estado[cpu.pid] = "listo" /\ Existe(cpu.pid)
    BY DEF Lugar, Accesorios, EnAcceso
  <1> QED BY <1>1, SueltoSi

LEMMA CpuExitLugar ==
  ASSUME Tipo, Lugar, CpuExit
  PROVE  Lugar'
  <1> DEFINE p == cpu.pid
             m == Mensaje("FINALIZAR_PROCESO", p, Nada)
  <1>1. p \in Procs /\ estado[p] = "listo" /\ Existe(p) /\ Suelto(p)
    BY EnEjecucion DEF CpuExit
  <1>2. m \in Mensajes /\ m.codigo = "FINALIZAR_PROCESO" /\ m.pid = p
    BY <1>1, MensajeTipo, NadaFuera DEF Codigos, Mensaje
  <1>3. Quietas /\ UNCHANGED <<repite, fs, pedidos_fs, pedidos>> /\ cpu' = SinAcceso
    BY OtrosTipo DEF Programas, CpuExit
  <1>4. estado'[p] = "fin" /\ \A q \in Procs : q # p => estado'[q] = estado[q]
    BY <1>1 DEF CpuExit, Tipo, TipoProcesos
  <1>5. por_enviar' = por_enviar \cup {m}
    BY DEF CpuExit
  <1> HIDE DEF m, p
  <1>6. SoloSueltos
    BY <1>1, <1>3, <1>4 DEF SoloSueltos
  <1>7. /\ Servicio' /\ Tablas' /\ \A q \in ConMensaje : Conserva(q)
        /\ \A q : NoAtiende(q)' <=> NoAtiende(q)
        /\ \A q : Existe(q)' <=> Existe(q)
    BY <1>3, <1>6, OtrosLugar
  <1>8. Mensajeria'
    <2>1. PICK n : n = m
      OBVIOUS
    <2>2. PICK k : k = p
      OBVIOUS
    <2>3. estado'[k] = "fin" /\ Existe(k)'
      BY <1>1, <1>4, <1>7, <2>2
    <2>4. Bien(n)'
      BY <1>2, <2>1, <2>2, <2>3 DEF Bien
    <2>5. n.pid \notin ConMensaje /\ NoAtiende(n.pid)'
      BY <1>1, <1>2, <1>7, <2>1 DEF Suelto
    <2> QED BY <1>2, <1>3, <1>5, <1>7, <2>1, <2>4, <2>5, MensajeriaEnvia DEF Lugar
  <1>9. Accesorios'
    <2>1. \A q \in Procs : EsperaArchivo(q) => EsperaArchivo(q)'
      BY <1>1, <1>3, <1>4 DEF EsperaArchivo
    <2>2. EnAcceso(cpu)'
      BY <1>3 DEF EnAcceso, SinAcceso
    <2> QED BY <1>3, <2>1, <2>2 DEF Lugar, Accesorios, EnAcceso, SinAcceso
  <1> QED BY <1>7, <1>8, <1>9 DEF Lugar

LEMMA CpuFallaLugar ==
  ASSUME Tipo, Lugar, CpuFalla
  PROVE  Lugar'
  <1>1. PICK v \in PaginaPedida :
          /\ ~Entrada(v).presencia
          /\ por_enviar' = por_enviar \cup {Mensaje("PAGE_FAULT_KERNEL", v[1], v[2])}
          /\ repite' = [repite EXCEPT ![v[1]] = v[2]]
          /\ estado' = [estado EXCEPT ![v[1]] = "bloqueado"]
    BY DEF CpuFalla
  <1>2. /\ v \in Paginas /\ v[1] = cpu.pid /\ v[2] \in Indices /\ v[1] \in Procs
        /\ v[2] < cantidad_paginas[v[1]] /\ v = <<v[1], v[2]>>
    BY PaginaPedidaTipo DEF CpuFalla, EnTabla
  <1> DEFINE p == v[1]
             i == v[2]
             m == Mensaje("PAGE_FAULT_KERNEL", p, i)
  <1>3. estado[p] = "listo" /\ Existe(p) /\ Suelto(p)
    BY <1>2, EnEjecucion DEF CpuFalla
  <1>4. m \in Mensajes /\ m.codigo = "PAGE_FAULT_KERNEL" /\ m.pid = p /\ m.arg = i
    <2>1. \A j \in Indices : j \in Int
      BY DEF Indices
    <2> QED BY <1>2, <2>1, MensajeTipo DEF Codigos, Mensaje
  <1>5. Quietas /\ UNCHANGED <<fs, pedidos_fs, pedidos>> /\ cpu' = SinAcceso
    BY OtrosTipo DEF Programas, CpuFalla
  <1>6. /\ estado'[p] = "bloqueado" /\ repite'[p] = i
        /\ \A q \in Procs : q # p => estado'[q] = estado[q] /\ repite'[q] = repite[q]
    BY <1>1, <1>2 DEF Tipo, TipoProcesos
  <1>7. por_enviar' = por_enviar \cup {m}
    BY <1>1
  <1>8. p \in Procs /\ i \in Indices /\ i < cantidad_paginas[p] /\ v = <<p, i>>
    BY <1>2
  <1> HIDE DEF m, p, i
  <1>9. SoloSueltos
    BY <1>3, <1>6, <1>8 DEF SoloSueltos
  <1>10. /\ Servicio' /\ Tablas' /\ \A q \in ConMensaje : Conserva(q)
         /\ \A q : NoAtiende(q)' <=> NoAtiende(q)
         /\ \A q : Existe(q)' <=> Existe(q)
         /\ cantidad_paginas' = cantidad_paginas
    BY <1>5, <1>9, OtrosLugar
  <1>11. Mensajeria'
    <2>1. ~Entrada(<<p, i>>)'.presencia
      <3>1. ~Entrada(v)'.presencia
        BY <1>1, <1>2, <1>5 DEF Quietas
      <3> QED BY <1>8, <3>1
    <2>2. Falla(p, i)'
      BY <1>3, <1>6, <1>8, <1>10, <2>1 DEF Falla
    <2>3. Bien(m)'
      BY <1>4, <2>2 DEF Bien
    <2>4. m.pid \notin ConMensaje /\ NoAtiende(m.pid)'
      BY <1>3, <1>4, <1>10 DEF Suelto
    <2> QED BY <1>4, <1>5, <1>7, <1>10, <2>3, <2>4, MensajeriaEnvia DEF Lugar
  <1>12. Accesorios'
    <2>1. \A q \in Procs : EsperaArchivo(q) => EsperaArchivo(q)'
      BY <1>3, <1>6 DEF EsperaArchivo
    <2>2. EnAcceso(cpu)'
      BY <1>5 DEF EnAcceso, SinAcceso
    <2> QED BY <1>5, <2>1, <2>2 DEF Lugar, Accesorios, EnAcceso, SinAcceso
  <1> QED BY <1>10, <1>11, <1>12 DEF Lugar

LEMMA CpuSinTablaLugar ==
  ASSUME Tipo, Lugar, CpuSinTabla
  PROVE  Lugar'
  <1>1. Quietas /\ UNCHANGED <<estado, repite, cpu, fs, pedidos_fs, por_enviar, pedidos>>
    BY OtrosTipo DEF Programas, CpuSinTabla, procesoVars
  <1>2. Servicio' /\ Tablas' /\ Mensajeria' /\ \A q : Existe(q)' <=> Existe(q)
    BY <1>1, MismoEstado
  <1>3. Accesorios'
    BY <1>1, <1>2 DEF Lugar, Accesorios, EsperaArchivo, EnAcceso
  <1> QED BY <1>2, <1>3 DEF Lugar

\* The access to a page in memory goes to a frame.
LEMMA AccesoEs ==
  ASSUME Tipo, Lugar, NEW v \in Paginas, Entrada(v).presencia, NEW op
  PROVE  /\ EnAcceso(Acceso(v, op)) /\ Acceso(v, op).pid = v[1] /\ Acceso(v, op).op = op
         /\ Acceso(v, op).paso \in {"copiar", "buscar"}
         /\ op # "MOV_OUT" => Acceso(v, op).paso = "buscar"
         /\ Acceso(v, op).marco = Entrada(v).marco /\ Acceso(v, op).marco \in Marcos
  <1>1. Entrada(v).marco \in Marcos \cup {Nada}
    BY EntradaTipo DEF Tipo, Entradas
  <1>2. Entrada(v).marco # Nada
    BY DEF Lugar, Tablas
  <1>3. v[1] \in Procs
    BY PaginaPar
  <1> QED BY <1>1, <1>2, <1>3 DEF Acceso, EnAcceso

LEMMA CpuMovLugar ==
  ASSUME Tipo, Lugar, CpuMov
  PROVE  Lugar'
  <1>1. PICK v \in PaginaPedida, op \in Accesos : Entrada(v).presencia /\ cpu' = Acceso(v, op)
    BY DEF CpuMov
  <1>2. v \in Paginas /\ v[1] = cpu.pid
    BY PaginaPedidaTipo DEF CpuMov
  <1> DEFINE p == cpu.pid
  <1>3. p \in Procs /\ estado[p] = "listo" /\ Existe(p) /\ Suelto(p)
    BY EnEjecucion DEF CpuMov
  <1>4. Quietas /\ UNCHANGED <<estado, fs, pedidos_fs, por_enviar, pedidos>>
    BY OtrosTipo DEF Programas, CpuMov
  <1>5. \A q \in Procs : q # p => repite'[q] = repite[q]
    BY <1>3 DEF CpuMov, Tipo, TipoProcesos
  <1>6. cpu'.pid = p /\ cpu'.paso \in {"copiar", "buscar"} /\ cpu'.marco \in Marcos
    BY <1>1, <1>2, AccesoEs
  <1> HIDE DEF p
  <1>7. SoloSueltos
    BY <1>3, <1>4, <1>5 DEF SoloSueltos
  <1>8. /\ Servicio' /\ Tablas' /\ \A q \in ConMensaje : Conserva(q)
        /\ \A q : Existe(q)' <=> Existe(q)
    BY <1>4, <1>7, OtrosLugar
  <1>9. Mensajeria'
    BY <1>4, <1>8, MensajeriaIgual DEF Lugar
  <1>10. Accesorios'
    <2>1. \A q \in Procs : EsperaArchivo(q) => EsperaArchivo(q)'
      BY <1>3, <1>4, <1>5 DEF EsperaArchivo
    <2>2. EnAcceso(cpu)' /\ estado'[cpu'.pid] = "listo" /\ Existe(cpu.pid)'
      <3>1. EnAcceso(cpu)' /\ estado'[cpu'.pid] = "listo"
        BY <1>3, <1>4, <1>6 DEF EnAcceso
      <3>2. PICK k : k = p
        OBVIOUS
      <3>3. Existe(k)' /\ cpu'.pid = k
        BY <1>3, <1>6, <1>8, <3>2
      <3> QED BY <3>1, <3>3
    <2> QED BY <1>4, <2>1, <2>2 DEF Lugar, Accesorios, EnAcceso
  <1> QED BY <1>8, <1>9, <1>10 DEF Lugar

LEMMA CpuArchivoLugar ==
  ASSUME Tipo, Lugar, CpuArchivo
  PROVE  Lugar'
  <1>1. PICK v \in PaginaPedida, op \in {"F_READ", "F_WRITE"} :
          Entrada(v).presencia /\ pedidos_fs' = pedidos_fs \cup {Acceso(v, op)}
    BY DEF CpuArchivo
  <1>2. v \in Paginas /\ v[1] = cpu.pid
    BY PaginaPedidaTipo DEF CpuArchivo
  <1> DEFINE p == cpu.pid
             a == Acceso(v, op)
  <1>3. p \in Procs /\ estado[p] = "listo" /\ Existe(p) /\ Suelto(p)
    BY EnEjecucion DEF CpuArchivo
  <1>4. Quietas /\ UNCHANGED <<fs, por_enviar, pedidos>> /\ cpu' = SinAcceso
    BY OtrosTipo DEF Programas, CpuArchivo
  <1>5. /\ estado'[p] = "bloqueado" /\ repite'[p] = Nada
        /\ \A q \in Procs : q # p => estado'[q] = estado[q] /\ repite'[q] = repite[q]
    BY <1>3 DEF CpuArchivo, Tipo, TipoProcesos
  <1>6. EnAcceso(a) /\ a.pid = p /\ a.paso = "buscar"
    BY <1>1, <1>2, AccesoEs
  <1>7. pedidos_fs' = pedidos_fs \cup {a}
    BY <1>1
  <1> HIDE DEF p, a
  <1>8. SoloSueltos
    BY <1>3, <1>4, <1>5 DEF SoloSueltos
  <1>9. /\ Servicio' /\ Tablas' /\ \A q \in ConMensaje : Conserva(q)
        /\ \A q : Existe(q)' <=> Existe(q)
    BY <1>4, <1>8, OtrosLugar
  <1>10. Mensajeria'
    BY <1>4, <1>9, MensajeriaIgual DEF Lugar
  <1>11. Accesorios'
    <2>1. \A q \in Procs : EsperaArchivo(q) => EsperaArchivo(q)' /\ q # p
      BY <1>3, <1>5 DEF EsperaArchivo
    <2>2. EnAcceso(cpu)' /\ cpu'.paso = "recibir"
      BY <1>4 DEF EnAcceso, SinAcceso
    <2>3. \A b \in pedidos_fs : b.pid # p /\ b.pid \in Procs
      BY <2>1 DEF Lugar, Accesorios, EnAcceso
    <2>4. fs.paso # "recibir" => fs.pid # p /\ fs.pid \in Procs
      BY <2>1 DEF Lugar, Accesorios, EnAcceso
    <2>5. PICK k : k = p
      OBVIOUS
    <2>6. PICK n : n = a
      OBVIOUS
    <2>7. EsperaArchivo(k)'
      BY <1>5, <2>5 DEF EsperaArchivo
    <2>8. EsperaArchivo(n.pid)' /\ EnAcceso(n)'
      BY <1>6, <2>5, <2>6, <2>7 DEF EnAcceso
    <2>9. \A b \in pedidos_fs' : b.paso = "buscar" /\ EnAcceso(b)' /\ EsperaArchivo(b.pid)'
      BY <1>6, <1>7, <2>1, <2>3, <2>6, <2>8 DEF Lugar, Accesorios, EnAcceso
    <2>10. \A b \in pedidos_fs' : fs'.paso # "recibir" => b.pid # fs'.pid
      BY <1>4, <1>6, <1>7, <2>4 DEF Lugar, Accesorios
    <2>11. \A b, c \in pedidos_fs' : b.pid = c.pid => b = c
      BY <1>6, <1>7, <2>3 DEF Lugar, Accesorios
    <2>12. EnAcceso(fs)' /\ (fs'.paso # "recibir" => EsperaArchivo(fs.pid)')
      BY <1>4, <2>1 DEF Lugar, Accesorios, EnAcceso
    <2> QED BY <2>2, <2>9, <2>10, <2>11, <2>12 DEF Accesorios
  <1> QED BY <1>9, <1>10, <1>11 DEF Lugar

\* The steps of the CPU's thread and of filesystem's in an access under way.
LEMMA HilosLugar ==
  ASSUME Tipo, Lugar, CpuCopia \/ CpuBusca \/ CpuCuenta \/ CpuSella \/ FsBusca \/ FsCuenta
  PROVE  Lugar'
  <1>1. Quietas /\ UNCHANGED <<estado, repite, pedidos_fs, por_enviar, pedidos>>
    <2>1. Quietas
      BY OtrosTipo DEF HiloCpu, HiloFs
    <2> QED BY <2>1 DEF CpuCopia, CpuBusca, CpuCuenta, CpuSella, FsBusca, FsCuenta, Buscar, Contar,
                        Sellar, procesoVars
  <1>2. Servicio' /\ Tablas' /\ Mensajeria' /\ \A q : Existe(q)' <=> Existe(q)
    BY <1>1, MismoEstado
  <1>3. \A q : EsperaArchivo(q)' <=> EsperaArchivo(q)
    BY <1>1 DEF EsperaArchivo
  <1>4. cpu \in Hilos /\ fs \in Hilos
    BY DEF Tipo, TipoHilos
  <1>5. EnAcceso(cpu) /\ EnAcceso(fs)
    BY DEF Lugar, Accesorios
  <1>6. \/ /\ EnAcceso(cpu') /\ fs' = fs
           /\ \/ cpu'.paso = "recibir"
              \/ cpu'.pid = cpu.pid /\ cpu.paso \notin {"recibir", "colgado"}
        \/ EnAcceso(fs') /\ cpu' = cpu /\ fs'.pid = fs.pid /\ fs.paso # "recibir"
    <2>1. CASE CpuCopia
      BY <1>4, <1>5, <2>1 DEF CpuCopia, EnAcceso, Hilos
    <2>2. CASE CpuBusca
      BY <1>4, <1>5, <2>2, BuscarEs DEF CpuBusca, EnAcceso
    <2>3. CASE CpuCuenta
      BY <1>4, <1>5, <2>3 DEF CpuCuenta, Contar, EnAcceso, Hilos
    <2>4. CASE CpuSella
      BY <2>4 DEF CpuSella, Sellar, SinAcceso, EnAcceso
    <2>5. CASE FsBusca
      BY <1>4, <1>5, <2>5, BuscarEs DEF FsBusca, EnAcceso
    <2>6. CASE FsCuenta
      BY <1>4, <1>5, <2>6 DEF FsCuenta, Contar, EnAcceso, Hilos
    <2> QED BY <2>1, <2>2, <2>3, <2>4, <2>5, <2>6
  <1>7. Accesorios'
    BY <1>1, <1>2, <1>3, <1>6 DEF Lugar, Accesorios, EnAcceso, EsperaArchivo
  <1> QED BY <1>2, <1>7 DEF Lugar

LEMMA FsLeeLugar ==
  ASSUME Tipo, Lugar, FsLee
  PROVE  Lugar'
  <1>1. PICK a \in pedidos_fs : fs' = a /\ pedidos_fs' = pedidos_fs \ {a}
    BY DEF FsLee
  <1>2. Quietas /\ UNCHANGED <<estado, repite, cpu, por_enviar, pedidos>>
    BY OtrosTipo DEF HiloFs, FsLee
  <1>3. Servicio' /\ Tablas' /\ Mensajeria' /\ \A q : Existe(q)' <=> Existe(q)
    BY <1>2, MismoEstado
  <1>4. Accesorios'
    BY <1>1, <1>2, <1>3 DEF Lugar, Accesorios, EnAcceso, EsperaArchivo
  <1> QED BY <1>3, <1>4 DEF Lugar

\* The process of an access to a file is ready again: nobody speaks of it.
LEMMA FsTermina ==
  ASSUME Tipo, Lugar, Quietas, NEW p \in Procs, EsperaArchivo(p),
         estado' = [estado EXCEPT ![p] = "listo"], UNCHANGED <<repite, por_enviar, pedidos, cpu>>
  PROVE  /\ Servicio' /\ Tablas' /\ Mensajeria' /\ \A q : Existe(q)' <=> Existe(q)
         /\ \A q \in Procs : q # p => (EsperaArchivo(q)' <=> EsperaArchivo(q))
         /\ EnAcceso(cpu')
         /\ cpu'.paso \notin {"recibir", "colgado"} => estado'[cpu'.pid] = "listo" /\ Existe(cpu.pid)'
  <1>1. Suelto(p)
    BY SueltoSi
  <1>2. estado'[p] = "listo" /\ \A q \in Procs : q # p => estado'[q] = estado[q]
    BY DEF Tipo, TipoProcesos
  <1>3. SoloSueltos
    BY <1>1, <1>2 DEF SoloSueltos
  <1>4. /\ Servicio' /\ Tablas' /\ \A q \in ConMensaje : Conserva(q)
        /\ \A q : Existe(q)' <=> Existe(q)
    BY <1>3, OtrosLugar
  <1>5. Mensajeria'
    BY <1>4, MensajeriaIgual DEF Lugar
  <1>6. EnAcceso(cpu')
    BY DEF Lugar, Accesorios, EnAcceso
  <1>7. cpu'.paso \notin {"recibir", "colgado"} => estado'[cpu'.pid] = "listo" /\ Existe(cpu.pid)'
    BY <1>2, <1>4 DEF Lugar, Accesorios, EnAcceso
  <1> QED BY <1>2, <1>4, <1>5, <1>6, <1>7 DEF EsperaArchivo

LEMMA FsEscribeLugar ==
  ASSUME Tipo, Lugar, FsEscribe
  PROVE  Lugar'
  <1>1. PICK a \in pedidos_fs :
          pedidos_fs' = pedidos_fs \ {a} /\ estado' = [estado EXCEPT ![a.pid] = "listo"]
    BY DEF FsEscribe
  <1>2. Quietas /\ UNCHANGED <<repite, cpu, fs, por_enviar, pedidos>> /\ fs.paso = "recibir"
    BY OtrosTipo DEF HiloFs, FsEscribe
  <1>3. a.pid \in Procs /\ EsperaArchivo(a.pid)
    BY DEF Lugar, Accesorios, EnAcceso
  <1>4. /\ Servicio' /\ Tablas' /\ Mensajeria' /\ \A q : Existe(q)' <=> Existe(q)
        /\ \A q \in Procs : q # a.pid => (EsperaArchivo(q)' <=> EsperaArchivo(q))
        /\ EnAcceso(cpu')
        /\ cpu'.paso \notin {"recibir", "colgado"} => estado'[cpu'.pid] = "listo" /\ Existe(cpu.pid)'
    BY <1>1, <1>2, <1>3, FsTermina
  <1>5. Accesorios'
    BY <1>1, <1>2, <1>3, <1>4 DEF Lugar, Accesorios, EnAcceso
  <1> QED BY <1>4, <1>5 DEF Lugar

LEMMA FsSellaLugar ==
  ASSUME Tipo, Lugar, FsSella
  PROVE  Lugar'
  <1>1. estado' = [estado EXCEPT ![fs.pid] = "listo"] /\ fs' = SinAcceso /\ fs.paso = "sellar"
    BY DEF FsSella, Sellar
  <1>2. Quietas /\ UNCHANGED <<repite, cpu, pedidos_fs, por_enviar, pedidos>>
    BY OtrosTipo DEF HiloFs, FsSella, Sellar
  <1>3. fs.pid \in Procs /\ EsperaArchivo(fs.pid)
    BY <1>1 DEF Lugar, Accesorios, EnAcceso
  <1>4. /\ Servicio' /\ Tablas' /\ Mensajeria' /\ \A q : Existe(q)' <=> Existe(q)
        /\ \A q \in Procs : q # fs.pid => (EsperaArchivo(q)' <=> EsperaArchivo(q))
        /\ EnAcceso(cpu')
        /\ cpu'.paso \notin {"recibir", "colgado"} => estado'[cpu'.pid] = "listo" /\ Existe(cpu.pid)'
    BY <1>1, <1>2, <1>3, FsTermina
  <1>5. fs'.paso = "recibir"
    BY <1>1 DEF SinAcceso
  <1>6. Accesorios'
    BY <1>1, <1>2, <1>3, <1>4, <1>5 DEF Lugar, Accesorios, EnAcceso
  <1> QED BY <1>4, <1>6 DEF Lugar

LEMMA OtrosTodoLugar ==
  ASSUME Tipo, Lugar, Programas \/ HiloCpu \/ HiloFs
  PROVE  Lugar'
  BY IniciarProcesoLugar, CpuFetchLugar, CpuExitLugar, CpuFallaLugar, CpuSinTablaLugar, CpuMovLugar,
     CpuArchivoLugar, KernelEnviaLugar, HilosLugar, FsEscribeLugar, FsLeeLugar, FsSellaLugar
     DEF Programas, HiloCpu, HiloFs

-----------------------------------------------------------------------------
(* What each process waits for: the kernel's thread *)

\* Serving a fault or an end leaves true what the messages say, if it changes nothing of
\* the other processes.
LEMMA KernelMensajeria ==
  ASSUME Tipo, Lugar, UNCHANGED <<por_enviar, pedidos>>, kernel.paso \in PasosPf \cup PasosFin,
         kernel'.pid = kernel.pid \/ kernel'.paso = "recibir",
         \A q \in Procs \ {kernel.pid} : Quieto(q)
  PROVE  Mensajeria'
  <1>1. \A m \in por_enviar : m.pid # kernel.pid
    BY DEF Lugar, Mensajeria, NoAtiende
  <1>2. \A i \in DOMAIN pedidos : pedidos[i].pid # kernel.pid
    BY DEF Lugar, Mensajeria, NoAtiende
  <1>3. \A q \in ConMensaje : q \in Procs \ {kernel.pid}
    BY <1>1, <1>2, MensajesTipo DEF ConMensaje
  <1>4. ASSUME NEW q \in ConMensaje PROVE Conserva(q)
    <2>1. Quieto(q) /\ q # kernel.pid
      BY <1>3
    <2>2. NoAtiende(q)'
      BY <2>1 DEF NoAtiende, PasosPf, PasosFin
    <2> QED BY <2>1, <2>2, QuietoConserva
  <1> QED BY <1>4, MensajeriaIgual DEF Lugar

\* The same when it receives a message.
LEMMA KernelRecibe ==
  ASSUME Tipo, Lugar, NEW h, h = Head(pedidos).pid, pedidos # <<>>, pedidos' = Tail(pedidos),
         UNCHANGED por_enviar, kernel'.pid = h, \A q \in Procs \ {h} : Quieto(q)
  PROVE  Mensajeria'
  <1>1. ASSUME NEW q \in ConMensaje \ {h} PROVE Conserva(q)
    <2>1. Quieto(q)
      BY MensajesTipo
    <2>2. NoAtiende(q)'
      BY DEF NoAtiende
    <2> QED BY <2>1, <2>2, QuietoConserva
  <1> QED BY <1>1, MensajeriaRecibe DEF Lugar

LEMMA KernelAccesorios ==
  ASSUME Tipo, Lugar, UNCHANGED <<cpu, fs, pedidos_fs>>,
         \A q \in Procs :
           /\ estado[q] = "listo" /\ Existe(q) => estado'[q] = "listo" /\ Existe(q)'
           /\ EsperaArchivo(q) => EsperaArchivo(q)'
  PROVE  Accesorios'
  BY DEF Lugar, Accesorios, EnAcceso

\* Where neither the list of processes nor the sizes change.
LEMMA KernelTablas ==
  ASSUME Tipo, Lugar, UNCHANGED <<procesos_totales, cantidad_paginas>>,
         \A q \in Procs : estado'[q] = "no" => estado[q] = "no",
         \/ kernel.paso \notin {"limpiar_fifo", "liberar_tabla"}
         \/ kernel'.pid = kernel.pid /\ kernel'.paso \in {"limpiar_fifo", "liberar_tabla"},
         \A v \in Paginas :
           /\ Entrada(v)'.presencia <=> Entrada(v)'.marco # Nada
           /\ Entrada(v)'.presencia => Entrada(v).presencia \/ (EnTabla(v) /\ Existe(v[1]))
  PROVE  Tablas'
  <1>1. /\ \A v \in Paginas : EnTabla(v)' <=> EnTabla(v)
        /\ \A q : Existe(q)' <=> Existe(q)
    BY DEF EnTabla, Existe
  <1>2. \A v \in Paginas : Entrada(v)'.presencia =>
          /\ EnTabla(v)'
          /\ Existe(v[1])' \/ (kernel'.pid = v[1] /\ kernel'.paso \in {"limpiar_fifo", "liberar_tabla"})
    BY <1>1 DEF Lugar, Tablas
  <1> QED BY <1>1, <1>2 DEF Lugar, Tablas

LEMMA NadieLugar ==
  ASSUME Tipo, Lugar,
         UNCHANGED <<tablaVars, procesoVars, pedidos, kernel, cpu, fs>>
  PROVE  Lugar'
  <1>2. /\ UNCHANGED <<procesos_totales, cantidad_paginas, entradas_tabla>>
        /\ UNCHANGED <<estado, repite, por_enviar, pedidos_fs>>
    BY DEF tablaVars, procesoVars
  <1>3. Mensajeria'
    BY <1>2 DEF Lugar, Mensajeria, Bien, Falla, NoAtiende, Existe, Entrada
  <1>4. Servicio'
    BY <1>2 DEF Lugar, Servicio, Falla, Existe, Entrada
  <1>5. Accesorios'
    BY <1>2 DEF Lugar, Accesorios, EnAcceso, EsperaArchivo, Existe
  <1>6. Tablas'
    BY <1>2 DEF Lugar, Tablas, EnTabla, Existe, Entrada
  <1> QED BY <1>3, <1>4, <1>5, <1>6 DEF Lugar

\* Choosing the victim and writing it to its block.
LEMMA VictimaLugar ==
  ASSUME Tipo, Lugar, ElegirLru \/ ElegirFifo \/ ProbarModificado \/ SwapOut
  PROVE  Lugar'
  <1>1. /\ UNCHANGED <<procesos_totales, cantidad_paginas, entradas_tabla>>
        /\ UNCHANGED <<estado, repite, por_enviar, pedidos_fs, pedidos, cpu, fs>>
    BY DEF ElegirLru, ElegirFifo, ProbarModificado, SwapOut, tablaVars, procesoVars
  <1>2. /\ kernel'.pid = kernel.pid /\ kernel'.arg = kernel.arg
        /\ kernel.paso \in PasosPf \ {"cargar"} /\ kernel'.paso \in PasosPf \ {"cargar"}
    <2>1. CASE ElegirLru \/ ElegirFifo
      BY <2>1, ElegirEs, ConVictimaTipo DEF PasosPf
    <2>2. CASE ProbarModificado \/ SwapOut
      BY <2>2 DEF ProbarModificado, SwapOut, PasosPf, Tipo, TipoHilos, Kernels
    <2> QED BY <2>1, <2>2
  <1>3. \A q \in Procs : Quieto(q)
    BY <1>1 DEF Quieto, Existe, Entrada
  <1>4. Mensajeria'
    BY <1>1, <1>2, <1>3, KernelMensajeria
  <1>5. Falla(kernel.pid, kernel.arg)'
    BY <1>1, <1>2 DEF Lugar, Servicio, Falla, Existe, Entrada
  <1>6. Servicio'
    <2>1. kernel.pid \in Procs
      BY <1>2 DEF Lugar, Servicio, PasosPf
    <2> QED BY <1>2, <1>5, <2>1 DEF Servicio, PasosIni, PasosPf, PasosFin
  <1>7. Accesorios'
    BY <1>1, KernelAccesorios DEF EsperaArchivo, Existe
  <1>8. Tablas'
    <2>1. kernel.paso \notin {"limpiar_fifo", "liberar_tabla"}
      BY <1>2 DEF PasosPf
    <2>2. \A v \in Paginas : Entrada(v)' = Entrada(v)
      BY <1>1 DEF Entrada
    <2>3. \A v \in Paginas :
           /\ Entrada(v)'.presencia <=> Entrada(v)'.marco # Nada
           /\ Entrada(v)'.presencia => Entrada(v).presencia \/ (EnTabla(v) /\ Existe(v[1]))
      BY <2>2 DEF Lugar, Tablas
    <2> QED BY <1>1, <2>1, <2>3, KernelTablas
  <1> QED BY <1>4, <1>6, <1>7, <1>8 DEF Lugar

\* One page of the processes other than the one being served may lose its frame; the page
\* that is served may get one.
LEMMA DesalojarLugar ==
  ASSUME Tipo, Lugar, ConMarcos, Desalojar
  PROVE  Lugar'
  <1>1. /\ UNCHANGED <<procesos_totales, cantidad_paginas, pedidos, cpu, fs>>
        /\ UNCHANGED <<estado, repite, por_enviar, pedidos_fs>>
    BY DEF Desalojar, procesoVars
  <1>2. PICK w \in Paginas : w = kernel.victima
    BY VictimaEs DEF Desalojar
  <1>3. /\ Entrada(w)'.marco = Nada /\ ~Entrada(w)'.presencia
        /\ \A v \in Paginas : v # w => Entrada(v)' = Entrada(v)
        /\ kernel'.paso = "ocupar" /\ kernel'.pid = kernel.pid /\ kernel'.arg = kernel.arg
        /\ kernel.paso = "desalojar"
    BY <1>2, DesalojarEs DEF Desalojar
  <1>4. \A v \in Paginas : Entrada(v)'.presencia => Entrada(v).presencia
    BY <1>3
  <1>5. \A q \in Procs : Quieto(q)
    <2>1. \A q \in Procs, i \in Indices : <<q, i>> \in Paginas
      BY DEF Paginas
    <2> QED BY <1>1, <1>4, <2>1 DEF Quieto, Existe
  <1>6. Mensajeria'
    BY <1>1, <1>3, <1>5, KernelMensajeria DEF PasosPf
  <1>7. /\ kernel.pid \in Procs /\ kernel.arg \in Indices /\ Falla(kernel.pid, kernel.arg)
        /\ <<kernel.pid, kernel.arg>> \in Paginas
    BY <1>3, ServidaEs DEF PasosPf, Lugar, Servicio
  <1>8. Servicio'
    <2>1. PICK p \in Procs, i \in Indices : p = kernel.pid /\ i = kernel.arg
      BY <1>7
    <2>2. Falla(p, i) /\ <<p, i>> \in Paginas
      BY <1>7, <2>1
    <2>3. ~Entrada(<<p, i>>)'.presencia
      BY <1>4, <2>2 DEF Falla
    <2>4. Falla(p, i)'
      BY <1>1, <2>2, <2>3 DEF Falla, Existe
    <2> QED BY <1>3, <2>1, <2>4 DEF Servicio, PasosIni, PasosPf, PasosFin
  <1>9. Accesorios'
    BY <1>1, KernelAccesorios DEF EsperaArchivo, Existe
  <1>10. Tablas'
    <2>1. \A v \in Paginas :
           /\ Entrada(v)'.presencia <=> Entrada(v)'.marco # Nada
           /\ Entrada(v)'.presencia => Entrada(v).presencia \/ (EnTabla(v) /\ Existe(v[1]))
      BY <1>3, <1>4 DEF Lugar, Tablas
    <2> QED BY <1>1, <1>3, <2>1, KernelTablas
  <1> QED BY <1>6, <1>8, <1>9, <1>10 DEF Lugar

LEMMA OcuparLugar ==
  ASSUME Tipo, Lugar, ConMarcos, Ocupar
  PROVE  Lugar'
  <1>1. /\ UNCHANGED <<procesos_totales, cantidad_paginas, pedidos, cpu, fs>>
        /\ UNCHANGED <<estado, repite, por_enviar, pedidos_fs>>
    BY DEF Ocupar, procesoVars
  <1>2. /\ kernel.paso = "ocupar" /\ kernel'.paso = "cargar"
        /\ kernel'.pid = kernel.pid /\ kernel'.arg = kernel.arg
    BY DEF Ocupar, Tipo, TipoHilos, Kernels
  <1>3. /\ kernel.pid \in Procs /\ kernel.arg \in Indices /\ Existe(kernel.pid)
        /\ <<kernel.pid, kernel.arg>> \in Paginas /\ kernel.arg < cantidad_paginas[kernel.pid]
        /\ estado[kernel.pid] = "bloqueado" /\ repite[kernel.pid] = kernel.arg
    BY <1>2, ServidaEs DEF PasosPf, EnTabla
  <1>4. PICK w \in Paginas : w = <<kernel.pid, kernel.arg>>
    BY <1>3
  <1>5. /\ Entrada(w)'.marco # Nada /\ Entrada(w)'.presencia
        /\ \A v \in Paginas : v # w => Entrada(v)' = Entrada(v)
    <2>1. kernel.marco \in Marcos /\ Ubicar(w, kernel.marco)
      BY <1>4 DEF Ocupar, ConMarcos, EnTransito
    <2> QED BY <2>1, UbicarEs, NadaFuera DEF Tipo
  <1>6. \A q \in Procs \ {kernel.pid} : Quieto(q)
    <2>1. \A q \in Procs \ {kernel.pid}, i \in Indices : <<q, i>> \in Paginas /\ <<q, i>> # w
      BY <1>4 DEF Paginas
    <2> QED BY <1>1, <1>5, <2>1 DEF Quieto, Existe
  <1>7. Mensajeria'
    BY <1>1, <1>2, <1>6, KernelMensajeria DEF PasosPf
  <1>8. Servicio'
    <2>1. PICK p \in Procs, i \in Indices : p = kernel.pid /\ i = kernel.arg
      BY <1>3
    <2>2. Entrada(<<p, i>>)'.presencia
      BY <1>4, <1>5, <2>1
    <2>3. Existe(p)' /\ estado'[p] = "bloqueado" /\ repite'[p] = i /\ i < cantidad_paginas'[p]
      BY <1>1, <1>3, <2>1 DEF Existe
    <2> QED BY <1>2, <2>1, <2>2, <2>3 DEF Servicio, PasosIni, PasosPf, PasosFin
  <1>9. Accesorios'
    BY <1>1, KernelAccesorios DEF EsperaArchivo, Existe
  <1>10. Tablas'
    <2>1. EnTabla(w) /\ Existe(w[1])
      BY <1>3, <1>4 DEF EnTabla
    <2>2. \A v \in Paginas :
           /\ Entrada(v)'.presencia <=> Entrada(v)'.marco # Nada
           /\ Entrada(v)'.presencia => Entrada(v).presencia \/ (EnTabla(v) /\ Existe(v[1]))
      BY <1>5, <2>1 DEF Lugar, Tablas
    <2> QED BY <1>1, <1>2, <2>2, KernelTablas
  <1> QED BY <1>7, <1>8, <1>9, <1>10 DEF Lugar

LEMMA CargarLugar ==
  ASSUME Tipo, Lugar, Cargar
  PROVE  Lugar'
  <1>1. /\ UNCHANGED <<procesos_totales, cantidad_paginas, entradas_tabla, pedidos, cpu, fs>>
        /\ UNCHANGED <<repite, por_enviar, pedidos_fs>>
        /\ kernel.paso = "cargar" /\ kernel'.paso = "recibir"
    BY DEF Cargar, tablaVars, KernelLibre
  <1>2. /\ kernel.pid \in Procs /\ estado[kernel.pid] = "bloqueado"
        /\ repite[kernel.pid] \in Indices
    BY <1>1, ServidaEs DEF PasosPf
  <1>3. /\ estado'[kernel.pid] = "listo"
        /\ \A q \in Procs \ {kernel.pid} : estado'[q] = estado[q]
    BY <1>2 DEF Cargar, Tipo, TipoProcesos
  <1>4. \A q \in Procs \ {kernel.pid} : Quieto(q)
    BY <1>1, <1>3 DEF Quieto, Existe, Entrada
  <1>5. Mensajeria'
    BY <1>1, <1>4, KernelMensajeria DEF PasosPf
  <1>6. Servicio'
    BY <1>1 DEF Servicio, PasosIni, PasosPf, PasosFin
  <1>7. Accesorios'
    <2>1. \A q \in Procs : EsperaArchivo(q) => EsperaArchivo(q)'
      BY <1>1, <1>2, <1>3, NadaFuera DEF EsperaArchivo
    <2>2. \A q \in Procs : estado[q] = "listo" /\ Existe(q) => estado'[q] = "listo" /\ Existe(q)'
      BY <1>1, <1>3 DEF Existe
    <2> QED BY <1>1, <2>1, <2>2, KernelAccesorios
  <1>8. Tablas'
    <2>1. \A v \in Paginas : Entrada(v)' = Entrada(v)
      BY <1>1 DEF Entrada
    <2>2. \A v \in Paginas :
           /\ Entrada(v)'.presencia <=> Entrada(v)'.marco # Nada
           /\ Entrada(v)'.presencia => Entrada(v).presencia \/ (EnTabla(v) /\ Existe(v[1]))
      BY <2>1 DEF Lugar, Tablas
    <2>3. \A q \in Procs : estado'[q] = "no" => estado[q] = "no"
      BY <1>3
    <2> QED BY <1>1, <2>2, <2>3, KernelTablas
  <1> QED BY <1>5, <1>6, <1>7, <1>8 DEF Lugar

LEMMA LiberarMarcosLugar ==
  ASSUME Tipo, Lugar, LiberarMarcos
  PROVE  Lugar'
  <1>1. /\ UNCHANGED <<cantidad_paginas, entradas_tabla, pedidos, cpu, fs>>
        /\ UNCHANGED <<estado, repite, por_enviar, pedidos_fs>>
        /\ procesos_totales' = RemoveFirst(procesos_totales, kernel.pid)
    BY DEF LiberarMarcos, procesoVars
  <1>2. /\ kernel.paso = "liberar_marcos" /\ kernel'.paso = "limpiar_fifo"
        /\ kernel'.pid = kernel.pid
    BY DEF LiberarMarcos, Tipo, TipoHilos, Kernels
  <1>3. kernel.pid \in Procs /\ estado[kernel.pid] = "fin"
    BY <1>2 DEF Lugar, Servicio, PasosFin
  <1>4. SinRepetir(procesos_totales) /\ procesos_totales \in Seq(Procs)
    BY DEF Lugar, Tablas, SinRepetir, Tipo, TipoTabla
  <1>5. /\ SinRepetir(procesos_totales')
        /\ ToSet(procesos_totales') = ToSet(procesos_totales) \ {kernel.pid}
    BY <1>1, <1>4, RemoveFirstUnica
  <1>6. \A q : Existe(q)' <=> Existe(q) /\ q # kernel.pid
    BY <1>5 DEF Existe
  <1>7. \A q \in Procs \ {kernel.pid} : Quieto(q)
    BY <1>1, <1>6 DEF Quieto, Entrada
  <1>8. Mensajeria'
    BY <1>1, <1>2, <1>7, KernelMensajeria DEF PasosFin
  <1>9. Servicio'
    <2>1. PICK p \in Procs : p = kernel.pid
      BY <1>3
    <2>2. ~Existe(p)' /\ estado'[p] = "fin"
      BY <1>1, <1>3, <1>6, <2>1
    <2> QED BY <1>2, <2>1, <2>2 DEF Servicio, PasosIni, PasosPf, PasosFin
  <1>10. Accesorios'
    BY <1>1, <1>3, <1>6, KernelAccesorios DEF EsperaArchivo
  <1>11. Tablas'
    <2>1. \A v \in Paginas : Entrada(v)' = Entrada(v) /\ (EnTabla(v)' <=> EnTabla(v))
      BY <1>1 DEF Entrada, EnTabla
    <2>2. \A v \in Paginas : Existe(v[1]) =>
            Existe(v[1])' \/ (kernel'.pid = v[1] /\ kernel'.paso = "limpiar_fifo")
      BY <1>2, <1>6
    <2>3. \A v \in Paginas : Entrada(v).presencia => EnTabla(v) /\ Existe(v[1])
      BY <1>2 DEF Lugar, Tablas
    <2>4. \A v \in Paginas : Entrada(v)'.presencia <=> Entrada(v)'.marco # Nada
      BY <2>1 DEF Lugar, Tablas
    <2>5. \A v \in Paginas : Entrada(v)'.presencia =>
            /\ EnTabla(v)'
            /\ Existe(v[1])'
               \/ (kernel'.pid = v[1] /\ kernel'.paso \in {"limpiar_fifo", "liberar_tabla"})
      BY <2>1, <2>2, <2>3
    <2>6. \A q \in Procs : estado'[q] = "no" => ~Existe(q)' /\ cantidad_paginas'[q] = 0
      BY <1>1, <1>6 DEF Lugar, Tablas
    <2> QED BY <1>5, <2>4, <2>5, <2>6 DEF Tablas, SinRepetir
  <1> QED BY <1>8, <1>9, <1>10, <1>11 DEF Lugar

LEMMA LimpiarFifoLugar ==
  ASSUME Tipo, Lugar, LimpiarFifo
  PROVE  Lugar'
  <1>1. /\ UNCHANGED <<procesos_totales, cantidad_paginas, entradas_tabla, pedidos, cpu, fs>>
        /\ UNCHANGED <<estado, repite, por_enviar, pedidos_fs>>
    BY DEF LimpiarFifo, procesoVars, tablaVars
  <1>2. /\ kernel.paso = "limpiar_fifo" /\ kernel'.paso = "liberar_tabla"
        /\ kernel'.pid = kernel.pid
    BY DEF LimpiarFifo, Tipo, TipoHilos, Kernels
  <1>3. \A q \in Procs : Quieto(q)
    BY <1>1 DEF Quieto, Existe, Entrada
  <1>4. Mensajeria'
    BY <1>1, <1>2, <1>3, KernelMensajeria DEF PasosFin
  <1>5. Servicio'
    BY <1>1, <1>2 DEF Lugar, Servicio, PasosIni, PasosPf, PasosFin, Existe
  <1>6. Accesorios'
    BY <1>1, KernelAccesorios DEF EsperaArchivo, Existe
  <1>7. Tablas'
    <2>1. \A v \in Paginas : Entrada(v)' = Entrada(v)
      BY <1>1 DEF Entrada
    <2>2. \A v \in Paginas :
           /\ Entrada(v)'.presencia <=> Entrada(v)'.marco # Nada
           /\ Entrada(v)'.presencia => Entrada(v).presencia \/ (EnTabla(v) /\ Existe(v[1]))
      BY <2>1 DEF Lugar, Tablas
    <2> QED BY <1>1, <1>2, <2>2, KernelTablas
  <1> QED BY <1>4, <1>5, <1>6, <1>7 DEF Lugar

\* Every page of p is as new, and those of the others as they were.
LEMMA TablaNueva ==
  ASSUME TipoTabla, NEW p \in Procs,
         entradas_tabla' = [entradas_tabla EXCEPT ![p] = [i \in Indices |-> EntradaNueva]]
  PROVE  \A v \in Paginas : Entrada(v)' = IF v[1] = p THEN EntradaNueva ELSE Entrada(v)
  BY PaginaPar DEF Entrada, TipoTabla

LEMMA LiberarTablaLugar ==
  ASSUME Tipo, Lugar, LiberarTabla
  PROVE  Lugar'
  <1>1. /\ UNCHANGED <<procesos_totales, pedidos, cpu, fs>>
        /\ UNCHANGED <<estado, repite, por_enviar, pedidos_fs>>
        /\ kernel.paso = "liberar_tabla" /\ kernel'.paso = "recibir"
    BY DEF LiberarTabla, procesoVars, KernelLibre
  <1>2. kernel.pid \in Procs /\ estado[kernel.pid] = "fin"
    BY <1>1 DEF Lugar, Servicio, PasosFin
  <1>3. /\ cantidad_paginas'[kernel.pid] = 0
        /\ \A q \in Procs : q # kernel.pid => cantidad_paginas'[q] = cantidad_paginas[q]
    BY <1>2 DEF LiberarTabla, Tipo, TipoTabla
  <1>4. \A v \in Paginas : Entrada(v)' = IF v[1] = kernel.pid THEN EntradaNueva ELSE Entrada(v)
    <2>1. PICK p \in Procs : p = kernel.pid
      BY <1>2
    <2>2. entradas_tabla' = [entradas_tabla EXCEPT ![p] = [i \in Indices |-> EntradaNueva]]
      BY <2>1 DEF LiberarTabla
    <2> QED BY <2>1, <2>2, TablaNueva DEF Tipo
  <1>5. \A q \in Procs \ {kernel.pid} : Quieto(q)
    <2>1. \A q \in Procs \ {kernel.pid}, i \in Indices : <<q, i>> \in Paginas /\ <<q, i>>[1] # kernel.pid
      BY DEF Paginas
    <2> QED BY <1>1, <1>3, <1>4, <2>1 DEF Quieto, Existe
  <1>6. Mensajeria'
    BY <1>1, <1>5, KernelMensajeria DEF PasosFin
  <1>7. Servicio'
    BY <1>1 DEF Servicio, PasosIni, PasosPf, PasosFin
  <1>8. Accesorios'
    BY <1>1, KernelAccesorios DEF EsperaArchivo, Existe
  <1>9. Tablas'
    <2>1. ~EntradaNueva.presencia /\ EntradaNueva.marco = Nada
      BY DEF EntradaNueva
    <2>2. \A v \in Paginas : Entrada(v)'.presencia <=> Entrada(v)'.marco # Nada
      BY <1>4, <2>1 DEF Lugar, Tablas
    <2>3. \A v \in Paginas : Entrada(v)'.presencia => v[1] # kernel.pid /\ Entrada(v).presencia
      BY <1>4, <2>1
    <2>4. \A v \in Paginas : v[1] # kernel.pid => (EnTabla(v)' <=> EnTabla(v))
      BY <1>3, PaginaPar DEF EnTabla
    <2>5. \A q : Existe(q)' <=> Existe(q)
      BY <1>1 DEF Existe
    <2>6. \A v \in Paginas : Entrada(v)'.presencia => EnTabla(v)' /\ Existe(v[1])'
      BY <2>3, <2>4, <2>5 DEF Lugar, Tablas
    <2>7. \A q \in Procs : estado'[q] = "no" => ~Existe(q)' /\ cantidad_paginas'[q] = 0
      BY <1>1, <1>3, <2>5 DEF Lugar, Tablas
    <2> QED BY <1>1, <2>2, <2>6, <2>7 DEF Lugar, Tablas
  <1> QED BY <1>6, <1>7, <1>8, <1>9 DEF Lugar

LEMMA CrearTablaLugar ==
  ASSUME Tipo, Lugar, CrearTabla
  PROVE  Lugar'
  <1>1. /\ UNCHANGED <<procesos_totales, pedidos, cpu, fs>>
        /\ UNCHANGED <<estado, repite, por_enviar, pedidos_fs>>
        /\ kernel.paso = "crear_tabla"
    BY DEF CrearTabla, procesoVars
  <1>2. kernel'.paso = "pedir_swap" /\ kernel'.pid = kernel.pid
    BY DEF CrearTabla, Tipo, TipoHilos, Kernels
  <1>3. /\ kernel.pid \in Procs /\ estado[kernel.pid] # "no" /\ Existe(kernel.pid)
        /\ cantidad_paginas[kernel.pid] = 0
        /\ \A i \in Indices : ~Entrada(<<kernel.pid, i>>).presencia
    BY <1>1 DEF Lugar, Servicio, PasosIni
  <1>4. PICK p \in Procs : p = kernel.pid
    BY <1>3
  <1>5. \A q \in Procs : q # p => cantidad_paginas'[q] = cantidad_paginas[q]
    BY <1>3, <1>4 DEF CrearTabla, Tipo, TipoTabla
  <1>6. \A v \in Paginas : Entrada(v)' = IF v[1] = p THEN EntradaNueva ELSE Entrada(v)
    <2>1. entradas_tabla' = [entradas_tabla EXCEPT ![p] = [i \in Indices |-> EntradaNueva]]
      BY <1>4 DEF CrearTabla
    <2> QED BY <2>1, TablaNueva DEF Tipo
  <1>7. \A q : Existe(q)' <=> Existe(q)
    BY <1>1 DEF Existe
  <1>8. Mensajeria'
    <2>1. \A q : NoAtiende(q)'
      BY <1>2 DEF NoAtiende, PasosPf, PasosFin
    <2>2. ASSUME NEW q \in ConMensaje, q # p PROVE Conserva(q)
      <3>1. q \in Procs /\ \A i \in Indices : <<q, i>> \in Paginas /\ <<q, i>>[1] # p
        BY <2>2, MensajesTipo DEF Paginas
      <3>2. Quieto(q)
        BY <1>1, <1>5, <1>6, <1>7, <2>2, <3>1 DEF Quieto
      <3> QED BY <2>1, <3>2, QuietoConserva
    <2>3. Conserva(p)
      <3> SUFFICES ASSUME NEW m \in Mensajes, m.pid = p, Bien(m) PROVE Bien(m)'
        BY <2>1 DEF Conserva
      <3>1. m.codigo # "INICIALIZAR_PROCESO"
        BY <1>3, <1>4 DEF Bien
      <3>2. m.codigo # "PAGE_FAULT_KERNEL"
        <4>1. \A i \in Indices : ~(i < 0)
          BY DEF Indices
        <4> QED BY <1>3, <1>4, <4>1 DEF Bien, Falla
      <3>3. m.codigo = "FINALIZAR_PROCESO" => estado'[m.pid] = "fin" /\ Existe(m.pid)'
        BY <1>1, <1>7 DEF Bien
      <3> QED BY <3>1, <3>2, <3>3 DEF Bien
    <2> QED BY <1>1, <2>2, <2>3, MensajeriaIgual DEF Lugar
  <1>9. ~EntradaNueva.presencia /\ EntradaNueva.marco = Nada
    BY DEF EntradaNueva
  <1>10. Servicio'
    <2>1. \A i \in Indices : ~Entrada(<<p, i>>)'.presencia
      <3>1. \A i \in Indices : <<p, i>> \in Paginas /\ <<p, i>>[1] = p
        BY DEF Paginas
      <3> QED BY <1>6, <1>9, <3>1
    <2>2. estado'[p] # "no" /\ Existe(p)'
      BY <1>1, <1>3, <1>4, <1>7
    <2> QED BY <1>2, <1>4, <2>1, <2>2 DEF Servicio, PasosIni, PasosPf, PasosFin
  <1>11. Accesorios'
    BY <1>1, <1>7, KernelAccesorios DEF EsperaArchivo
  <1>12. Tablas'
    <2>1. \A v \in Paginas : Entrada(v)'.presencia <=> Entrada(v)'.marco # Nada
      BY <1>6, <1>9 DEF Lugar, Tablas
    <2>2. \A v \in Paginas : Entrada(v)'.presencia => v[1] # p /\ Entrada(v).presencia
      BY <1>6, <1>9
    <2>3. \A v \in Paginas : v[1] # p => (EnTabla(v)' <=> EnTabla(v))
      BY <1>5, PaginaPar DEF EnTabla
    <2>4. \A v \in Paginas : Entrada(v)'.presencia => EnTabla(v)' /\ Existe(v[1])'
      BY <1>1, <1>7, <2>2, <2>3 DEF Lugar, Tablas
    <2>5. \A q \in Procs : estado'[q] = "no" => ~Existe(q)' /\ cantidad_paginas'[q] = 0
      BY <1>1, <1>3, <1>4, <1>5, <1>7 DEF Lugar, Tablas
    <2> QED BY <1>1, <2>1, <2>4, <2>5 DEF Lugar, Tablas
  <1> QED BY <1>8, <1>10, <1>11, <1>12 DEF Lugar

LEMMA AsignarSwapLugar ==
  ASSUME Tipo, Lugar, AsignarSwap
  PROVE  Lugar'
  <1>1. /\ UNCHANGED <<procesos_totales, cantidad_paginas, pedidos, cpu, fs>>
        /\ UNCHANGED <<estado, repite, por_enviar, pedidos_fs>>
        /\ kernel.paso = "pedir_swap"
    BY DEF AsignarSwap, procesoVars
  <1>2. CASE UNCHANGED <<entradas_tabla, kernel>>
    BY <1>1, <1>2, NadieLugar DEF tablaVars, procesoVars
  <1>3. CASE ~UNCHANGED <<entradas_tabla, kernel>>
    <2>1. /\ kernel'.paso = "recibir"
          /\ \A v \in Paginas :
               /\ Entrada(v)'.presencia = Entrada(v).presencia
               /\ Entrada(v)'.marco = Entrada(v).marco
      BY <1>3, AsignaEs, AsignarSwapEs DEF KernelLibre
    <2>2. \A q \in Procs : Quieto(q)
      <3>1. \A q \in Procs, i \in Indices : <<q, i>> \in Paginas
        BY DEF Paginas
      <3> QED BY <1>1, <2>1, <3>1 DEF Quieto, Existe
    <2>3. Mensajeria'
      <3>1. \A q \in ConMensaje : q \in Procs /\ NoAtiende(q)'
        BY <2>1, MensajesTipo DEF NoAtiende, PasosPf, PasosFin
      <3>2. \A q \in ConMensaje : Conserva(q)
        BY <2>2, <3>1, QuietoConserva
      <3> QED BY <1>1, <3>2, MensajeriaIgual DEF Lugar
    <2>4. Servicio'
      BY <2>1 DEF Servicio, PasosIni, PasosPf, PasosFin
    <2>5. Accesorios'
      BY <1>1, KernelAccesorios DEF EsperaArchivo, Existe
    <2>6. Tablas'
      <3>1. \A v \in Paginas :
             /\ Entrada(v)'.presencia <=> Entrada(v)'.marco # Nada
             /\ Entrada(v)'.presencia => Entrada(v).presencia \/ (EnTabla(v) /\ Existe(v[1]))
        BY <2>1 DEF Lugar, Tablas
      <3> QED BY <1>1, <3>1, KernelTablas
    <2> QED BY <2>3, <2>4, <2>5, <2>6 DEF Lugar
  <1> QED BY <1>2, <1>3

\* The process of the message that was received: the others are as they were.
LEMMA PrimeroEs ==
  ASSUME Tipo, Lugar, NEW c, Recibe(c)
  PROVE  /\ Head(pedidos) \in Mensajes /\ Head(pedidos).pid \in Procs
         /\ Head(pedidos).codigo = c /\ Bien(Head(pedidos))
         /\ kernel.paso = "recibir" /\ pedidos # <<>> /\ pedidos' = Tail(pedidos)
  <1>1. /\ kernel.paso = "recibir" /\ pedidos # <<>> /\ pedidos' = Tail(pedidos)
        /\ Head(pedidos).codigo = c
    BY DEF Recibe
  <1>2. /\ Head(pedidos) \in Mensajes /\ Head(pedidos) = pedidos[1] /\ 1 \in DOMAIN pedidos
    BY <1>1, ColaMengua, MensajesTipo
  <1>3. Bien(Head(pedidos)) /\ Head(pedidos).pid \in Procs
    BY <1>2, MensajesTipo DEF Lugar, Mensajeria
  <1> QED BY <1>1, <1>2, <1>3

LEMMA InicializarProcesoLugar ==
  ASSUME Tipo, Lugar, InicializarProceso
  PROVE  Lugar'
  <1>1. /\ UNCHANGED <<cantidad_paginas, entradas_tabla, cpu, fs>>
        /\ UNCHANGED <<estado, repite, por_enviar, pedidos_fs>>
    BY DEF InicializarProceso, procesoVars
  <1>2. PICK p \in Procs : p = Head(pedidos).pid
    BY PrimeroEs DEF InicializarProceso
  <1>3. /\ kernel.paso = "recibir" /\ pedidos # <<>> /\ pedidos' = Tail(pedidos)
        /\ Head(pedidos).arg \in Tamanios /\ estado[p] = "listo" /\ ~Existe(p)
        /\ cantidad_paginas[p] = 0
    BY <1>2, PrimeroEs DEF InicializarProceso, Bien
  <1>4. kernel'.paso = "crear_tabla" /\ kernel'.pid = p /\ kernel'.arg = Head(pedidos).arg
    BY <1>2, AtenderEs DEF InicializarProceso, PasosIni
  <1>5. /\ procesos_totales' \in Seq(Procs) /\ Len(procesos_totales) \in Nat
        /\ DOMAIN procesos_totales' = DOMAIN procesos_totales \cup {Len(procesos_totales) + 1}
        /\ \A i \in DOMAIN procesos_totales : procesos_totales'[i] = procesos_totales[i]
        /\ procesos_totales'[Len(procesos_totales) + 1] = p
    <2>1. procesos_totales \in Seq(Procs)
      BY DEF Tipo, TipoTabla
    <2>2. procesos_totales' = Append(procesos_totales, p)
      BY <1>2 DEF InicializarProceso
    <2> QED BY <2>1, <2>2, ColaCrece
  <1>6. \A q : Existe(q)' <=> Existe(q) \/ q = p
    <2> DEFINE k == Len(procesos_totales) + 1
    <2>1. \A q : Existe(q)' <=> \E i \in DOMAIN procesos_totales' : procesos_totales'[i] = q
      BY DEF Existe, ToSet
    <2>2. \A q : Existe(q) <=> \E i \in DOMAIN procesos_totales : procesos_totales[i] = q
      BY DEF Existe, ToSet
    <2> HIDE DEF k
    <2> QED BY <1>5, <2>1, <2>2 DEF k
  <1>7. \A q \in Procs \ {p} : Quieto(q)
    BY <1>1, <1>6 DEF Quieto, Entrada
  <1>8. Mensajeria'
    BY <1>1, <1>2, <1>3, <1>4, <1>7, KernelRecibe
  <1>9. \A v \in Paginas : Entrada(v)' = Entrada(v) /\ (EnTabla(v)' <=> EnTabla(v))
    BY <1>1 DEF Entrada, EnTabla
  <1>10. \A v \in Paginas : Entrada(v).presencia => EnTabla(v) /\ Existe(v[1])
    BY <1>3 DEF Lugar, Tablas
  <1>11. Servicio'
    <2>1. \A i \in Indices : ~Entrada(<<p, i>>)'.presencia
      <3>1. \A i \in Indices : <<p, i>> \in Paginas /\ <<p, i>>[1] = p
        BY DEF Paginas
      <3> QED BY <1>3, <1>9, <1>10, <3>1
    <2>2. estado'[p] # "no" /\ Existe(p)' /\ cantidad_paginas'[p] = 0
      BY <1>1, <1>3, <1>6
    <2> QED BY <1>3, <1>4, <2>1, <2>2 DEF Servicio, PasosIni, PasosPf, PasosFin
  <1>12. Accesorios'
    BY <1>1, <1>6, KernelAccesorios DEF EsperaArchivo
  <1>13. Tablas'
    <2>1. \A v \in Paginas : Entrada(v)'.presencia <=> Entrada(v)'.marco # Nada
      BY <1>9 DEF Lugar, Tablas
    <2>2. \A v \in Paginas : Entrada(v)'.presencia => EnTabla(v)' /\ Existe(v[1])'
      BY <1>6, <1>9, <1>10
    <2>3. \A q \in Procs : estado'[q] = "no" => ~Existe(q)' /\ cantidad_paginas'[q] = 0
      BY <1>1, <1>3, <1>6 DEF Lugar, Tablas
    <2>4. \A i, j \in DOMAIN procesos_totales' :
            procesos_totales'[i] = procesos_totales'[j] => i = j
      <3>1. \A i \in DOMAIN procesos_totales : procesos_totales[i] # p
        BY <1>3 DEF Existe, ToSet
      <3> QED BY <1>5, <3>1 DEF Lugar, Tablas
    <2> QED BY <2>1, <2>2, <2>3, <2>4 DEF Tablas
  <1> QED BY <1>8, <1>11, <1>12, <1>13 DEF Lugar

LEMMA FinalizarProcesoLugar ==
  ASSUME Tipo, Lugar, FinalizarProceso
  PROVE  Lugar'
  <1>1. /\ UNCHANGED <<procesos_totales, cantidad_paginas, entradas_tabla, cpu, fs>>
        /\ UNCHANGED <<estado, repite, por_enviar, pedidos_fs>>
    BY DEF FinalizarProceso, procesoVars, tablaVars
  <1>2. PICK p \in Procs : p = Head(pedidos).pid
    BY PrimeroEs DEF FinalizarProceso
  <1>3. /\ kernel.paso = "recibir" /\ pedidos # <<>> /\ pedidos' = Tail(pedidos)
        /\ estado[p] = "fin" /\ Existe(p)
    BY <1>2, PrimeroEs DEF FinalizarProceso, Bien
  <1>4. kernel'.paso = "liberar_marcos" /\ kernel'.pid = p
    BY <1>2, AtenderEs DEF FinalizarProceso, PasosFin
  <1>5. \A q \in Procs : Quieto(q)
    BY <1>1 DEF Quieto, Entrada, Existe
  <1>6. Mensajeria'
    BY <1>1, <1>2, <1>3, <1>4, <1>5, KernelRecibe
  <1>7. Servicio'
    <2>1. estado'[p] = "fin" /\ Existe(p)'
      BY <1>1, <1>3 DEF Existe
    <2> QED BY <1>4, <2>1 DEF Servicio, PasosIni, PasosPf, PasosFin
  <1>8. Accesorios'
    BY <1>1, KernelAccesorios DEF EsperaArchivo, Existe
  <1>9. Tablas'
    <2>1. \A v \in Paginas : Entrada(v)' = Entrada(v)
      BY <1>1 DEF Entrada
    <2>2. \A v \in Paginas :
           /\ Entrada(v)'.presencia <=> Entrada(v)'.marco # Nada
           /\ Entrada(v)'.presencia => Entrada(v).presencia \/ (EnTabla(v) /\ Existe(v[1]))
      BY <2>1 DEF Lugar, Tablas
    <2> QED BY <1>1, <1>3, <2>2, KernelTablas
  <1> QED BY <1>6, <1>7, <1>8, <1>9 DEF Lugar

LEMMA PageFaultSinMarcoLugar ==
  ASSUME Tipo, Lugar, PageFaultSinMarco
  PROVE  Lugar'
  <1>1. /\ UNCHANGED <<procesos_totales, cantidad_paginas, entradas_tabla, cpu, fs>>
        /\ UNCHANGED <<estado, repite, por_enviar, pedidos_fs>>
    BY DEF PageFaultSinMarco, procesoVars, tablaVars
  <1>2. PICK p \in Procs : p = Head(pedidos).pid
    BY PrimeroEs DEF PageFaultSinMarco
  <1>3. PICK i \in Indices : i = Head(pedidos).arg /\ Falla(p, i)
    BY <1>2, PageFaultEs DEF PageFaultSinMarco, Falla
  <1>4. kernel.paso = "recibir" /\ pedidos # <<>> /\ pedidos' = Tail(pedidos)
    BY PrimeroEs DEF PageFaultSinMarco
  <1>5. kernel'.paso = "elegir" /\ kernel'.pid = p /\ kernel'.arg = i
    BY <1>2, <1>3, AtenderEs DEF PageFaultSinMarco, PasosPf
  <1>6. \A q \in Procs : Quieto(q)
    BY <1>1 DEF Quieto, Entrada, Existe
  <1>7. Mensajeria'
    BY <1>1, <1>2, <1>4, <1>5, <1>6, KernelRecibe
  <1>8. Servicio'
    <2>1. Falla(p, i)'
      BY <1>1, <1>3 DEF Falla, Entrada, Existe
    <2> QED BY <1>5, <2>1 DEF Servicio, PasosIni, PasosPf, PasosFin
  <1>9. Accesorios'
    BY <1>1, KernelAccesorios DEF EsperaArchivo, Existe
  <1>10. Tablas'
    <2>1. \A v \in Paginas : Entrada(v)' = Entrada(v)
      BY <1>1 DEF Entrada
    <2>2. \A v \in Paginas :
           /\ Entrada(v)'.presencia <=> Entrada(v)'.marco # Nada
           /\ Entrada(v)'.presencia => Entrada(v).presencia \/ (EnTabla(v) /\ Existe(v[1]))
      BY <2>1 DEF Lugar, Tablas
    <2> QED BY <1>1, <1>4, <2>2, KernelTablas
  <1> QED BY <1>7, <1>8, <1>9, <1>10 DEF Lugar

\* What PageFaultConMarco does with the page w of the fault and the first free frame m.
LEMMA PageFaultConMarcoEs ==
  ASSUME Tipo, Lugar, PageFaultConMarco
  PROVE  \E p \in Procs, i \in Indices, m \in Marcos :
           /\ p = Head(pedidos).pid /\ i = Head(pedidos).arg /\ Falla(p, i)
           /\ marcos[m] = Nada /\ \A k \in Marcos : marcos'[k] = IF k = m THEN p ELSE marcos[k]
           /\ <<p, i>> \in Paginas
           /\ Entrada(<<p, i>>)'.marco = m /\ Entrada(<<p, i>>)'.presencia
           /\ Entrada(<<p, i>>)'.bloque = Entrada(<<p, i>>).bloque
           /\ \A v \in Paginas : v # <<p, i>> => Entrada(v)' = Entrada(v)
           /\ kernel.paso = "recibir" /\ kernel'.paso = "cargar" /\ kernel'.pid = p /\ kernel'.arg = i
  <1>1. PICK p \in Procs : p = Head(pedidos).pid
    BY PrimeroEs DEF PageFaultConMarco
  <1>2. PICK i \in Indices : i = Head(pedidos).arg /\ Falla(p, i)
    BY <1>1, PageFaultEs DEF PageFaultConMarco, Falla
  <1>3. PICK m \in Marcos : m = Min(MarcosLibres) /\ marcos[m] = Nada
    BY PageFaultEs DEF PageFaultConMarco, MarcosLibres
  <1>4. PICK w \in Paginas : w = <<p, i>>
    BY DEF Paginas
  <1>5. w[1] = p
    BY <1>4
  <1>6. Ubicar(w, m)
    BY <1>1, <1>2, <1>3, <1>4 DEF PageFaultConMarco
  <1>7. /\ \A k \in Marcos : marcos'[k] = IF k = m THEN p ELSE marcos[k]
        /\ Entrada(w)'.marco = m /\ Entrada(w)'.presencia
        /\ Entrada(w)'.bloque = Entrada(w).bloque
        /\ \A v \in Paginas : v # w => Entrada(v)' = Entrada(v)
    BY <1>5, <1>6, UbicarEs DEF Tipo
  <1>8. kernel.paso = "recibir" /\ kernel'.paso = "cargar" /\ kernel'.pid = p /\ kernel'.arg = i
    BY <1>1, <1>2, AtenderEs DEF PageFaultConMarco, PasosPf
  <1> QED BY <1>1, <1>2, <1>3, <1>4, <1>7, <1>8

LEMMA PageFaultConMarcoLugar ==
  ASSUME Tipo, Lugar, PageFaultConMarco
  PROVE  Lugar'
  <1>1. /\ UNCHANGED <<procesos_totales, cantidad_paginas, cpu, fs>>
        /\ UNCHANGED <<estado, repite, por_enviar, pedidos_fs>>
    BY DEF PageFaultConMarco, procesoVars
  <1>2. PICK p \in Procs, i \in Indices, m \in Marcos :
           /\ p = Head(pedidos).pid /\ Falla(p, i)
           /\ <<p, i>> \in Paginas
           /\ Entrada(<<p, i>>)'.marco = m /\ Entrada(<<p, i>>)'.presencia
           /\ \A v \in Paginas : v # <<p, i>> => Entrada(v)' = Entrada(v)
           /\ kernel.paso = "recibir" /\ kernel'.paso = "cargar" /\ kernel'.pid = p /\ kernel'.arg = i
    BY PageFaultConMarcoEs
  <1>3. pedidos # <<>> /\ pedidos' = Tail(pedidos)
    BY PrimeroEs DEF PageFaultConMarco
  <1>4. \A q \in Procs \ {p} : Quieto(q)
    <2>1. \A q \in Procs \ {p}, j \in Indices : <<q, j>> \in Paginas /\ <<q, j>> # <<p, i>>
      BY DEF Paginas
    <2> QED BY <1>1, <1>2, <2>1 DEF Quieto, Existe
  <1>5. Mensajeria'
    BY <1>1, <1>2, <1>3, <1>4, KernelRecibe
  <1>6. Servicio'
    <2>1. /\ estado'[p] = "bloqueado" /\ repite'[p] = i /\ Existe(p)'
          /\ i < cantidad_paginas'[p]
      BY <1>1, <1>2 DEF Falla, Existe
    <2> QED BY <1>2, <2>1 DEF Servicio, PasosIni, PasosPf, PasosFin
  <1>7. Accesorios'
    BY <1>1, KernelAccesorios DEF EsperaArchivo, Existe
  <1>8. Tablas'
    <2>1. EnTabla(<<p, i>>) /\ Existe(p) /\ <<p, i>>[1] = p
      BY <1>2 DEF Falla, EnTabla
    <2>2. m # Nada
      BY NadaFuera
    <2>3. \A v \in Paginas :
           /\ Entrada(v)'.presencia <=> Entrada(v)'.marco # Nada
           /\ Entrada(v)'.presencia => Entrada(v).presencia \/ (EnTabla(v) /\ Existe(v[1]))
      BY <1>2, <2>1, <2>2 DEF Lugar, Tablas
    <2> QED BY <1>1, <1>2, <2>3, KernelTablas
  <1> QED BY <1>5, <1>6, <1>7, <1>8 DEF Lugar

LEMMA PasoTodoLugar ==
  ASSUME IInv, [Next]_vars
  PROVE  Lugar'
  <1> USE DEF IInv
  <1>1. CASE UNCHANGED vars
    BY <1>1, NadieLugar DEF vars
  <1>2. CASE Programas \/ HiloCpu \/ HiloFs
    BY <1>2, OtrosTodoLugar
  <1>3. CASE ElegirNadie
    BY <1>3, NadieLugar DEF ElegirNadie
  <1>4. CASE HiloKernel
    BY <1>3, <1>4, InicializarProcesoLugar, CrearTablaLugar, AsignarSwapLugar,
       FinalizarProcesoLugar, LiberarMarcosLugar, LimpiarFifoLugar, LiberarTablaLugar,
       PageFaultConMarcoLugar, PageFaultSinMarcoLugar, VictimaLugar, DesalojarLugar, OcuparLugar,
       CargarLugar DEF HiloKernel
  <1> QED BY <1>1, <1>2, <1>4 DEF Next

-----------------------------------------------------------------------------
(* Frames and page tables agree *)

\* A process that is gone but whose table is not freed yet.
SeVa(p) == kernel.paso \in {"limpiar_fifo", "liberar_tabla"} /\ p = kernel.pid

\* The presence bit says it all, but for such a process.
LEMMA PresentesSon ==
  /\ Lugar => \A v \in Paginas : v \in Presentes <=> Entrada(v).presencia /\ ~SeVa(v[1])
  /\ Lugar' => \A v \in Paginas : v \in Presentes' <=> Entrada(v)'.presencia /\ ~SeVa(v[1])'
  <1>1. Lugar => \A v \in Paginas : v \in Presentes <=> Entrada(v).presencia /\ ~SeVa(v[1])
    <2> SUFFICES ASSUME Lugar, NEW v \in Paginas
                 PROVE  v \in Presentes <=> Entrada(v).presencia /\ ~SeVa(v[1])
      OBVIOUS
    <2>1. Entrada(v).presencia => EnTabla(v) /\ (Existe(v[1]) \/ SeVa(v[1]))
      BY DEF Lugar, Tablas, SeVa
    <2>2. SeVa(v[1]) => ~Existe(v[1])
      BY DEF Lugar, Servicio, SeVa
    <2> QED BY <2>1, <2>2 DEF Presentes
  <1>2. Lugar' => \A v \in Paginas : v \in Presentes' <=> Entrada(v)'.presencia /\ ~SeVa(v[1])'
    <2> SUFFICES ASSUME Lugar', NEW v \in Paginas
                 PROVE  v \in Presentes' <=> Entrada(v)'.presencia /\ ~SeVa(v[1])'
      OBVIOUS
    <2>1. Entrada(v)'.presencia => EnTabla(v)' /\ (Existe(v[1])' \/ SeVa(v[1])')
      BY DEF Lugar, Tablas, SeVa
    <2>2. SeVa(v[1])' => ~Existe(v[1])'
      BY DEF Lugar, Servicio, SeVa
    <2> QED BY <2>1, <2>2 DEF Presentes
  <1> QED BY <1>1, <1>2

LEMMA PresenteEs ==
  ASSUME Tipo, Lugar, NEW v \in Presentes
  PROVE  v \in Paginas /\ Entrada(v).marco \in Marcos /\ Entrada(v).presencia
  <1>1. v \in Paginas /\ Entrada(v).presencia
    BY DEF Presentes
  <1>2. Entrada(v).marco \in Marcos \cup {Nada} /\ Entrada(v).marco # Nada
    BY <1>1, EntradaTipo DEF Tipo, Entradas, Lugar, Tablas
  <1> QED BY <1>1, <1>2

\* Where neither frames nor pages in memory change.
LEMMA MarcosIguales ==
  ASSUME Tipo, Lugar, MarcosCoherentes, UNCHANGED marcos, Presentes' = Presentes,
         \A v \in Presentes : Entrada(v)'.marco = Entrada(v).marco,
         kernel.paso # "ocupar" \/ UNCHANGED kernel
  PROVE  MarcosCoherentes'
  <1>1. UnaPaginaPorMarco'
    BY DEF MarcosCoherentes, UnaPaginaPorMarco
  <1>2. \A v \in Presentes' : marcos'[Entrada(v)'.marco] = v[1]
    BY DEF MarcosCoherentes
  <1>3. ASSUME NEW m \in Marcos, marcos'[m] # Nada
        PROVE  PaginasDeMarco(m)' # {} \/ (kernel'.paso = "ocupar" /\ kernel'.marco = m)
    <2>1. PaginasDeMarco(m)' = PaginasDeMarco(m)
      BY DEF PaginasDeMarco
    <2> QED BY <1>3, <2>1 DEF MarcosCoherentes
  <1> QED BY <1>1, <1>2, <1>3 DEF MarcosCoherentes

\* The page w, that was in no frame, gets the frame m, that was of none.
LEMMA MarcosUbica ==
  ASSUME Tipo, Lugar, MarcosCoherentes, NEW w \in Paginas, NEW m \in Marcos, w \notin Presentes,
         \A v \in Presentes : Entrada(v).marco # m,
         kernel.paso = "ocupar" => kernel.marco = m,
         \A k \in Marcos : marcos'[k] = IF k = m THEN w[1] ELSE marcos[k],
         Entrada(w)'.marco = m, Presentes' = Presentes \cup {w},
         \A v \in Paginas : v # w => Entrada(v)' = Entrada(v)
  PROVE  MarcosCoherentes'
  <1>1. \A v \in Presentes : v # w /\ Entrada(v)' = Entrada(v) /\ Entrada(v).marco \in Marcos
    BY PresenteEs
  <1>2. UnaPaginaPorMarco'
    BY <1>1 DEF MarcosCoherentes, UnaPaginaPorMarco
  <1>3. \A v \in Presentes' : marcos'[Entrada(v)'.marco] = v[1]
    BY <1>1 DEF MarcosCoherentes
  <1>4. ASSUME NEW k \in Marcos, marcos'[k] # Nada
        PROVE  PaginasDeMarco(k)' # {}
    <2>1. CASE k = m
      <3>1. w \in PaginasDeMarco(k)'
        BY <2>1 DEF PaginasDeMarco
      <3> QED BY <3>1
    <2>2. CASE k # m
      <3>1. PaginasDeMarco(k) # {}
        BY <1>4, <2>2 DEF MarcosCoherentes
      <3>2. PICK v \in Presentes : v[1] = marcos[k] /\ Entrada(v).marco = k
        BY <3>1 DEF PaginasDeMarco
      <3>3. v \in PaginasDeMarco(k)'
        BY <1>1, <2>2, <3>2 DEF PaginasDeMarco
      <3> QED BY <3>3
    <2> QED BY <2>1, <2>2
  <1> QED BY <1>2, <1>3, <1>4 DEF MarcosCoherentes

\* The programs, the CPU's thread and filesystem's.
LEMMA OtrosMarcos ==
  ASSUME Tipo, Lugar, ConMarcos, Quietas
  PROVE  ConMarcos' /\ Presentes' = Presentes
  <1>1. /\ UNCHANGED <<procesos_totales, cantidad_paginas, marcos, kernel>>
        /\ \A v \in Paginas : Entrada(v)'.marco = Entrada(v).marco
        /\ \A v \in Paginas : Entrada(v)'.presencia = Entrada(v).presencia
    BY DEF Quietas
  <1>2. \A v \in Paginas : v \in Presentes' <=> v \in Presentes
    BY <1>1 DEF Presentes, Existe, EnTabla
  <1>3. Presentes' = Presentes
    BY <1>2 DEF Presentes
  <1>4. \A v \in Presentes : Entrada(v)'.marco = Entrada(v).marco
    BY <1>1 DEF Presentes
  <1>5. MarcosCoherentes'
    BY <1>1, <1>3, <1>4, MarcosIguales DEF ConMarcos
  <1>6. EnTransito'
    <2>1. kernel.paso \in {"probar", "swap_out", "desalojar"} =>
            kernel.victima \in Presentes /\ Entrada(kernel.victima)'.marco = kernel.marco
      <3> SUFFICES ASSUME kernel.paso \in {"probar", "swap_out", "desalojar"}
                   PROVE  kernel.victima \in Presentes /\ Entrada(kernel.victima)'.marco = kernel.marco
        OBVIOUS
      <3>1. PICK w \in Presentes : w = kernel.victima
        BY DEF ConMarcos, EnTransito
      <3>2. Entrada(w)'.marco = kernel.marco
        BY <1>4, <3>1 DEF ConMarcos, EnTransito
      <3>3. Entrada(w)' = Entrada(kernel.victima)'
        BY <1>1, <3>1
      <3> QED BY <3>1, <3>2, <3>3
    <2>2. kernel.paso = "ocupar" =>
            kernel.marco \in Marcos /\ \A v \in Presentes : Entrada(v)'.marco # kernel.marco
      BY <1>4 DEF ConMarcos, EnTransito
    <2> QED BY <1>1, <1>3, <2>1, <2>2 DEF EnTransito
  <1> QED BY <1>3, <1>5, <1>6 DEF ConMarcos

\* The steps of the kernel's thread that neither give nor take a frame.
LEMMA KernelMarcos ==
  ASSUME Tipo, Lugar, Lugar', ConMarcos,
         \/ InicializarProceso \/ CrearTabla \/ AsignarSwap \/ FinalizarProceso \/ LimpiarFifo
         \/ LiberarTabla \/ PageFaultSinMarco \/ ElegirLru \/ ElegirFifo \/ ElegirNadie
         \/ ProbarModificado \/ SwapOut \/ Cargar
  PROVE  /\ MarcosCoherentes' /\ Presentes' = Presentes
         /\ \A v \in Presentes : Entrada(v)'.marco = Entrada(v).marco
  <1> SUFFICES /\ UNCHANGED marcos /\ kernel.paso # "ocupar"
               /\ \A v \in Paginas : v \in Presentes' <=> v \in Presentes
               /\ \A v \in Presentes : Entrada(v)'.marco = Entrada(v).marco
    <2>1. Presentes' = Presentes
      BY DEF Presentes
    <2> QED BY <2>1, MarcosIguales DEF ConMarcos
  <1>1. UNCHANGED marcos /\ kernel.paso # "ocupar"
    BY DEF InicializarProceso, CrearTabla, AsignarSwap, FinalizarProceso, LimpiarFifo, LiberarTabla,
           PageFaultSinMarco, ElegirLru, ElegirFifo, ElegirNadie, ProbarModificado, SwapOut, Cargar,
           Recibe, marcoVars
  <1>2. CASE UNCHANGED entradas_tabla /\ \A p : SeVa(p)' <=> SeVa(p)
    <2>1. \A v \in Paginas : Entrada(v)' = Entrada(v)
      BY <1>2 DEF Entrada
    <2>2. \A v \in Paginas : v \in Presentes' <=> v \in Presentes
      BY <1>2, <2>1, PresentesSon
    <2> QED BY <1>1, <2>1, <2>2 DEF Presentes
  <1>3. ASSUME UNCHANGED entradas_tabla, kernel.paso \notin {"limpiar_fifo", "liberar_tabla"},
               kernel'.paso \notin {"limpiar_fifo", "liberar_tabla"}
        PROVE  UNCHANGED entradas_tabla /\ \A p : SeVa(p)' <=> SeVa(p)
    BY <1>3 DEF SeVa
  <1>4. CASE InicializarProceso
    <2>1. kernel'.paso = "crear_tabla" /\ kernel.paso = "recibir"
      BY <1>4, AtenderEs DEF InicializarProceso, PasosIni
    <2> QED BY <1>2, <1>3, <1>4, <2>1 DEF InicializarProceso
  <1>5. CASE FinalizarProceso
    <2>1. kernel'.paso = "liberar_marcos" /\ kernel.paso = "recibir"
      BY <1>5, AtenderEs DEF FinalizarProceso, PasosFin
    <2> QED BY <1>2, <1>3, <1>5, <2>1 DEF FinalizarProceso, tablaVars
  <1>6. CASE PageFaultSinMarco
    <2>1. kernel'.paso = "elegir" /\ kernel.paso = "recibir"
      BY <1>6, AtenderEs DEF PageFaultSinMarco, PasosPf
    <2> QED BY <1>2, <1>3, <1>6, <2>1 DEF PageFaultSinMarco, tablaVars
  <1>7. CASE ElegirLru \/ ElegirFifo
    <2>1. kernel'.paso = "probar" /\ kernel.paso = "elegir"
      BY <1>7, ElegirEs, ConVictimaTipo
    <2> QED BY <1>2, <1>3, <1>7, <2>1 DEF ElegirLru, ElegirFifo, tablaVars
  <1>8. CASE ElegirNadie
    BY <1>2, <1>8 DEF ElegirNadie, tablaVars, SeVa
  <1>9. CASE ProbarModificado \/ SwapOut \/ Cargar
    <2>1. /\ kernel.paso \notin {"limpiar_fifo", "liberar_tabla"}
          /\ kernel'.paso \notin {"limpiar_fifo", "liberar_tabla"}
      BY <1>9 DEF ProbarModificado, SwapOut, Cargar, Tipo, TipoHilos, Kernels, KernelLibre
    <2> QED BY <1>2, <1>3, <1>9, <2>1 DEF ProbarModificado, SwapOut, Cargar, tablaVars
  <1>10. CASE LimpiarFifo
    <2>1. \A p : SeVa(p)' <=> SeVa(p)
      BY <1>10 DEF LimpiarFifo, SeVa, Tipo, TipoHilos, Kernels
    <2> QED BY <1>2, <1>10, <2>1 DEF LimpiarFifo, tablaVars
  <1>11. CASE CrearTabla
    <2>1. PICK p \in Procs : p = kernel.pid
      BY <1>11 DEF CrearTabla, Lugar, Servicio
    <2>2. /\ kernel.paso = "crear_tabla" /\ kernel'.paso = "pedir_swap"
          /\ \A i \in Indices : ~Entrada(<<p, i>>).presencia
      BY <1>11, <2>1 DEF CrearTabla, Lugar, Servicio, PasosIni, Tipo, TipoHilos, Kernels
    <2>3. \A v \in Paginas : Entrada(v)' = IF v[1] = p THEN EntradaNueva ELSE Entrada(v)
      <3>1. entradas_tabla' = [entradas_tabla EXCEPT ![p] = [i \in Indices |-> EntradaNueva]]
        BY <1>11, <2>1 DEF CrearTabla
      <3> QED BY <3>1, TablaNueva DEF Tipo
    <2>4. \A v \in Paginas : v[1] = p => ~Entrada(v).presencia
      BY <2>2, PaginaPar
    <2>5. \A v \in Paginas : v \in Presentes' <=> v \in Presentes
      BY <2>2, <2>3, <2>4, PresentesSon DEF SeVa, EntradaNueva
    <2>6. \A v \in Presentes : v[1] # p /\ v \in Paginas
      BY <2>4 DEF Presentes
    <2> QED BY <1>1, <2>3, <2>5, <2>6
  <1>12. CASE LiberarTabla
    <2>1. PICK p \in Procs : p = kernel.pid
      BY <1>12 DEF LiberarTabla, Lugar, Servicio
    <2>2. kernel.paso = "liberar_tabla" /\ kernel'.paso = "recibir"
      BY <1>12 DEF LiberarTabla, KernelLibre
    <2>3. \A v \in Paginas : Entrada(v)' = IF v[1] = p THEN EntradaNueva ELSE Entrada(v)
      <3>1. entradas_tabla' = [entradas_tabla EXCEPT ![p] = [i \in Indices |-> EntradaNueva]]
        BY <1>12, <2>1 DEF LiberarTabla
      <3> QED BY <3>1, TablaNueva DEF Tipo
    <2>4. \A v \in Paginas : v \in Presentes' <=> v \in Presentes
      BY <2>1, <2>2, <2>3, PresentesSon DEF SeVa, EntradaNueva
    <2>5. \A v \in Presentes : v[1] # p /\ v \in Paginas
      BY <2>1, <2>2, PresentesSon DEF Presentes, SeVa
    <2> QED BY <1>1, <2>3, <2>4, <2>5
  <1>13. CASE AsignarSwap
    <2>1. kernel.paso = "pedir_swap"
      BY <1>13 DEF AsignarSwap
    <2>2. CASE UNCHANGED <<entradas_tabla, kernel>>
      BY <1>2, <2>2 DEF SeVa
    <2>3. CASE ~UNCHANGED <<entradas_tabla, kernel>>
      <3>1. /\ kernel'.paso = "recibir"
            /\ \A v \in Paginas :
                 /\ Entrada(v)'.presencia = Entrada(v).presencia
                 /\ Entrada(v)'.marco = Entrada(v).marco
        BY <1>13, <2>3, AsignaEs, AsignarSwapEs DEF KernelLibre
      <3>2. \A v \in Paginas : v \in Presentes' <=> v \in Presentes
        BY <2>1, <3>1, PresentesSon DEF SeVa
      <3> QED BY <1>1, <3>1, <3>2 DEF Presentes
    <2> QED BY <2>2, <2>3
  <1> QED BY <1>4, <1>5, <1>6, <1>7, <1>8, <1>9, <1>10, <1>11, <1>12, <1>13

\* Where the thread goes neither to a step with a victim nor to that with a frame in transit.
LEMMA SinTransito ==
  ASSUME kernel'.paso \notin {"probar", "swap_out", "desalojar", "ocupar"}
  PROVE  EnTransito'
  BY DEF EnTransito

LEMMA ElegirMarcos ==
  ASSUME Tipo, Lugar, Lugar', ConMarcos, ElegirLru \/ ElegirFifo
  PROVE  ConMarcos'
  <1>1. /\ MarcosCoherentes' /\ Presentes' = Presentes
        /\ \A v \in Presentes : Entrada(v)'.marco = Entrada(v).marco
    BY KernelMarcos
  <1>2. PICK v \in Paginas :
           /\ kernel' = ConVictima(v) /\ kernel.paso = "elegir"
           /\ v \in Presentes \/ Entrada(v).marco # Nada
    BY ElegirEs
  <1>3. v \in Presentes
    <2>1. Entrada(v).marco # Nada => Entrada(v).presencia
      BY DEF Lugar, Tablas
    <2> QED BY <1>2, <2>1, PresentesSon DEF SeVa
  <1>4. kernel'.paso = "probar" /\ kernel'.victima = v /\ kernel'.marco = Entrada(v).marco
    BY <1>2, ConVictimaTipo
  <1>5. Entrada(v)'.marco = kernel'.marco /\ v \in Presentes'
    BY <1>1, <1>3, <1>4
  <1> QED BY <1>1, <1>4, <1>5 DEF ConMarcos, EnTransito

LEMMA VictimaMarcos ==
  ASSUME Tipo, Lugar, Lugar', ConMarcos, ProbarModificado \/ SwapOut
  PROVE  ConMarcos'
  <1>1. /\ MarcosCoherentes' /\ Presentes' = Presentes
        /\ \A v \in Presentes : Entrada(v)'.marco = Entrada(v).marco
    BY KernelMarcos
  <1>2. kernel.paso \in {"probar", "swap_out"}
    BY DEF ProbarModificado, SwapOut
  <1>3. PICK v \in Presentes : v = kernel.victima
    BY <1>2, VictimaEs
  <1>4. /\ kernel'.paso \in {"swap_out", "desalojar"} /\ kernel'.victima = v
        /\ kernel'.marco = Entrada(v).marco
    <2>1. kernel.marco = Entrada(v).marco
      BY <1>2, <1>3, VictimaEs
    <2> QED BY <1>3, <2>1 DEF ProbarModificado, SwapOut, Tipo, TipoHilos, Kernels
  <1>5. Entrada(v)'.marco = kernel'.marco /\ v \in Presentes'
    BY <1>1, <1>3, <1>4
  <1> QED BY <1>1, <1>4, <1>5 DEF ConMarcos, EnTransito

LEMMA SinVictimaMarcos ==
  ASSUME Tipo, Lugar, Lugar', ConMarcos,
         \/ InicializarProceso \/ CrearTabla \/ AsignarSwap \/ FinalizarProceso \/ LimpiarFifo
         \/ LiberarTabla \/ PageFaultSinMarco \/ ElegirNadie \/ Cargar
  PROVE  ConMarcos'
  <1>1. MarcosCoherentes'
    BY KernelMarcos
  <1>2. kernel'.paso \notin {"probar", "swap_out", "desalojar", "ocupar"}
    <2>1. CASE InicializarProceso
      BY <2>1, AtenderEs DEF InicializarProceso, PasosIni
    <2>2. CASE FinalizarProceso
      BY <2>2, AtenderEs DEF FinalizarProceso, PasosFin
    <2>3. CASE PageFaultSinMarco
      BY <2>3, AtenderEs DEF PageFaultSinMarco, PasosPf
    <2>4. CASE CrearTabla \/ LimpiarFifo
      BY <2>4 DEF CrearTabla, LimpiarFifo, Tipo, TipoHilos, Kernels
    <2>5. CASE LiberarTabla \/ Cargar
      BY <2>5 DEF LiberarTabla, Cargar, KernelLibre
    <2>6. CASE AsignarSwap
      BY <2>6, AsignaEs DEF AsignarSwap, KernelLibre
    <2>7. CASE ElegirNadie
      BY <2>7 DEF ElegirNadie
    <2> QED BY <2>1, <2>2, <2>3, <2>4, <2>5, <2>6, <2>7
  <1> QED BY <1>1, <1>2, SinTransito DEF ConMarcos

\* liberar_marcos_proceso gives back the frames of the process, all and no other.
LEMMA LiberarMarcosMarcos ==
  ASSUME Tipo, Lugar, Lugar', ConMarcos, LiberarMarcos
  PROVE  ConMarcos'
  <1>1. PICK p \in Procs : p = kernel.pid
    BY DEF LiberarMarcos, Lugar, Servicio
  <1>2. /\ kernel.paso = "liberar_marcos" /\ kernel'.paso = "limpiar_fifo" /\ kernel'.pid = p
        /\ UNCHANGED entradas_tabla
        /\ \A m \in Marcos : marcos'[m] = IF marcos[m] = p THEN Nada ELSE marcos[m]
    BY <1>1 DEF LiberarMarcos, Tipo, TipoHilos, Kernels
  <1>3. \A v \in Paginas : Entrada(v)' = Entrada(v)
    BY <1>2 DEF Entrada
  <1>4. \A v \in Paginas : v \in Presentes' <=> v \in Presentes /\ v[1] # p
    BY <1>2, <1>3, PresentesSon DEF SeVa
  <1>5. Presentes' = {v \in Presentes : v[1] # p}
    BY <1>4 DEF Presentes
  <1>6. \A v \in Presentes : v \in Paginas /\ Entrada(v).marco \in Marcos
    BY PresenteEs
  <1>7. UnaPaginaPorMarco'
    BY <1>3, <1>5, <1>6 DEF ConMarcos, MarcosCoherentes, UnaPaginaPorMarco
  <1>8. \A v \in Presentes' : marcos'[Entrada(v)'.marco] = v[1]
    BY <1>2, <1>3, <1>5, <1>6 DEF ConMarcos, MarcosCoherentes
  <1>9. ASSUME NEW m \in Marcos, marcos'[m] # Nada PROVE PaginasDeMarco(m)' # {}
    <2>1. marcos[m] # p /\ marcos[m] # Nada /\ marcos'[m] = marcos[m]
      BY <1>2, <1>9
    <2>2. PaginasDeMarco(m) # {}
      BY <1>2, <2>1 DEF ConMarcos, MarcosCoherentes
    <2>3. PICK v \in Presentes : v[1] = marcos[m] /\ Entrada(v).marco = m
      BY <2>2 DEF PaginasDeMarco
    <2>4. v \in PaginasDeMarco(m)'
      BY <1>3, <1>5, <1>6, <2>1, <2>3 DEF PaginasDeMarco
    <2> QED BY <2>4
  <1>10. MarcosCoherentes'
    BY <1>7, <1>8, <1>9 DEF MarcosCoherentes
  <1> QED BY <1>2, <1>10, SinTransito DEF ConMarcos

LEMMA PageFaultMarcos ==
  ASSUME Tipo, Lugar, Lugar', ConMarcos, PageFaultConMarco
  PROVE  ConMarcos'
  <1>1. PICK p \in Procs, i \in Indices, m \in Marcos :
           /\ Falla(p, i) /\ marcos[m] = Nada
           /\ \A k \in Marcos : marcos'[k] = IF k = m THEN p ELSE marcos[k]
           /\ <<p, i>> \in Paginas
           /\ Entrada(<<p, i>>)'.marco = m /\ Entrada(<<p, i>>)'.presencia
           /\ \A v \in Paginas : v # <<p, i>> => Entrada(v)' = Entrada(v)
           /\ kernel.paso = "recibir" /\ kernel'.paso = "cargar"
    BY PageFaultConMarcoEs
  <1>2. PICK w \in Paginas : w = <<p, i>>
    BY <1>1
  <1>3. w[1] = p /\ ~Entrada(w).presencia
    BY <1>1, <1>2 DEF Falla
  <1>4. w \notin Presentes
    BY <1>3 DEF Presentes
  <1>5. \A v \in Presentes : Entrada(v).marco # m
    <2>1. \A v \in Presentes : v[1] # Nada
      BY NadaFuera, PaginaPar DEF Presentes
    <2> QED BY <1>1, <2>1 DEF ConMarcos, MarcosCoherentes
  <1>6. \A v \in Paginas : v \in Presentes' <=> v \in Presentes \/ v = w
    BY <1>1, <1>2, PresentesSon DEF SeVa
  <1>7. Presentes' = Presentes \cup {w}
    BY <1>6 DEF Presentes
  <1>8. MarcosCoherentes'
    BY <1>1, <1>2, <1>3, <1>4, <1>5, <1>7, MarcosUbica DEF ConMarcos
  <1> QED BY <1>1, <1>8, SinTransito DEF ConMarcos

\* The frame of the victim is of nobody until the new page has it.
LEMMA DesalojarMarcos ==
  ASSUME Tipo, Lugar, Lugar', ConMarcos, Desalojar
  PROVE  ConMarcos'
  <1>1. PICK w \in Paginas : w = kernel.victima
    BY VictimaEs DEF Desalojar
  <1>2. w \in Presentes /\ kernel.marco = Entrada(w).marco /\ kernel.marco \in Marcos
    BY <1>1, VictimaEs DEF Desalojar
  <1>3. /\ ~Entrada(w)'.presencia
        /\ \A v \in Paginas : v # w => Entrada(v)' = Entrada(v)
        /\ kernel'.paso = "ocupar" /\ kernel'.marco = kernel.marco /\ kernel.paso = "desalojar"
        /\ UNCHANGED marcos
    BY <1>1, DesalojarEs DEF Desalojar, marcoVars
  <1>4. \A v \in Paginas : v \in Presentes' <=> v \in Presentes /\ v # w
    BY <1>3, PresentesSon DEF SeVa
  <1>5. Presentes' = Presentes \ {w}
    BY <1>4 DEF Presentes
  <1>6. \A v \in Presentes : v \in Paginas /\ Entrada(v).marco \in Marcos
    BY PresenteEs
  <1>7. UnaPaginaPorMarco'
    BY <1>3, <1>5, <1>6 DEF ConMarcos, MarcosCoherentes, UnaPaginaPorMarco
  <1>8. \A v \in Presentes' : marcos'[Entrada(v)'.marco] = v[1]
    BY <1>3, <1>5, <1>6 DEF ConMarcos, MarcosCoherentes
  <1>9. ASSUME NEW m \in Marcos, marcos'[m] # Nada, m # kernel.marco PROVE PaginasDeMarco(m)' # {}
    <2>1. PaginasDeMarco(m) # {}
      BY <1>3, <1>9 DEF ConMarcos, MarcosCoherentes
    <2>2. PICK v \in Presentes : v[1] = marcos[m] /\ Entrada(v).marco = m
      BY <2>1 DEF PaginasDeMarco
    <2>3. v # w
      BY <1>2, <1>9, <2>2
    <2>4. v \in PaginasDeMarco(m)'
      BY <1>3, <1>5, <1>6, <2>2, <2>3 DEF PaginasDeMarco
    <2> QED BY <2>4
  <1>10. MarcosCoherentes'
    BY <1>3, <1>7, <1>8, <1>9 DEF MarcosCoherentes
  <1>11. \A v \in Presentes' : Entrada(v)'.marco # kernel'.marco
    BY <1>2, <1>3, <1>5, <1>6 DEF ConMarcos, MarcosCoherentes, UnaPaginaPorMarco
  <1>12. EnTransito'
    BY <1>2, <1>3, <1>11 DEF EnTransito
  <1> QED BY <1>10, <1>12 DEF ConMarcos

\* What Ocupar does with the page w of the fault and the frame m in transit.
LEMMA OcuparEs ==
  ASSUME Tipo, Lugar, ConMarcos, Ocupar
  PROVE  \E w \in Paginas, m \in Marcos :
           /\ w = <<kernel.pid, kernel.arg>> /\ m = kernel.marco /\ ~Entrada(w).presencia
           /\ \A k \in Marcos : marcos'[k] = IF k = m THEN w[1] ELSE marcos[k]
           /\ Entrada(w)'.marco = m /\ Entrada(w)'.presencia
           /\ Entrada(w)'.bloque = Entrada(w).bloque
           /\ \A v \in Paginas : v # w => Entrada(v)' = Entrada(v)
           /\ kernel.paso = "ocupar" /\ kernel'.paso = "cargar" /\ kernel'.pid = kernel.pid
           /\ kernel'.arg = kernel.arg
  <1>1. kernel.paso = "ocupar"
    BY DEF Ocupar
  <1>2. PICK w \in Paginas : w = <<kernel.pid, kernel.arg>> /\ ~Entrada(w).presencia
    BY <1>1, ServidaEs DEF PasosPf
  <1>3. PICK m \in Marcos : m = kernel.marco
    BY <1>1 DEF ConMarcos, EnTransito
  <1>4. Ubicar(w, m)
    BY <1>2, <1>3 DEF Ocupar
  <1>5. /\ \A k \in Marcos : marcos'[k] = IF k = m THEN w[1] ELSE marcos[k]
        /\ Entrada(w)'.marco = m /\ Entrada(w)'.presencia
        /\ Entrada(w)'.bloque = Entrada(w).bloque
        /\ \A v \in Paginas : v # w => Entrada(v)' = Entrada(v)
    BY <1>4, UbicarEs DEF Tipo
  <1>6. kernel'.paso = "cargar" /\ kernel'.pid = kernel.pid /\ kernel'.arg = kernel.arg
    BY DEF Ocupar, Tipo, TipoHilos, Kernels
  <1> QED BY <1>1, <1>2, <1>3, <1>5, <1>6

LEMMA OcuparMarcos ==
  ASSUME Tipo, Lugar, Lugar', ConMarcos, Ocupar
  PROVE  ConMarcos'
  <1>1. PICK w \in Paginas, m \in Marcos :
           /\ m = kernel.marco /\ ~Entrada(w).presencia
           /\ \A k \in Marcos : marcos'[k] = IF k = m THEN w[1] ELSE marcos[k]
           /\ Entrada(w)'.marco = m /\ Entrada(w)'.presencia
           /\ \A v \in Paginas : v # w => Entrada(v)' = Entrada(v)
           /\ kernel.paso = "ocupar" /\ kernel'.paso = "cargar"
    BY OcuparEs
  <1>2. w \notin Presentes /\ \A v \in Presentes : Entrada(v).marco # m
    BY <1>1 DEF Presentes, ConMarcos, EnTransito
  <1>3. \A v \in Paginas : v \in Presentes' <=> v \in Presentes \/ v = w
    BY <1>1, PresentesSon DEF SeVa
  <1>4. Presentes' = Presentes \cup {w}
    BY <1>3 DEF Presentes
  <1>5. MarcosCoherentes'
    BY <1>1, <1>2, <1>4, MarcosUbica DEF ConMarcos
  <1> QED BY <1>1, <1>5, SinTransito DEF ConMarcos

LEMMA PasoTodoMarcos ==
  ASSUME IInv, [Next]_vars
  PROVE  ConMarcos'
  <1>1. Lugar' /\ Tipo /\ Lugar /\ ConMarcos
    BY PasoTodoLugar DEF IInv
  <1>2. CASE UNCHANGED vars
    <2>1. Quietas
      BY <1>2 DEF vars, Quietas, tablaVars, marcoVars, swapVars, Entrada
    <2> QED BY <1>1, <2>1, OtrosMarcos
  <1>3. CASE Programas \/ HiloCpu \/ HiloFs
    BY <1>1, <1>3, OtrosTipo, OtrosMarcos
  <1>4. CASE HiloKernel
    BY <1>1, <1>4, ElegirMarcos, VictimaMarcos, SinVictimaMarcos, LiberarMarcosMarcos,
       PageFaultMarcos, DesalojarMarcos, OcuparMarcos DEF HiloKernel
  <1> QED BY <1>2, <1>3, <1>4 DEF Next

-----------------------------------------------------------------------------
(* Swap blocks *)

\* Where the pages that own a block, and their blocks, are the same.
LEMMA BloquesIguales ==
  ASSUME ConBloques, UNCHANGED swap, \A v \in Paginas : v \in ConBloque' <=> v \in ConBloque,
         \A v \in Paginas : v \in ConBloque => Entrada(v)'.bloque = Entrada(v).bloque
  PROVE  ConBloques'
  <1>1. ConBloque' = ConBloque
    BY DEF ConBloque
  <1>2. \A v \in ConBloque : Entrada(v)'.bloque = Entrada(v).bloque
    BY DEF ConBloque
  <1>3. {Entrada(v)'.bloque : v \in ConBloque'} = {Entrada(v).bloque : v \in ConBloque}
    BY <1>1, <1>2
  <1> QED BY <1>1, <1>2, <1>3 DEF ConBloques

LEMMA OtrosBloques ==
  ASSUME ConBloques, Quietas
  PROVE  ConBloques'
  <1>1. \A v \in Paginas : v \in ConBloque' <=> v \in ConBloque
    BY DEF Quietas, ConBloque, Existe, EnTabla
  <1> QED BY <1>1, BloquesIguales DEF Quietas

\* The steps of the kernel's thread that neither give nor take blocks.
LEMMA KernelBloques ==
  ASSUME Tipo, Lugar, ConMarcos, ConBloques,
         \/ InicializarProceso \/ CrearTabla \/ LiberarMarcos \/ LimpiarFifo \/ LiberarTabla
         \/ PageFaultConMarco \/ PageFaultSinMarco \/ ElegirLru \/ ElegirFifo \/ ElegirNadie
         \/ ProbarModificado \/ SwapOut \/ Desalojar \/ Ocupar \/ Cargar
  PROVE  ConBloques'
  <1>1. UNCHANGED swap
    BY DEF InicializarProceso, CrearTabla, LiberarMarcos, LimpiarFifo, LiberarTabla,
           PageFaultConMarco, PageFaultSinMarco, ElegirLru, ElegirFifo, ElegirNadie,
           ProbarModificado, SwapOut, Desalojar, Ocupar, Cargar, swapVars
  <1>2. ASSUME UNCHANGED <<procesos_totales, cantidad_paginas>>,
               kernel.paso \notin {"pedir_swap", "liberar_marcos"},
               kernel'.paso \notin {"pedir_swap", "liberar_marcos"}
        PROVE  \A v \in Paginas : v \in ConBloque' <=> v \in ConBloque
    BY <1>2 DEF ConBloque, Existe, EnTabla
  <1>3. CASE InicializarProceso
    <2>1. PICK p \in Procs : p = Head(pedidos).pid
      BY <1>3, PrimeroEs DEF InicializarProceso
    <2>2. ~Existe(p) /\ cantidad_paginas[p] = 0
      BY <1>3, <2>1, PrimeroEs DEF InicializarProceso, Bien
    <2>3. \A q \in Procs : q # p => (Existe(q)' <=> Existe(q))
      <3>1. procesos_totales \in Seq(Procs) /\ procesos_totales' = Append(procesos_totales, p)
        BY <1>3, <2>1 DEF InicializarProceso, Tipo, TipoTabla
      <3>2. /\ DOMAIN procesos_totales' = DOMAIN procesos_totales \cup {Len(procesos_totales) + 1}
            /\ \A i \in DOMAIN procesos_totales : procesos_totales'[i] = procesos_totales[i]
            /\ procesos_totales'[Len(procesos_totales) + 1] = p
        BY <3>1, ColaCrece
      <3> DEFINE k == Len(procesos_totales) + 1
      <3> HIDE DEF k
      <3> QED BY <3>2 DEF Existe, ToSet, k
    <2>4. /\ kernel.paso = "recibir" /\ kernel'.paso = "crear_tabla"
          /\ UNCHANGED <<cantidad_paginas, entradas_tabla>>
      BY <1>3, AtenderEs DEF InicializarProceso, PasosIni
    <2>5. \A v \in Paginas : v \in ConBloque' <=> v \in ConBloque
      <3> SUFFICES ASSUME NEW v \in Paginas PROVE v \in ConBloque' <=> v \in ConBloque
        OBVIOUS
      <3>1. v[1] \in Procs /\ v[2] \in Nat
        BY PaginaPar, NadaFuera
      <3>2. v[1] = p => ~EnTabla(v) /\ ~EnTabla(v)'
        BY <2>2, <2>4, <3>1 DEF EnTabla
      <3>3. v[1] # p => (EnTabla(v)' <=> EnTabla(v)) /\ (Existe(v[1])' <=> Existe(v[1]))
        BY <2>3, <2>4, <3>1 DEF EnTabla
      <3> QED BY <2>4, <3>2, <3>3 DEF ConBloque
    <2>6. \A v \in Paginas : Entrada(v)' = Entrada(v)
      BY <2>4 DEF Entrada
    <2> QED BY <1>1, <2>5, <2>6, BloquesIguales
  <1>4. CASE CrearTabla
    <2>1. PICK p \in Procs : p = kernel.pid
      BY <1>4 DEF CrearTabla, Lugar, Servicio
    <2>2. /\ cantidad_paginas[p] = 0 /\ kernel.paso = "crear_tabla"
          /\ kernel'.paso = "pedir_swap" /\ kernel'.pid = p /\ UNCHANGED procesos_totales
          /\ \A q \in Procs : q # p => cantidad_paginas'[q] = cantidad_paginas[q]
      BY <1>4, <2>1 DEF CrearTabla, Lugar, Servicio, Tipo, TipoHilos, Kernels, TipoTabla
    <2>3. \A v \in Paginas : Entrada(v)' = IF v[1] = p THEN EntradaNueva ELSE Entrada(v)
      <3>1. entradas_tabla' = [entradas_tabla EXCEPT ![p] = [i \in Indices |-> EntradaNueva]]
        BY <1>4, <2>1 DEF CrearTabla
      <3> QED BY <3>1, TablaNueva DEF Tipo
    <2>4. ASSUME NEW v \in Paginas
          PROVE  (v \in ConBloque' <=> v \in ConBloque) /\ (v \in ConBloque => v[1] # p)
      <3>1. v[1] \in Procs /\ v[2] \in Nat
        BY PaginaPar, NadaFuera
      <3>2. v[1] = p => ~EnTabla(v)
        BY <2>2, <3>1 DEF EnTabla
      <3>3. v[1] # p => (EnTabla(v)' <=> EnTabla(v)) /\ (Existe(v[1])' <=> Existe(v[1]))
        BY <2>2, <3>1 DEF EnTabla, Existe
      <3> QED BY <2>1, <2>2, <3>2, <3>3 DEF ConBloque
    <2> QED BY <1>1, <2>3, <2>4, BloquesIguales
  <1>5. CASE LiberarMarcos
    <2>1. PICK p \in Procs : p = kernel.pid
      BY <1>5 DEF LiberarMarcos, Lugar, Servicio
    <2>2. /\ kernel.paso = "liberar_marcos" /\ kernel'.paso = "limpiar_fifo"
          /\ UNCHANGED <<cantidad_paginas, entradas_tabla>>
      BY <1>5 DEF LiberarMarcos, Tipo, TipoHilos, Kernels
    <2>3. \A q : Existe(q)' <=> Existe(q) /\ q # p
      <3>1. SinRepetir(procesos_totales) /\ procesos_totales \in Seq(Procs)
        BY DEF Lugar, Tablas, SinRepetir, Tipo, TipoTabla
      <3>2. procesos_totales' = RemoveFirst(procesos_totales, p)
        BY <1>5, <2>1 DEF LiberarMarcos
      <3>3. ToSet(procesos_totales') = ToSet(procesos_totales) \ {p}
        BY <3>1, <3>2, RemoveFirstUnica
      <3> QED BY <3>3 DEF Existe
    <2>4. \A v \in Paginas : v \in ConBloque' <=> v \in ConBloque
      BY <2>1, <2>2, <2>3 DEF ConBloque, EnTabla
    <2>5. \A v \in Paginas : Entrada(v)' = Entrada(v)
      BY <2>2 DEF Entrada
    <2> QED BY <1>1, <2>4, <2>5, BloquesIguales
  <1>6. CASE LiberarTabla
    <2>1. PICK p \in Procs : p = kernel.pid
      BY <1>6 DEF LiberarTabla, Lugar, Servicio
    <2>2. /\ ~Existe(p) /\ kernel.paso = "liberar_tabla" /\ kernel'.paso = "recibir"
          /\ UNCHANGED procesos_totales
          /\ \A q \in Procs : q # p => cantidad_paginas'[q] = cantidad_paginas[q]
      BY <1>6, <2>1 DEF LiberarTabla, Lugar, Servicio, KernelLibre, Tipo, TipoTabla
    <2>3. \A v \in Paginas : Entrada(v)' = IF v[1] = p THEN EntradaNueva ELSE Entrada(v)
      <3>1. entradas_tabla' = [entradas_tabla EXCEPT ![p] = [i \in Indices |-> EntradaNueva]]
        BY <1>6, <2>1 DEF LiberarTabla
      <3> QED BY <3>1, TablaNueva DEF Tipo
    <2>4. ASSUME NEW v \in Paginas
          PROVE  (v \in ConBloque' <=> v \in ConBloque) /\ (v \in ConBloque => v[1] # p)
      <3>1. v[1] \in Procs
        BY PaginaPar
      <3>2. v[1] # p => (EnTabla(v)' <=> EnTabla(v))
        BY <2>2, <3>1 DEF EnTabla
      <3>3. Existe(v[1])' <=> Existe(v[1])
        BY <2>2 DEF Existe
      <3> QED BY <2>2, <3>2, <3>3 DEF ConBloque
    <2> QED BY <1>1, <2>3, <2>4, BloquesIguales
  <1>7. CASE LimpiarFifo
    <2>1. /\ UNCHANGED <<procesos_totales, cantidad_paginas, entradas_tabla>>
          /\ kernel.paso = "limpiar_fifo" /\ kernel'.paso = "liberar_tabla"
      BY <1>7 DEF LimpiarFifo, tablaVars, Tipo, TipoHilos, Kernels
    <2>2. \A v \in Paginas : Entrada(v)' = Entrada(v)
      BY <2>1 DEF Entrada
    <2> QED BY <1>1, <1>2, <2>1, <2>2, BloquesIguales
  <1>8. CASE PageFaultConMarco
    <2>1. PICK p \in Procs, i \in Indices :
             /\ <<p, i>> \in Paginas
             /\ Entrada(<<p, i>>)'.bloque = Entrada(<<p, i>>).bloque
             /\ \A v \in Paginas : v # <<p, i>> => Entrada(v)' = Entrada(v)
             /\ kernel.paso = "recibir" /\ kernel'.paso = "cargar"
      BY <1>8, PageFaultConMarcoEs
    <2>2. UNCHANGED <<procesos_totales, cantidad_paginas>>
      BY <1>8 DEF PageFaultConMarco
    <2>3. \A v \in Paginas : Entrada(v)'.bloque = Entrada(v).bloque
      BY <2>1
    <2> QED BY <1>1, <1>2, <2>1, <2>2, <2>3, BloquesIguales
  <1>9. CASE Desalojar
    <2>1. PICK w \in Paginas : w = kernel.victima
      BY <1>9, VictimaEs DEF Desalojar
    <2>2. /\ Entrada(w)'.bloque = Entrada(w).bloque
          /\ \A v \in Paginas : v # w => Entrada(v)' = Entrada(v)
          /\ kernel.paso = "desalojar" /\ kernel'.paso = "ocupar"
          /\ UNCHANGED <<procesos_totales, cantidad_paginas>>
      BY <1>9, <2>1, DesalojarEs DEF Desalojar
    <2>3. \A v \in Paginas : Entrada(v)'.bloque = Entrada(v).bloque
      BY <2>2
    <2> QED BY <1>1, <1>2, <2>2, <2>3, BloquesIguales
  <1>10. CASE Ocupar
    <2>1. PICK w \in Paginas :
             /\ Entrada(w)'.bloque = Entrada(w).bloque
             /\ \A v \in Paginas : v # w => Entrada(v)' = Entrada(v)
             /\ kernel.paso = "ocupar" /\ kernel'.paso = "cargar"
      BY <1>10, OcuparEs
    <2>2. UNCHANGED <<procesos_totales, cantidad_paginas>>
      BY <1>10 DEF Ocupar
    <2>3. \A v \in Paginas : Entrada(v)'.bloque = Entrada(v).bloque
      BY <2>1
    <2> QED BY <1>1, <1>2, <2>1, <2>2, <2>3, BloquesIguales
  <1>11. CASE PageFaultSinMarco \/ ElegirLru \/ ElegirFifo \/ ElegirNadie \/ ProbarModificado
              \/ SwapOut \/ Cargar
    <2>1. UNCHANGED <<procesos_totales, cantidad_paginas, entradas_tabla>>
      BY <1>11 DEF PageFaultSinMarco, ElegirLru, ElegirFifo, ElegirNadie, ProbarModificado, SwapOut,
                   Cargar, tablaVars
    <2>2. \A v \in Paginas : Entrada(v)' = Entrada(v)
      BY <2>1 DEF Entrada
    <2>3. /\ kernel.paso \notin {"pedir_swap", "liberar_marcos"}
          /\ kernel'.paso \notin {"pedir_swap", "liberar_marcos"}
      <3>1. CASE PageFaultSinMarco
        BY <3>1, AtenderEs DEF PageFaultSinMarco, PasosPf
      <3>2. CASE ElegirLru \/ ElegirFifo
        BY <3>2, ElegirEs, ConVictimaTipo
      <3>3. CASE ElegirNadie \/ ProbarModificado \/ SwapOut \/ Cargar
        BY <3>3 DEF ElegirNadie, ProbarModificado, SwapOut, Cargar, KernelLibre, Tipo, TipoHilos, Kernels
      <3> QED BY <1>11, <3>1, <3>2, <3>3
    <2> QED BY <1>1, <1>2, <2>1, <2>2, <2>3, BloquesIguales
  <1> QED BY <1>3, <1>4, <1>5, <1>6, <1>7, <1>8, <1>9, <1>10, <1>11

\* INICIO_SWAP gives the pages of the new process blocks that nobody has, all different.
LEMMA AsignarSwapBloques ==
  ASSUME Tipo, Lugar, ConBloques, AsignarSwap
  PROVE  ConBloques'
  <1>1. CASE UNCHANGED <<swap, entradas_tabla, kernel>>
    <2>1. UNCHANGED <<procesos_totales, cantidad_paginas>>
      BY DEF AsignarSwap
    <2>2. \A v \in Paginas : (v \in ConBloque' <=> v \in ConBloque) /\ Entrada(v)' = Entrada(v)
      BY <1>1, <2>1 DEF ConBloque, Existe, EnTabla, Entrada
    <2> QED BY <1>1, <2>2, BloquesIguales
  <1>2. CASE cantidad_paginas[kernel.pid] <= Cardinality(Bloques \ swap)
    <2>1. PICK p : p = kernel.pid
      OBVIOUS
    <2>2. PICK n : n = cantidad_paginas[p]
      OBVIOUS
    <2>3. /\ p \in Procs /\ kernel' = KernelLibre
          /\ \A i \in Indices : i < n => LibreNumero(i) \in Bloques \ swap
          /\ swap' = swap \cup {LibreNumero(i) : i \in 0 .. n - 1}
          /\ 0 .. n - 1 = {i \in Indices : i < n}
          /\ \A v \in Paginas :
               Entrada(v)'.bloque = IF v[1] = p /\ EnTabla(v)
                                      THEN LibreNumero(v[2]) ELSE Entrada(v).bloque
      BY <1>2, <2>1, <2>2, AsignarSwapEs
    <2>4. /\ kernel.paso = "pedir_swap" /\ Existe(p)
          /\ UNCHANGED <<procesos_totales, cantidad_paginas>>
      BY <2>1 DEF AsignarSwap, Lugar, Servicio, PasosIni
    <2>5. \A v \in Paginas : v[1] = p => (EnTabla(v) <=> v[2] < n)
      BY <2>2 DEF EnTabla
    <2>6. \A v \in Paginas : v \in ConBloque' <=> v \in ConBloque \/ (v[1] = p /\ EnTabla(v))
      BY <2>1, <2>3, <2>4 DEF ConBloque, Existe, EnTabla, KernelLibre
    <2>7. \A v \in ConBloque : v \in Paginas /\ v[1] # p /\ Entrada(v).bloque \in swap
      BY <2>1, <2>4 DEF ConBloque, ConBloques
    <2>8. \A v \in ConBloque' :
            \/ v \in ConBloque /\ Entrada(v)'.bloque = Entrada(v).bloque
            \/ /\ v \in Paginas /\ v[1] = p /\ v[2] \in Indices /\ v[2] < n
               /\ Entrada(v)'.bloque = LibreNumero(v[2])
      <3> SUFFICES ASSUME NEW v \in Paginas, v \in ConBloque'
                   PROVE  \/ v \in ConBloque /\ Entrada(v)'.bloque = Entrada(v).bloque
                          \/ /\ v \in Paginas /\ v[1] = p /\ v[2] \in Indices /\ v[2] < n
                             /\ Entrada(v)'.bloque = LibreNumero(v[2])
        BY DEF ConBloque
      <3>1. CASE v[1] = p /\ EnTabla(v)
        BY <2>3, <2>5, <3>1, PaginaPar
      <3>2. CASE ~(v[1] = p /\ EnTabla(v))
        BY <2>3, <2>6, <3>2
      <3> QED BY <3>1, <3>2
    <2>9. ASSUME NEW v \in ConBloque', NEW w \in ConBloque', Entrada(v)'.bloque = Entrada(w)'.bloque
          PROVE  v = w
      <3>1. CASE v[1] # p /\ w[1] # p
        BY <2>8, <2>9, <3>1 DEF ConBloques
      <3>2. CASE v[1] = p /\ w[1] = p
        <4>1. LibreNumero(v[2]) = LibreNumero(w[2])
          BY <2>7, <2>8, <2>9, <3>2
        <4>2. /\ v \in Paginas /\ v[2] \in Nat /\ v[2] < Cardinality(Bloques \ swap)
              /\ w \in Paginas /\ w[2] \in Nat /\ w[2] < Cardinality(Bloques \ swap)
          <5>1. /\ v \in Paginas /\ v[2] \in Nat /\ v[2] < n
                /\ w \in Paginas /\ w[2] \in Nat /\ w[2] < n
            BY <2>7, <2>8, <3>2, NadaFuera
          <5>2. n \in Nat /\ Cardinality(Bloques \ swap) \in Nat
            <6>1. IsFiniteSet(Bloques)
              BY MemoriaSupuestos, FS_Interval DEF Bloques
            <6>2. n \in 0 .. MaxPaginas /\ MaxPaginas \in Nat
              BY <2>2, <2>3, MaxPaginasEs DEF Tipo, TipoTabla
            <6> QED BY <6>1, <6>2, FS_Subset, FS_CardinalityType
          <5>3. n <= Cardinality(Bloques \ swap)
            BY <1>2, <2>1, <2>2
          <5> QED BY <5>1, <5>2, <5>3
        <4>3. /\ Cardinality({c \in Bloques \ swap : c < LibreNumero(v[2])}) = v[2]
              /\ Cardinality({c \in Bloques \ swap : c < LibreNumero(w[2])}) = w[2]
          BY <4>2, LibreNumeroEs
        <4>4. v[2] = w[2]
          BY <4>1, <4>3
        <4> QED BY <3>2, <4>2, <4>4, PaginaPar
      <3>3. CASE (v[1] = p) # (w[1] = p)
        <4>1. \A u \in ConBloque' : IF u[1] = p THEN Entrada(u)'.bloque \notin swap
                                                ELSE Entrada(u)'.bloque \in swap
          BY <2>3, <2>7, <2>8
        <4> QED BY <2>9, <3>3, <4>1
      <3> QED BY <3>1, <3>2, <3>3
    <2>10. swap' = {Entrada(v)'.bloque : v \in ConBloque'}
      <3>1. ASSUME NEW v \in ConBloque' PROVE Entrada(v)'.bloque \in swap'
        <4>1. v[2] \in Indices /\ v[2] < n => v[2] \in 0 .. n - 1
          BY <2>3
        <4> QED BY <2>3, <2>7, <2>8, <4>1
      <3>2. ASSUME NEW b \in swap' PROVE \E v \in ConBloque' : Entrada(v)'.bloque = b
        <4>1. CASE b \in swap
          <5>1. PICK v \in ConBloque : Entrada(v).bloque = b
            BY <4>1 DEF ConBloques
          <5>2. v \in ConBloque' /\ Entrada(v)'.bloque = b
            BY <2>3, <2>6, <2>7, <5>1
          <5> QED BY <5>2
        <4>2. CASE b \notin swap
          <5>1. PICK i \in Indices : i < n /\ b = LibreNumero(i)
            BY <2>3, <3>2, <4>2
          <5>2. PICK v \in Paginas : v = <<p, i>>
            BY <2>3 DEF Paginas
          <5>3. v[1] = p /\ v[2] = i /\ EnTabla(v)
            BY <2>5, <5>1, <5>2
          <5>4. v \in ConBloque' /\ Entrada(v)'.bloque = b
            BY <2>3, <2>6, <5>1, <5>3
          <5> QED BY <5>4
        <4> QED BY <4>1, <4>2
      <3> QED BY <3>1, <3>2
    <2> QED BY <2>9, <2>10 DEF ConBloques
  <1> QED BY <1>1, <1>2, AsignaEs

\* limpiar_swap gives back the blocks of the process that ends and no other.
LEMMA FinalizarProcesoBloques ==
  ASSUME Tipo, Lugar, ConBloques, FinalizarProceso
  PROVE  ConBloques'
  <1>1. PICK p \in Procs : p = Head(pedidos).pid
    BY PrimeroEs DEF FinalizarProceso
  <1>2. PICK n : n = cantidad_paginas[p]
    OBVIOUS
  <1>3. /\ kernel.paso = "recibir" /\ Existe(p)
        /\ kernel'.paso = "liberar_marcos" /\ kernel'.pid = p
        /\ UNCHANGED <<procesos_totales, cantidad_paginas, entradas_tabla>>
    BY <1>1, PrimeroEs, AtenderEs DEF FinalizarProceso, Bien, PasosFin, tablaVars
  <1>4. swap' = swap \ {Entrada(<<p, i>>).bloque : i \in 0 .. n - 1}
    BY <1>1, <1>2 DEF FinalizarProceso
  <1>5. \A v \in Paginas : v \in ConBloque' <=> v \in ConBloque /\ v[1] # p
    BY <1>3 DEF ConBloque, Existe, EnTabla
  <1>6. ConBloque' = {v \in ConBloque : v[1] # p}
    BY <1>5 DEF ConBloque
  <1>7. \A v \in Paginas : Entrada(v)' = Entrada(v)
    BY <1>3 DEF Entrada
  <1>8. n \in Nat /\ 0 .. n - 1 \subseteq Indices
    <2>1. n \in 0 .. MaxPaginas /\ MaxPaginas \in Nat
      BY <1>2, MaxPaginasEs DEF Tipo, TipoTabla
    <2> QED BY <2>1 DEF Indices
  <1>9. ASSUME NEW i \in 0 .. n - 1 PROVE <<p, i>> \in ConBloque
    <2>1. i \in Indices /\ i < n
      BY <1>8
    <2> QED BY <1>2, <1>3, <2>1 DEF ConBloque, Paginas, EnTabla
  <1>10. ASSUME NEW v \in ConBloque, v[1] = p
         PROVE  \E i \in 0 .. n - 1 : v = <<p, i>>
    <2>1. v \in Paginas /\ v[2] < n
      BY <1>2, <1>10 DEF ConBloque, EnTabla
    <2>2. v = <<p, v[2]>> /\ v[2] \in Nat
      BY <1>10, <2>1, PaginaPar, NadaFuera
    <2>3. v[2] \in 0 .. n - 1
      BY <1>8, <2>1, <2>2
    <2> QED BY <2>2, <2>3
  <1>11. \A v \in ConBloque : Entrada(v).bloque \in swap' <=> v[1] # p
    <2> SUFFICES ASSUME NEW v \in ConBloque PROVE Entrada(v).bloque \in swap' <=> v[1] # p
      OBVIOUS
    <2>1. Entrada(v).bloque \in swap
      BY DEF ConBloques
    <2>2. CASE v[1] = p
      BY <1>4, <1>10, <2>2
    <2>3. CASE v[1] # p
      <3>1. ASSUME NEW i \in 0 .. n - 1 PROVE Entrada(<<p, i>>).bloque # Entrada(v).bloque
        BY <1>9, <2>3 DEF ConBloques
      <3> QED BY <1>4, <2>1, <2>3, <3>1
    <2> QED BY <2>2, <2>3
  <1>12. \A v \in ConBloque' : v \in ConBloque /\ Entrada(v)'.bloque = Entrada(v).bloque
    BY <1>6, <1>7 DEF ConBloque
  <1>13. swap' = {Entrada(v)'.bloque : v \in ConBloque'}
    <2>1. swap' \subseteq swap
      BY <1>4
    <2> QED BY <1>6, <1>11, <1>12, <2>1 DEF ConBloques
  <1>14. \A v, w \in ConBloque' : Entrada(v)'.bloque = Entrada(w)'.bloque => v = w
    BY <1>12 DEF ConBloques
  <1> QED BY <1>13, <1>14 DEF ConBloques

LEMMA PasoTodoBloques ==
  ASSUME IInv, [Next]_vars
  PROVE  ConBloques'
  <1>1. Tipo /\ Lugar /\ ConMarcos /\ ConBloques
    BY DEF IInv
  <1>2. CASE UNCHANGED vars
    <2>1. Quietas
      BY <1>2 DEF vars, Quietas, tablaVars, marcoVars, swapVars, Entrada
    <2> QED BY <1>1, <2>1, OtrosBloques
  <1>3. CASE Programas \/ HiloCpu \/ HiloFs
    BY <1>1, <1>3, OtrosTipo, OtrosBloques
  <1>4. CASE HiloKernel
    BY <1>1, <1>4, KernelBloques, AsignarSwapBloques, FinalizarProcesoBloques DEF HiloKernel
  <1> QED BY <1>2, <1>3, <1>4 DEF Next

-----------------------------------------------------------------------------
(* The theorems *)

LEMMA InicioInv ==
  ASSUME Init
  PROVE  IInv
  <1>1. \A p \in Procs : ~Existe(p)
    BY DEF Init, Existe, ToSet
  <1>2. \A v \in Paginas : Entrada(v) = EntradaNueva
    BY PaginaPar DEF Init, Entrada
  <1>3. Presentes = {} /\ ConBloque = {}
    BY <1>1, PaginaPar DEF Presentes, ConBloque
  <1>4. Tipo
    <2>1. TipoTabla
      <3>1. MaxPaginas \in Nat
        BY MaxPaginasEs
      <3>2. 0 \in 0 .. MaxPaginas /\ <<>> \in Seq(Procs)
        BY <3>1
      <3> QED BY <3>2, EntradaNuevaTipo DEF Init, TipoTabla
    <2>2. TipoMarcos
      BY DEF Init, TipoMarcos, Palabras
    <2>3. TipoProcesos
      BY DEF Init, TipoProcesos
    <2>4. TipoHilos
      BY KernelLibreTipo, SinAccesoTipo DEF Init, TipoHilos
    <2> QED BY <2>1, <2>2, <2>3, <2>4 DEF Tipo
  <1>5. Lugar
    <2>1. Mensajeria
      BY DEF Init, Mensajeria
    <2>2. Servicio
      BY DEF Init, Servicio, KernelLibre, PasosIni, PasosPf, PasosFin
    <2>3. Accesorios
      BY DEF Init, Accesorios, EnAcceso, SinAcceso
    <2>4. Tablas
      BY <1>1, <1>2 DEF Init, Tablas, EntradaNueva
    <2> QED BY <2>1, <2>2, <2>3, <2>4 DEF Lugar
  <1>6. ConMarcos
    BY <1>3 DEF Init, ConMarcos, MarcosCoherentes, UnaPaginaPorMarco, EnTransito, KernelLibre
  <1>7. ConBloques
    BY <1>3 DEF Init, ConBloques
  <1> QED BY <1>4, <1>5, <1>6, <1>7 DEF IInv

LEMMA PasoInv ==
  ASSUME IInv, [Next]_vars
  PROVE  IInv'
  BY PasoTodoTipo, PasoTodoLugar, PasoTodoMarcos, PasoTodoBloques DEF IInv

LEMMA Invariante == Spec => []IInv
  <1>1. Init => IInv
    BY InicioInv
  <1>2. IInv /\ [Next]_vars => IInv'
    BY PasoInv
  <1> QED BY <1>1, <1>2, PTL DEF Spec

\* The variables of memoria keep their types, whatever the programs and the messages do: no
\* step of manejo_conexion_kernel writes a table, a frame or a block that is not there.
THEOREM TiposDeMemoria == Spec => []TypeOK
  <1>1. IInv => TypeOK
    <2> SUFFICES ASSUME IInv PROVE TypeOK
      OBVIOUS
    <2>1. TipoTabla /\ TipoMarcos /\ TipoProcesos /\ TipoHilos
      BY DEF IInv, Tipo
    <2>2. \A m \in por_enviar \cup ToSet(pedidos) : m.pid \in Procs
      <3>1. \A m \in Mensajes : m.pid \in Procs
        BY DEF Mensajes
      <3>2. ToSet(pedidos) \subseteq Mensajes
        BY <2>1, MensajesTipo DEF ToSet, IInv
      <3> QED BY <2>1, <3>1, <3>2 DEF TipoProcesos
    <2>3. kernel.marco \in Marcos \cup {Nada} /\ kernel.victima \in Paginas \cup {NoPagina}
      BY <2>1 DEF TipoHilos, Kernels
    <2>4. \A a \in {cpu, fs} : a.marco \in Marcos \cup {Nada} /\ a.pagina \in Paginas \cup {NoPagina}
      BY <2>1 DEF TipoHilos, Hilos
    <2>5. \A a \in pedidos_fs : a.pid \in Procs /\ a.marco \in Marcos
      BY DEF IInv, Lugar, Accesorios, EnAcceso
    <2> QED BY <2>1, <2>2, <2>3, <2>4, <2>5
            DEF TypeOK, TipoTabla, TipoMarcos, TipoProcesos, TipoHilos, Entradas
  <1> QED BY <1>1, Invariante, PTL

\* For every number of processes, pages and frames: the frames and the page tables agree
\* after any order of faults, replacements, starts and exits.
THEOREM MarcosSiempre == Spec => []MarcosCoherentes
  <1>1. IInv => MarcosCoherentes
    BY DEF IInv, ConMarcos
  <1> QED BY <1>1, Invariante, PTL

\* Every page of a living process owns a swap block of its own, and the bitmap of filesystem
\* has these blocks and no other: INICIO_SWAP and limpiar_swap lose none and share none.
THEOREM SwapSiempre == Spec => []SwapExclusivo
  <1>1. IInv => SwapExclusivo
    <2> SUFFICES ASSUME IInv PROVE SwapExclusivo
      OBVIOUS
    <2> DEFINE f == [v \in ConBloque |-> Entrada(v).bloque]
    <2>1. ConBloques
      BY DEF IInv
    <2>2. f \in Bijection(ConBloque, swap)
      BY <2>1 DEF ConBloques, Bijection, Injection, Surjection, IsInjective
    <2>3. IsFiniteSet(ConBloque)
      <3>1. IsFiniteSet(Procs) /\ IsFiniteSet(Indices)
        BY MemoriaSupuestos, MaxPaginasEs, FS_Interval DEF Indices
      <3>2. IsFiniteSet(Paginas)
        BY <3>1, FS_Product DEF Paginas
      <3>3. ConBloque \subseteq Paginas
        BY DEF ConBloque
      <3> QED BY <3>2, <3>3, FS_Subset
    <2>4. Cardinality(swap) = Cardinality(ConBloque)
      <3>1. ExistsBijection(ConBloque, swap)
        BY <2>2 DEF ExistsBijection
      <3> HIDE DEF f
      <3> QED BY <2>3, <3>1, FS_Bijection
    <2> QED BY <2>1, <2>4 DEF SwapExclusivo, ConBloques
  <1> QED BY <1>1, Invariante, PTL
=============================================================================
