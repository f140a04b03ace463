--------------------------- MODULE Archivos_proofs ---------------------------
(***************************************************************************)
(* Proofs about Archivos for every set of processes and every bound:       *)
(* types, EscritorSolo, SoloCaeSi and, at the end, that the table of open  *)
(* files implements Cerrojo.                                               *)
(***************************************************************************)
EXTENDS Archivos, Lemas

-----------------------------------------------------------------------------
(* The inductive invariant *)

Espera  == [proceso : Procesos, modo : Modos]
Entradas == [lock : {"R", "W", "N"}, contador : Int, colabloqueado : Seq(Espera),
             liberada : BOOLEAN]

Estados  == {"ready", "exec", "fs", "archivo", "exit", "fin"}
DeExec(n) == [proceso : Procesos \cup {Nadie}, modo : Modos, g : 0 .. n,
              paso : {"elegir", "seguir", "abrir", "abrir_fs", "cerrar"}]
DeSalida(n) == [proceso : Procesos \cup {Nadie}, paso : {"esperar", "probar"}, g : 0 .. n]

\* TypeOK, with the sequences it leaves open.
TipoTabla == globales \in Seq(Entradas) /\ lista_archivos_abiertos \in Seq(1 .. Len(globales))

TipoProcesos ==
  /\ archivos_abiertos \in [Procesos -> BOOLEAN]
  /\ abierto \in [Procesos -> Modos \cup {"no"}]
  /\ estado \in [Procesos -> Estados]
  /\ usos \in [Procesos -> 0 .. MaxUsos]

TipoHilos ==
  /\ exec \in DeExec(Len(globales)) /\ salida \in DeSalida(Len(globales))
  /\ cola_exit \in Seq(Procesos) /\ caido \in {"no", "nulo", "uso_liberado"}

Tipo == TipoTabla /\ TipoProcesos /\ TipoHilos

\* Where the process of each thread is, and what it has open there.
LugarExec ==
  /\ exec.proceso = Nadie <=> exec.paso = "elegir"
  /\ exec.proceso # Nadie => estado[exec.proceso] = "exec"
  /\ exec.paso = "abrir" => exec.g # NULL
  /\ exec.paso \in {"abrir", "abrir_fs"} => abierto[exec.proceso] = "no"
  /\ exec.paso = "cerrar" => abierto[exec.proceso] # "no"

LugarSalida ==
  /\ salida.proceso # Nadie =>
       /\ estado[salida.proceso] = "exit" /\ salida.g # NULL /\ salida.paso = "probar"
  /\ \A i \in DOMAIN cola_exit :
       estado[cola_exit[i]] = "exit" /\ cola_exit[i] # salida.proceso
  /\ \A i, j \in DOMAIN cola_exit : cola_exit[i] = cola_exit[j] => i = j

\* Whoever waits is in one place of one queue.
LugarCola ==
  /\ \A g \in DOMAIN globales : \A i \in DOMAIN globales[g].colabloqueado :
       estado[globales[g].colabloqueado[i].proceso] = "archivo"
  /\ \A g, h \in DOMAIN globales :
       \A i \in DOMAIN globales[g].colabloqueado, j \in DOMAIN globales[h].colabloqueado :
         globales[g].colabloqueado[i].proceso = globales[h].colabloqueado[j].proceso
           => g = h /\ i = j

\* An entry of its own is one of a file that is open, but for whom exit_pcb destroys.
Propias ==
  \A p \in Procesos :
    /\ archivos_abiertos[p] /\ salida.proceso # p => abierto[p] # "no"
    /\ estado[p] \in {"archivo", "fin"} => abierto[p] = "no"

Lugar == LugarExec /\ LugarSalida /\ LugarCola /\ Propias

\* While kf_close hands the file over as a whole, and readers do not write, ...
Limpio == fuera \cap {"lector_con_escritor", "escritor_espera_detras", "lector_escribe"} = {}

\* ... those who will still be taken off the counter ...
Cuentan ==
  {p \in Procesos : abierto[p] # "no" /\
     (estado[p] = "exit" => archivos_abiertos[p] /\ salida.proceso # p)}

EnTabla == globales[lista_archivos_abiertos[1]]

\* ... have the one entry of the table, ...
UnaEntrada ==
  /\ Len(lista_archivos_abiertos) <= 1
  /\ lista_archivos_abiertos # <<>> => ~EnTabla.liberada /\ EnTabla.lock # "N"
  /\ exec.paso \in {"abrir", "cerrar"} /\ exec.g # NULL /\ ~globales[exec.g].liberada
       => lista_archivos_abiertos = <<exec.g>>
  /\ exec.paso = "abrir_fs" => lista_archivos_abiertos = <<>>
  /\ exec.paso = "cerrar" => exec.g # NULL

\* ... which counts no fewer than there are, and one if it is a writer's.
Contados ==
  /\ IsFiniteSet(Cuentan)
  /\ lista_archivos_abiertos = <<>> => Cuentan = {}
  /\ lista_archivos_abiertos # <<>> =>
       /\ Cardinality(Cuentan) <= EnTabla.contador
       /\ EnTabla.lock = "W" => EnTabla.contador <= 1
       /\ \A p \in Cuentan : abierto[p] = "W" => EnTabla.lock = "W"

Cuenta == Limpio => UnaEntrada /\ Contados

\* What fuera says of a process without its own entry, of one that ended with the file
\* open, of an entry that was freed, of a reader that wrote.
Marcas ==
  /\ \A p \in Procesos : abierto[p] # "no" /\ ~archivos_abiertos[p] => "lector_sumado" \in fuera
  /\ \A p \in Procesos : archivos_abiertos[p] /\ estado[p] = "exit" => "muere_abierto" \in fuera
  /\ \A g \in DOMAIN globales : globales[g].liberada => "muere_abierto" \in fuera
  /\ "lector_escribe" \in fuera => "muere_abierto" \in fuera
  /\ salida.proceso # Nadie => "muere_abierto" \in fuera

-----------------------------------------------------------------------------
(* The operators on sequences *)

\* The only entry leaves the table; one that is not there does not.
LEMMA RemoveFirstUna ==
  /\ \A e : RemoveFirst(<<e>>, e) = <<>>
  /\ \A e, d : e # d => RemoveFirst(<<d>>, e) = <<d>>
  /\ \A e : RemoveFirst(<<>>, e) = <<>>
  <1>1. ASSUME NEW e PROVE RemoveFirst(<<e>>, e) = <<>>
    <2> DEFINE I == {i \in 1 .. Len(<<e>>) : <<e>>[i] = e}
    <2>1. I = {1}
      OBVIOUS
    <2>2. Min({1}) = 1
      BY DEF Min
    <2>3. RemoveFirst(<<e>>, e) = RemoveAt(<<e>>, Min(I))
      BY <2>1 DEF RemoveFirst, SelectInSeq
    <2>4. RemoveAt(<<e>>, 1) = <<>>
      BY DEF RemoveAt
    <2> QED BY <2>1, <2>2, <2>3, <2>4
  <1>2. ASSUME NEW e, NEW d, e # d PROVE RemoveFirst(<<d>>, e) = <<d>>
    <2>1. ~\E i \in 1 .. Len(<<d>>) : <<d>>[i] = e
      BY <1>2
    <2> QED BY <2>1 DEF RemoveFirst, SelectInSeq
  <1>3. ASSUME NEW e PROVE RemoveFirst(<<>>, e) = <<>>
    BY DEF RemoveFirst, SelectInSeq
  <1> QED BY <1>1, <1>2, <1>3

Elige(cola, modo, f, n) ==
  IF n = 0 THEN <<>>
  ELSE IF cola[n].modo = modo THEN Append(f[n - 1], cola[n]) ELSE f[n - 1]

\* The recursive function of Los exists.
LEMMA LosExiste ==
  ASSUME NEW cola, NEW modo, NEW m \in Nat
  PROVE  \E f : f = [n \in 0 .. m |-> Elige(cola, modo, f, n)]
  <1> DEFINE Buena(k, f) == f = [n \in 0 .. k |-> Elige(cola, modo, f, n)]
             B == {k \in Nat : \E f : Buena(k, f)}
  <1>1. 0 \in B
    <2> DEFINE f == [n \in 0 .. 0 |-> <<>>]
    <2>1. Buena(0, f)
      BY DEF Elige
    <2> QED BY <2>1
  <1>2. ASSUME NEW k \in B PROVE k + 1 \in B
    <2>1. PICK f : Buena(k, f)
      OBVIOUS
    <2> DEFINE g == [n \in 0 .. k + 1 |-> IF n <= k THEN f[n] ELSE Elige(cola, modo, f, n)]
    <2>2. ASSUME NEW n \in 0 .. k + 1 PROVE g[n] = Elige(cola, modo, g, n)
      <3>1. CASE n = 0
        BY <3>1, <2>1 DEF Elige
      <3>2. CASE n # 0
        <4>1. g[n - 1] = f[n - 1]
          BY <3>2
        <4>2. Elige(cola, modo, g, n) = Elige(cola, modo, f, n)
          BY <3>2, <4>1 DEF Elige
        <4>3. ASSUME n <= k PROVE f[n] = Elige(cola, modo, f, n)
          <5>1. f = [x \in 0 .. k |-> Elige(cola, modo, f, x)]
            BY <2>1
          <5>2. n \in 0 .. k
            BY <4>3
          <5> HIDE DEF Buena, B
          <5> QED BY ONLY <5>1, <5>2
        <4> QED BY <4>2, <4>3
      <3> QED BY <3>1, <3>2
    <2>3. Buena(k + 1, g)
      BY <2>2
    <2> HIDE DEF g, Buena
    <2> QED BY <2>3
  <1>3. B = Nat
    <2>1. B \in SUBSET Nat
      OBVIOUS
    <2> HIDE DEF B
    <2> QED BY <1>1, <1>2, <2>1, Induccion
  <1> QED BY <1>3

\* w gives the place in the queue of each one of l: those of that mode, once each, all of them.
Lugares(w, l, cola, modo) ==
  /\ w \in [1 .. Len(l) -> 1 .. Len(cola)]
  /\ \A i \in 1 .. Len(l) : l[i] = cola[w[i]] /\ cola[w[i]].modo = modo
  /\ \A i, j \in 1 .. Len(l) : w[i] = w[j] => i = j
  /\ \A k \in 1 .. Len(cola) : cola[k].modo = modo => \E i \in 1 .. Len(l) : w[i] = k

\* Los takes those from the queue.
LEMMA LosTipo ==
  ASSUME NEW S, NEW cola \in Seq(S), NEW modo
  PROVE  /\ Los(cola, modo) \in Seq(S)
         /\ \E w : Lugares(w, Los(cola, modo), cola, modo)
  <1> DEFINE m == Len(cola)
             F == CHOOSE f : f = [n \in 0 .. m |-> Elige(cola, modo, f, n)]
             Toma(n, w) ==
               /\ w \in [1 .. Len(F[n]) -> 1 .. n]
               /\ \A i \in 1 .. Len(F[n]) : F[n][i] = cola[w[i]] /\ cola[w[i]].modo = modo
               /\ \A i, j \in 1 .. Len(F[n]) : w[i] = w[j] => i = j
               /\ \A k \in 1 .. n :
                    cola[k].modo = modo => \E i \in 1 .. Len(F[n]) : w[i] = k
             B == {n \in Nat : n <= m => F[n] \in Seq(S) /\ \E w : Toma(n, w)}
  <1>1. m \in Nat /\ \A i \in 1 .. m : cola[i] \in S
    OBVIOUS
  <1>2. F = [n \in 0 .. m |-> Elige(cola, modo, F, n)]
    BY <1>1, LosExiste
  <1>3. Los(cola, modo) = F[m]
    BY DEF Los, Elige
  <1>4. \A n \in 0 .. m : F[n] = Elige(cola, modo, F, n)
    BY <1>2
  <1> HIDE DEF F, m, Toma
  <1>5. 0 \in B
    <2> DEFINE w == [i \in 1 .. 0 |-> 1]
    <2>1. F[0] = Elige(cola, modo, F, 0)
      BY <1>1, <1>4
    <2>2. F[0] = <<>>
      BY <2>1 DEF Elige
    <2>3. Toma(0, w)
      BY <2>2 DEF Toma
    <2>4. F[0] \in Seq(S)
      BY <2>2
    <2> HIDE DEF w
    <2> QED BY <2>3, <2>4
  <1>6. ASSUME NEW n \in B PROVE n + 1 \in B
    <2> SUFFICES ASSUME n + 1 <= m PROVE F[n + 1] \in Seq(S) /\ \E w : Toma(n + 1, w)
      OBVIOUS
    <2>1. F[n] \in Seq(S) /\ Len(F[n]) \in Nat
      BY <1>1
    <2>2. PICK w : Toma(n, w)
      BY <1>1
    <2>3. F[n + 1] = IF cola[n + 1].modo = modo THEN Append(F[n], cola[n + 1]) ELSE F[n]
      BY <1>1, <1>4 DEF Elige
    <2>4. CASE cola[n + 1].modo # modo
      <3>1. F[n + 1] = F[n]
        BY <2>3, <2>4
      <3>2. Toma(n + 1, w)
        BY <2>1, <2>2, <2>4, <3>1 DEF Toma
      <3> QED BY <2>1, <3>1, <3>2
    <2>5. CASE cola[n + 1].modo = modo
      <3>1. F[n + 1] = Append(F[n], cola[n + 1]) /\ cola[n + 1] \in S
        BY <1>1, <2>3, <2>5
      <3> DEFINE l == Len(F[n])
                 v == [i \in 1 .. l + 1 |-> IF i = l + 1 THEN n + 1 ELSE w[i]]
      <3>2. F[n + 1] \in Seq(S) /\ Len(F[n + 1]) = l + 1
        BY <2>1, <3>1
      <3>3. \A i \in 1 .. l + 1 :
              F[n + 1][i] = IF i = l + 1 THEN cola[n + 1] ELSE F[n][i]
        BY <2>1, <3>1
      <3>w. w \in [1 .. l -> 1 .. n] /\ l \in Nat /\ n \in Nat
        BY <2>1, <2>2 DEF Toma
      <3>v. v[l + 1] = n + 1 /\ \A i \in 1 .. l : v[i] = w[i] /\ v[i] \in 1 .. n
        BY <3>w
      <3>4. v \in [1 .. l + 1 -> 1 .. n + 1]
        BY <3>w
      <3>5. \A i \in 1 .. l + 1 : F[n + 1][i] = cola[v[i]] /\ cola[v[i]].modo = modo
        BY <2>1, <2>2, <2>5, <3>3 DEF Toma
      <3>6. \A i, j \in 1 .. l + 1 : v[i] = v[j] => i = j
        <4> HIDE DEF v
        <4>1. \A i, j \in 1 .. l : w[i] = w[j] => i = j
          BY <2>2 DEF Toma
        <4>2. \A i \in 1 .. l + 1 : i = l + 1 \/ i \in 1 .. l
          BY <3>w
        <4> QED BY <3>w, <3>v, <4>1, <4>2
      <3>7. \A k \in 1 .. n + 1 : cola[k].modo = modo => \E i \in 1 .. l + 1 : v[i] = k
        <4> HIDE DEF v
        <4>1. \A k \in 1 .. n : cola[k].modo = modo => \E i \in 1 .. l : w[i] = k
          BY <2>2 DEF Toma
        <4>2. ASSUME NEW k \in 1 .. n + 1, cola[k].modo = modo
              PROVE  \E i \in 1 .. l + 1 : v[i] = k
          <5>1. CASE k = n + 1
            BY <3>w, <3>v, <5>1
          <5>2. CASE k # n + 1
            BY <3>w, <3>v, <4>1, <4>2, <5>2, SMTT(30)
          <5> QED BY <5>1, <5>2
        <4> QED BY <4>2
      <3> HIDE DEF v
      <3>8. Toma(n + 1, v)
        BY <3>2, <3>4, <3>5, <3>6, <3>7 DEF Toma
      <3> QED BY <3>2, <3>8
    <2> QED BY <2>4, <2>5
  <1>7. B = Nat
    <2>1. B \in SUBSET Nat
      OBVIOUS
    <2> HIDE DEF B
    <2> QED BY <1>5, <1>6, <2>1, Induccion
  <1>8. F[m] \in Seq(S) /\ \E w : Toma(m, w)
    BY <1>1, <1>7
  <1>9. PICK w : Toma(m, w)
    BY <1>8
  <1>10. Lugares(w, F[m], cola, modo)
    BY <1>9 DEF Lugares, Toma, m
  <1> QED BY <1>3, <1>8, <1>10

-----------------------------------------------------------------------------
(* Types and places *)

LEMMA NadieNoEsProceso == \A p \in Procesos : p # Nadie
  BY ArchivosSupuestos

\* A new entry.
LEMMA EntradaTipo ==
  ASSUME NEW l \in Modos, NEW n \in Int
  PROVE  Entrada(l, n) \in Entradas
  BY DEF Entrada, Entradas, Modos

\* What kf_close makes of the entry: its queue stays.
LEMMA SoltadaTipo ==
  ASSUME NEW e \in Entradas, NEW propia \in BOOLEAN
  PROVE  /\ Soltada(e, propia) \in Entradas
         /\ Soltada(e, propia).colabloqueado = e.colabloqueado
         /\ Soltada(e, propia).liberada = e.liberada
  <1> DEFINE c == IF e.lock = "R" THEN e.contador - 1 ELSE e.contador
  <1>0. e.contador \in Int
    BY DEF Entradas
  <1>1. c \in Int
    BY <1>0
  <1>2. /\ [e EXCEPT !.lock = "N", !.contador = 0] \in Entradas
        /\ [e EXCEPT !.lock = "N", !.contador = 0].colabloqueado = e.colabloqueado
        /\ [e EXCEPT !.lock = "N", !.contador = 0].liberada = e.liberada
    <2>1. [e EXCEPT !.lock = "N"] \in Entradas /\ [e EXCEPT !.contador = 0] \in Entradas
      BY DEF Entradas
    <2> QED BY <2>1 DEF Entradas
  <1> HIDE DEF c
  <1>3. /\ [e EXCEPT !.contador = c] \in Entradas
        /\ [e EXCEPT !.contador = c].colabloqueado = e.colabloqueado
        /\ [e EXCEPT !.contador = c].liberada = e.liberada
    BY <1>1 DEF Entradas
  <1>4. Soltada(e, propia) \in {e, [e EXCEPT !.lock = "N", !.contador = 0], [e EXCEPT !.contador = c]}
    BY DEF Soltada, c
  <1> QED BY <1>2, <1>3, <1>4

\* The table only ever grows: pointers stay in it.
LEMMA ListaTipo ==
  ASSUME NEW s \in Seq(1 .. Len(globales)), globales' \in Seq(Entradas),
         globales \in Seq(Entradas), Len(globales') >= Len(globales)
  PROVE  s \in Seq(1 .. Len(globales'))
  <1>1. Len(globales) \in Nat /\ Len(globales') \in Nat
    OBVIOUS
  <1>2. 1 .. Len(globales) \subseteq 1 .. Len(globales')
    BY <1>1
  <1> QED BY <1>2

\* No queue gains anybody, and whoever waits goes on waiting.
LEMMA ColaIgual ==
  ASSUME LugarCola,
         \A g \in DOMAIN globales' :
           \/ globales'[g].colabloqueado = <<>>
           \/ g \in DOMAIN globales /\ globales'[g].colabloqueado = globales[g].colabloqueado,
         \A q : estado[q] = "archivo" => estado'[q] = "archivo"
  PROVE  LugarCola'
  BY DEF LugarCola

\* The entries that pointers lead to stay when the table of objects grows.
LEMMA HilosCrecen ==
  ASSUME NEW n \in Nat, NEW m \in Nat, n <= m
  PROVE  DeExec(n) \subseteq DeExec(m) /\ DeSalida(n) \subseteq DeSalida(m)
  <1>1. 0 .. n \subseteq 0 .. m
    OBVIOUS
  <1> QED BY <1>1 DEF DeExec, DeSalida

\* exec_pcb and exit_pcb without a process.
LEMMA LibreTipo ==
  ASSUME NEW n \in Nat
  PROVE  EjecutorLibre \in DeExec(n) /\ SalidaLibre \in DeSalida(n)
  <1>1. 0 \in 0 .. n
    OBVIOUS
  <1> QED BY <1>1 DEF EjecutorLibre, SalidaLibre, DeExec, DeSalida, Modos, NULL

\* The entry that is found is one of the table, or NULL.
LEMMA BuscarTipo ==
  ASSUME TipoTabla
  PROVE  /\ buscarArchivoGlobal \in 0 .. Len(globales)
         /\ buscarArchivoGlobal # NULL <=> lista_archivos_abiertos # <<>>
         /\ lista_archivos_abiertos # <<>> =>
              /\ buscarArchivoGlobal = lista_archivos_abiertos[1]
              /\ buscarArchivoGlobal \in DOMAIN globales
  BY DEF TipoTabla, buscarArchivoGlobal, NULL

LEMMA LenTipo ==
  ASSUME TipoTabla
  PROVE  Len(globales) \in Nat /\ DOMAIN globales = 1 .. Len(globales)
  BY DEF TipoTabla

\* Who waits in the queue of an entry.
LEMMA EnColaTipo ==
  ASSUME TipoTabla, NEW g \in DOMAIN globales
  PROVE  /\ globales[g] \in Entradas
         /\ globales[g].colabloqueado \in Seq(Espera)
         /\ \A i \in DOMAIN globales[g].colabloqueado :
              /\ globales[g].colabloqueado[i] \in Espera
              /\ globales[g].colabloqueado[i].proceso \in Procesos
              /\ globales[g].colabloqueado[i].modo \in Modos
  <1>1. globales[g] \in Entradas
    BY LenTipo DEF TipoTabla
  <1>2. globales[g].colabloqueado \in Seq(Espera)
    BY <1>1 DEF Entradas
  <1>3. \A i \in DOMAIN globales[g].colabloqueado : globales[g].colabloqueado[i] \in Espera
    BY <1>2
  <1> QED BY <1>1, <1>2, <1>3 DEF Espera

\* One lemma per action: it keeps the types and the places.
LEMMA ElegirLugar ==
  ASSUME Tipo, Lugar, NEW p \in Procesos, Elegir(p)
  PROVE  Tipo' /\ Lugar'
  <1>1. TipoTabla' /\ Len(globales) \in Nat
    BY LenTipo DEF Elegir, tablaVars, Tipo, TipoTabla
  <1>2. /\ exec' = [EjecutorLibre EXCEPT !.proceso = p, !.paso = "seguir"]
        /\ exec'.proceso = p /\ exec'.paso = "seguir"
    BY DEF Elegir, EjecutorLibre
  <1>3. TipoProcesos'
    BY DEF Elegir, tablaVars, Tipo, TipoProcesos, Estados
  <1>4. TipoHilos'
    <2>1. [EjecutorLibre EXCEPT !.proceso = p, !.paso = "seguir"] \in DeExec(Len(globales))
      BY <1>1, LibreTipo DEF DeExec
    <2> QED BY <1>2, <2>1 DEF Elegir, tablaVars, salidaVars, Tipo, TipoHilos
  <1>5. LugarExec'
    BY <1>2, NadieNoEsProceso DEF Elegir, Tipo, TipoProcesos, LugarExec
  <1>6. LugarSalida'
    BY DEF Elegir, salidaVars, Tipo, TipoHilos, TipoProcesos, Lugar, LugarSalida
  <1>7. LugarCola'
    <2>1. \A q : estado[q] = "archivo" => estado'[q] = "archivo"
      BY DEF Elegir, Tipo, TipoProcesos
    <2> QED BY <2>1, ColaIgual DEF Elegir, tablaVars, Lugar
  <1>8. Propias'
    BY DEF Elegir, tablaVars, salidaVars, Tipo, TipoProcesos, Lugar, Propias
  <1> QED BY <1>1, <1>3, <1>4, <1>5, <1>6, <1>7, <1>8 DEF Tipo, Lugar

LEMMA AbrirLugar ==
  ASSUME Tipo, Lugar, NEW p \in Procesos, NEW modo \in Modos, Abrir(p, modo)
  PROVE  Tipo' /\ Lugar'
  <1> DEFINE paso == IF buscarArchivoGlobal = NULL THEN "abrir_fs" ELSE "abrir"
             g == buscarArchivoGlobal
  <1>1. TipoTabla' /\ Len(globales) \in Nat
    BY LenTipo DEF Abrir, tablaVars, Tipo, TipoTabla
  <1>2. exec' = [exec EXCEPT !.modo = modo, !.g = g, !.paso = paso]
    BY DEF Abrir
  <1>3. exec \in DeExec(Len(globales)) /\ exec.proceso = p /\ g \in 0 .. Len(globales)
    BY BuscarTipo DEF Abrir, Llamada, EnTurno, Tipo, TipoHilos
  <1>4. paso \in {"abrir", "abrir_fs"} /\ (paso = "abrir" => g # NULL)
    OBVIOUS
  <1> HIDE DEF g, paso
  <1>5. exec'.proceso = p /\ exec'.paso = paso /\ exec'.g = g
    BY <1>2, <1>3 DEF DeExec
  <1>6. TipoProcesos'
    BY ArchivosSupuestos DEF Abrir, Llamada, tablaVars, Tipo, TipoProcesos
  <1>7. TipoHilos'
    <2>1. [exec EXCEPT !.modo = modo, !.g = g, !.paso = paso] \in DeExec(Len(globales))
      BY <1>3, <1>4 DEF DeExec
    <2> QED BY <1>2, <2>1 DEF Abrir, tablaVars, salidaVars, Tipo, TipoHilos
  <1>8. LugarExec'
    BY <1>3, <1>4, <1>5, NadieNoEsProceso DEF Abrir, Lugar, LugarExec
  <1>9. LugarSalida' /\ LugarCola' /\ Propias'
    BY DEF Abrir, tablaVars, salidaVars, Lugar, LugarSalida, LugarCola, Propias
  <1> QED BY <1>1, <1>6, <1>7, <1>8, <1>9 DEF Tipo, Lugar

\* exec_pcb has its process in hand.
LEMMA EnManos ==
  ASSUME Tipo, Lugar, NEW p \in Procesos, exec.proceso = p
  PROVE  /\ estado[p] = "exec" /\ salida.proceso # p
         /\ \A i \in DOMAIN cola_exit : cola_exit[i] # p
         /\ \A g \in DOMAIN globales : \A i \in DOMAIN globales[g].colabloqueado :
              globales[g].colabloqueado[i].proceso # p
  <1>1. p # Nadie /\ estado[p] = "exec"
    BY NadieNoEsProceso DEF Lugar, LugarExec
  <1> QED BY <1>1 DEF Lugar, LugarSalida, LugarCola

\* It lets it go, to a place that is not the queue of a file or exit_pcb's.
LEMMA DejaLugar ==
  ASSUME Tipo, Lugar, NEW p \in Procesos, exec.proceso = p,
         NEW lugar \in Estados, Deja(p, lugar), Len(globales') \in Nat
  PROVE  /\ estado' \in [Procesos -> Estados]
         /\ exec' \in DeExec(Len(globales'))
         /\ LugarExec'
         /\ estado'[p] = lugar /\ \A q : q # p => estado'[q] = estado[q]
  <1>1. exec' = EjecutorLibre
    BY DEF Deja
  <1>2. estado' = [estado EXCEPT ![p] = lugar] /\ estado \in [Procesos -> Estados]
    BY DEF Deja, Tipo, TipoProcesos
  <1>3. estado' \in [Procesos -> Estados] /\ estado'[p] = lugar
    BY <1>2
  <1>4. ASSUME NEW q, q # p PROVE estado'[q] = estado[q]
    BY <1>2, <1>4
  <1>5. LugarExec'
    BY <1>1 DEF LugarExec, EjecutorLibre
  <1>6. exec' \in DeExec(Len(globales'))
    BY <1>1, LibreTipo
  <1> QED BY <1>3, <1>4, <1>5, <1>6

LEMMA UsarLugar ==
  ASSUME Tipo, Lugar, NEW p \in Procesos, NEW bloquea \in BOOLEAN, Usar(p, bloquea)
  PROVE  Tipo' /\ Lugar'
  <1>1. TipoTabla' /\ Len(globales') \in Nat
    BY LenTipo DEF Usar, tablaVars, Tipo, TipoTabla
  <1>2. exec.proceso = p /\ estado[p] = "exec" /\ abierto[p] # "no"
    BY EnManos DEF Usar, Llamada, EnTurno
  <1>3. usos' \in [Procesos -> 0 .. MaxUsos]
    BY ArchivosSupuestos DEF Usar, Llamada, Tipo, TipoProcesos
  <1>4. CASE UNCHANGED <<exec, estado>>
    <2>1. Tipo'
      BY <1>1, <1>3, <1>4
         DEF Usar, tablaVars, salidaVars, Tipo, TipoProcesos, TipoHilos, PunteroRoto
    <2>2. Lugar'
      BY <1>4 DEF Usar, tablaVars, salidaVars, Lugar, LugarExec, LugarSalida, LugarCola, Propias
    <2> QED BY <2>1, <2>2
  <1>5. CASE Deja(p, "fs") /\ UNCHANGED caido
    <2>1. /\ estado' \in [Procesos -> Estados] /\ exec' \in DeExec(Len(globales')) /\ LugarExec'
          /\ estado'[p] = "fs" /\ \A q : q # p => estado'[q] = estado[q]
      BY <1>1, <1>2, <1>5, DejaLugar DEF Estados
    <2>2. Tipo'
      BY <1>1, <1>3, <1>5, <2>1
         DEF Usar, tablaVars, salidaVars, Tipo, TipoProcesos, TipoHilos
    <2>3. LugarSalida' /\ LugarCola' /\ Propias'
      BY <1>2, <2>1
         DEF Usar, tablaVars, salidaVars, Lugar, LugarSalida, LugarCola, Propias
    <2> QED BY <2>1, <2>2, <2>3 DEF Lugar
  <1> QED BY <1>4, <1>5 DEF Usar

LEMMA CerrarLugar ==
  ASSUME Tipo, Lugar, NEW p \in Procesos, Cerrar(p)
  PROVE  Tipo' /\ Lugar'
  <1>1. TipoTabla' /\ Len(globales) \in Nat
    BY LenTipo DEF Cerrar, tablaVars, Tipo, TipoTabla
  <1> DEFINE g == buscarArchivoGlobal
  <1>2. exec' = [exec EXCEPT !.paso = "cerrar", !.g = g] /\ exec \in DeExec(Len(globales))
        /\ g \in 0 .. Len(globales) /\ exec.proceso = p
    BY BuscarTipo DEF Cerrar, EnTurno, Tipo, TipoHilos
  <1> HIDE DEF g
  <1>3. [exec EXCEPT !.paso = "cerrar", !.g = g] \in DeExec(Len(globales))
    BY <1>2 DEF DeExec
  <1>4. exec'.proceso = p /\ exec'.paso = "cerrar"
    BY <1>2 DEF DeExec
  <1>5. TipoProcesos' /\ TipoHilos'
    BY <1>2, <1>3 DEF Cerrar, tablaVars, salidaVars, Tipo, TipoProcesos, TipoHilos
  <1>6. LugarExec'
    BY <1>2, <1>4, NadieNoEsProceso DEF Cerrar, Lugar, LugarExec
  <1>7. LugarSalida' /\ LugarCola' /\ Propias'
    BY DEF Cerrar, tablaVars, salidaVars, Lugar, LugarSalida, LugarCola, Propias
  <1> QED BY <1>1, <1>5, <1>6, <1>7 DEF Tipo, Lugar

LEMMA CerrarRotoLugar ==
  ASSUME Tipo, Lugar, NEW p \in Procesos, CerrarRoto(p)
  PROVE  Tipo' /\ Lugar'
  <1>1. Tipo'
    BY DEF CerrarRoto, PunteroRoto, tablaVars, salidaVars, Tipo, TipoTabla, TipoProcesos,
           TipoHilos
  <1>2. Lugar'
    BY DEF CerrarRoto, tablaVars, salidaVars, Lugar, LugarExec, LugarSalida, LugarCola, Propias
  <1> QED BY <1>1, <1>2

LEMMA DesalojarLugar ==
  ASSUME Tipo, Lugar, NEW p \in Procesos, Desalojar(p)
  PROVE  Tipo' /\ Lugar'
  <1>1. TipoTabla' /\ Len(globales') \in Nat
    BY LenTipo DEF Desalojar, tablaVars, Tipo, TipoTabla
  <1>2. exec.proceso = p /\ estado[p] = "exec"
    BY EnManos DEF Desalojar, Llamada, EnTurno
  <1>3. usos' \in [Procesos -> 0 .. MaxUsos]
    BY ArchivosSupuestos DEF Desalojar, Llamada, Tipo, TipoProcesos
  <1>4. /\ estado' \in [Procesos -> Estados] /\ exec' \in DeExec(Len(globales')) /\ LugarExec'
        /\ estado'[p] = "ready" /\ \A q : q # p => estado'[q] = estado[q]
    BY <1>1, <1>2, DejaLugar DEF Estados, Desalojar
  <1>5. Tipo'
    BY <1>1, <1>3, <1>4
       DEF Desalojar, tablaVars, salidaVars, Tipo, TipoProcesos, TipoHilos
  <1>6. LugarSalida' /\ LugarCola' /\ Propias'
    BY <1>2, <1>4
       DEF Desalojar, tablaVars, salidaVars, Lugar, LugarSalida, LugarCola, Propias
  <1> QED BY <1>4, <1>5, <1>6 DEF Lugar

\* cola_exit gains a process that is not in it.
LEMMA ColaExitCrece ==
  ASSUME Tipo, Lugar, NEW p \in Procesos, exec.proceso = p,
         cola_exit' = Append(cola_exit, p), UNCHANGED salida, estado'[p] = "exit",
         \A q : q # p => estado'[q] = estado[q]
  PROVE  cola_exit' \in Seq(Procesos) /\ LugarSalida'
  <1>1. /\ estado[p] = "exec" /\ salida.proceso # p
        /\ \A i \in DOMAIN cola_exit : cola_exit[i] # p
    BY EnManos
  <1>2. cola_exit \in Seq(Procesos) /\ Len(cola_exit) \in Nat
        /\ DOMAIN cola_exit = 1 .. Len(cola_exit)
    BY DEF Tipo, TipoHilos
  <1>3. /\ cola_exit' \in Seq(Procesos) /\ DOMAIN cola_exit' = 1 .. Len(cola_exit) + 1
        /\ cola_exit'[Len(cola_exit) + 1] = p
        /\ \A i \in 1 .. Len(cola_exit) : cola_exit'[i] = cola_exit[i]
    BY <1>2
  <1>4. \A i \in 1 .. Len(cola_exit) + 1 : i = Len(cola_exit) + 1 \/ i \in 1 .. Len(cola_exit)
    BY <1>2
  <1>5. salida.proceso # Nadie => estado'[salida.proceso] = "exit" /\ salida.g # NULL
                                    /\ salida.paso = "probar"
    BY <1>1 DEF Lugar, LugarSalida
  <1>6. \A i \in DOMAIN cola_exit' :
          estado'[cola_exit'[i]] = "exit" /\ cola_exit'[i] # salida.proceso
    BY <1>1, <1>2, <1>3, <1>4 DEF Lugar, LugarSalida
  <1>7. \A i, j \in DOMAIN cola_exit' : cola_exit'[i] = cola_exit'[j] => i = j
    BY <1>1, <1>2, <1>3, <1>4 DEF Lugar, LugarSalida
  <1> QED BY <1>3, <1>5, <1>6, <1>7 DEF LugarSalida

LEMMA TerminarLugar ==
  ASSUME Tipo, Lugar, NEW p \in Procesos, Terminar(p)
  PROVE  Tipo' /\ Lugar'
  <1>1. TipoTabla' /\ Len(globales') \in Nat
    BY LenTipo DEF Terminar, tablaVars, Tipo, TipoTabla
  <1>2. exec.proceso = p /\ estado[p] = "exec"
    BY EnManos DEF Terminar, EnTurno
  <1>3. /\ estado' \in [Procesos -> Estados] /\ exec' \in DeExec(Len(globales')) /\ LugarExec'
        /\ estado'[p] = "exit" /\ \A q : q # p => estado'[q] = estado[q]
    BY <1>1, <1>2, DejaLugar DEF Estados, Terminar
  <1>4. cola_exit' \in Seq(Procesos) /\ LugarSalida'
    BY <1>2, <1>3, ColaExitCrece DEF Terminar
  <1>5. Tipo'
    BY <1>1, <1>3, <1>4
       DEF Terminar, tablaVars, Tipo, TipoProcesos, TipoHilos
  <1>6. LugarCola' /\ Propias'
    BY <1>2, <1>3
       DEF Terminar, tablaVars, Lugar, LugarCola, Propias
  <1> QED BY <1>3, <1>4, <1>5, <1>6 DEF Lugar

LEMMA RecibirLugar ==
  ASSUME Tipo, Lugar, NEW p \in Procesos, RecibirOpFS(p)
  PROVE  Tipo' /\ Lugar'
  <1>1. /\ estado[p] = "fs" /\ estado'[p] = "ready" /\ \A q : q # p => estado'[q] = estado[q]
        /\ estado' \in [Procesos -> Estados]
    BY DEF RecibirOpFS, Tipo, TipoProcesos, Estados
  <1>2. Tipo'
    BY <1>1 DEF RecibirOpFS, tablaVars, salidaVars, Tipo, TipoTabla, TipoProcesos, TipoHilos
  <1>3. Lugar'
    BY <1>1 DEF RecibirOpFS, tablaVars, salidaVars, Lugar, LugarExec, LugarSalida, LugarCola,
       Propias
  <1> QED BY <1>2, <1>3

\* exec_pcb is back between two calls.
LEMMA SigueLugar ==
  ASSUME Tipo, Lugar, NEW p \in Procesos, exec.proceso = p, Sigue,
         Len(globales') \in Nat, Len(globales) <= Len(globales')
  PROVE  /\ exec' \in DeExec(Len(globales')) /\ exec'.proceso = p /\ exec'.paso = "seguir"
         /\ exec'.g = NULL
  <1>1. exec \in DeExec(Len(globales)) /\ Len(globales) \in Nat
    BY LenTipo DEF Tipo, TipoHilos
  <1>2. exec \in DeExec(Len(globales'))
    BY <1>1, HilosCrecen
  <1>3. NULL \in 0 .. Len(globales')
    BY DEF NULL
  <1>4. [exec EXCEPT !.paso = "seguir", !.g = NULL] \in DeExec(Len(globales'))
    BY <1>2, <1>3 DEF DeExec
  <1> QED BY <1>2, <1>4 DEF Sigue, DeExec

LEMMA AbrirNuevoLugar ==
  ASSUME Tipo, Lugar, NEW p \in Procesos, AbrirNuevo(p)
  PROVE  Tipo' /\ Lugar'
  <1>1. /\ exec.proceso = p /\ exec.paso = "abrir_fs" /\ exec.modo \in Modos
        /\ abierto[p] = "no" /\ estado[p] = "exec" /\ salida.proceso # p
        /\ globales \in Seq(Entradas) /\ lista_archivos_abiertos \in Seq(1 .. Len(globales))
    BY EnManos DEF AbrirNuevo, EnPaso, Tipo, TipoHilos, TipoTabla, DeExec, Lugar, LugarExec
  <1> DEFINE e == Entrada(exec.modo, 1)
             n == Len(globales)
  <1>2. e \in Entradas /\ e.colabloqueado = <<>> /\ n \in Nat /\ DOMAIN globales = 1 .. n
    BY <1>1, EntradaTipo, LenTipo DEF Tipo, Entrada
  <1>3. globales' = Append(globales, e) /\ lista_archivos_abiertos' =
          Append(lista_archivos_abiertos, Len(globales'))
    BY DEF AbrirNuevo
  <1> HIDE DEF e
  <1>4. /\ globales' \in Seq(Entradas) /\ Len(globales') = n + 1
        /\ globales'[n + 1] = e /\ \A g \in 1 .. n : globales'[g] = globales[g]
        /\ DOMAIN globales' = 1 .. n + 1
    BY <1>1, <1>2, <1>3
  <1>5. lista_archivos_abiertos' \in Seq(1 .. Len(globales'))
    <2>1. lista_archivos_abiertos \in Seq(1 .. Len(globales'))
      BY <1>1, <1>2, <1>4, ListaTipo
    <2>2. Len(globales') \in 1 .. Len(globales')
      BY <1>2, <1>4
    <2> QED BY <1>3, <2>1, <2>2
  <1>6. /\ archivos_abiertos' \in [Procesos -> BOOLEAN]
        /\ \A q \in Procesos : archivos_abiertos'[q] <=> archivos_abiertos[q] \/ q = p
    BY DEF AbrirNuevo, ConEntrada, Tipo, TipoProcesos
  <1>7. /\ abierto' \in [Procesos -> Modos \cup {"no"}]
        /\ abierto'[p] # "no" /\ \A q \in Procesos : q # p => abierto'[q] = abierto[q]
    BY <1>1 DEF AbrirNuevo, Tipo, TipoProcesos, Modos
  <1>8. exec' \in DeExec(Len(globales')) /\ exec'.proceso = p /\ exec'.paso = "seguir"
    BY <1>1, <1>2, <1>4, SigueLugar DEF AbrirNuevo
  <1>9. salida \in DeSalida(Len(globales'))
    BY <1>2, <1>4, HilosCrecen DEF Tipo, TipoHilos
  <1>10. Tipo'
    BY <1>4, <1>5, <1>6, <1>7, <1>8, <1>9
       DEF AbrirNuevo, salidaVars, Tipo, TipoTabla, TipoProcesos, TipoHilos
  <1>11. LugarExec'
    BY <1>1, <1>8, NadieNoEsProceso DEF AbrirNuevo, LugarExec
  <1>12. LugarSalida'
    BY DEF AbrirNuevo, salidaVars, Lugar, LugarSalida
  <1>13. LugarCola'
    <2>1. \A g \in DOMAIN globales' :
            \/ globales'[g].colabloqueado = <<>>
            \/ g \in DOMAIN globales /\ globales'[g].colabloqueado = globales[g].colabloqueado
      <3>1. \A g \in 1 .. n + 1 : g = n + 1 \/ g \in 1 .. n
        BY <1>2
      <3> QED BY <1>2, <1>4, <3>1
    <2> QED BY <2>1, ColaIgual DEF AbrirNuevo, Lugar
  <1>14. Propias'
    BY <1>1, <1>6, <1>7 DEF AbrirNuevo, salidaVars, Lugar, Propias
  <1> QED BY <1>10, <1>11, <1>12, <1>13, <1>14 DEF Lugar

LEMMA AbrirCompartidoLugar ==
  ASSUME Tipo, Lugar, NEW p \in Procesos, AbrirCompartido(p)
  PROVE  Tipo' /\ Lugar'
  <1> DEFINE g == exec.g
  <1>1. /\ exec.proceso = p /\ exec.paso = "abrir" /\ exec.modo \in Modos
        /\ abierto[p] = "no" /\ estado[p] = "exec" /\ salida.proceso # p
        /\ globales \in Seq(Entradas) /\ lista_archivos_abiertos \in Seq(1 .. Len(globales))
        /\ g # NULL /\ g \in 0 .. Len(globales)
    BY EnManos DEF AbrirCompartido, EnPaso, Tipo, TipoHilos, TipoTabla, DeExec, Lugar, LugarExec
  <1>2. /\ Len(globales) \in Nat /\ DOMAIN globales = 1 .. Len(globales)
        /\ g \in DOMAIN globales /\ globales[g] \in Entradas
    BY <1>1, LenTipo DEF Tipo, NULL
  <1>3. /\ \A i \in DOMAIN cola_exit : cola_exit[i] # p
        /\ \A h \in DOMAIN globales : \A i \in DOMAIN globales[h].colabloqueado :
             globales[h].colabloqueado[i].proceso # p
    BY <1>1, EnManos
  <1>4. CASE /\ caido' = PunteroRoto(g)
             /\ UNCHANGED <<globales, abierto, estado, exec, fuera>>
    <2>1. Tipo'
      BY <1>4 DEF AbrirCompartido, PunteroRoto, salidaVars, Tipo, TipoTabla, TipoProcesos,
                  TipoHilos
    <2>2. Lugar'
      BY <1>4 DEF AbrirCompartido, salidaVars, Lugar, LugarExec, LugarSalida, LugarCola, Propias
    <2> QED BY <2>1, <2>2
  <1>5. CASE /\ globales' = [globales EXCEPT ![g].colabloqueado =
                  Append(@, [proceso |-> p, modo |-> exec.modo])]
             /\ Deja(p, "archivo")
             /\ UNCHANGED <<abierto, fuera, caido>>
    <2> DEFINE c == globales[g].colabloqueado
               y == [proceso |-> p, modo |-> exec.modo]
               d == Append(c, y)
    <2>1. y \in Espera /\ c \in Seq(Espera)
      BY <1>1, <1>2, EnColaTipo DEF Tipo, Espera
    <2>2. d \in Seq(Espera) /\ Len(c) \in Nat /\ DOMAIN c = 1 .. Len(c)
          /\ DOMAIN d = 1 .. Len(c) + 1
          /\ d[Len(c) + 1] = y /\ \A i \in 1 .. Len(c) : d[i] = c[i]
      <3> HIDE DEF c, y
      <3> QED BY <2>1
    <2> DEFINE e == [globales[g] EXCEPT !.colabloqueado = d]
    <2>3. e \in Entradas /\ e.colabloqueado = d
      BY <1>2, <2>2 DEF Entradas
    <2>4. globales' = [globales EXCEPT ![g] = e]
      BY <1>5
    <2> HIDE DEF e, d
    <2>5. /\ globales' \in Seq(Entradas) /\ Len(globales') = Len(globales)
          /\ DOMAIN globales' = DOMAIN globales
          /\ globales'[g] = e /\ \A h \in DOMAIN globales : h # g => globales'[h] = globales[h]
      BY <1>1, <1>2, <2>3, <2>4
    <2>6. /\ estado' \in [Procesos -> Estados] /\ exec' \in DeExec(Len(globales')) /\ LugarExec'
          /\ estado'[p] = "archivo" /\ \A q : q # p => estado'[q] = estado[q]
      BY <1>1, <1>2, <1>5, <2>5, DejaLugar DEF Estados
    <2>7. Tipo'
      BY <1>5, <2>5, <2>6
         DEF AbrirCompartido, salidaVars, Tipo, TipoTabla, TipoProcesos, TipoHilos
    <2>8. LugarSalida' /\ Propias'
      BY <1>1, <1>3, <1>5, <2>6 DEF AbrirCompartido, salidaVars, Lugar, LugarSalida, Propias
    <2>9. LugarCola'
      <3>1. y.proceso = p
        OBVIOUS
      <3> HIDE DEF y, g
      <3>2. \A i \in 1 .. Len(c) + 1 : i = Len(c) + 1 \/ i \in 1 .. Len(c)
        BY <2>2
      <3>3. ASSUME NEW h \in DOMAIN globales, NEW i \in DOMAIN globales'[h].colabloqueado
            PROVE  \/ /\ i \in DOMAIN globales[h].colabloqueado
                      /\ globales'[h].colabloqueado[i] = globales[h].colabloqueado[i]
                   \/ h = g /\ i = Len(c) + 1 /\ globales'[h].colabloqueado[i].proceso = p
        <4>1. CASE h = g
          BY <2>2, <2>3, <2>5, <3>1, <3>2, <4>1
        <4>2. CASE h # g
          BY <2>5, <4>2
        <4> QED BY <4>1, <4>2
      <3>4. \A h \in DOMAIN globales' : \A i \in DOMAIN globales'[h].colabloqueado :
              estado'[globales'[h].colabloqueado[i].proceso] = "archivo"
        BY <1>3, <2>5, <2>6, <3>3 DEF Lugar, LugarCola
      <3>5. ASSUME NEW h \in DOMAIN globales', NEW k \in DOMAIN globales',
                   NEW i \in DOMAIN globales'[h].colabloqueado,
                   NEW j \in DOMAIN globales'[k].colabloqueado,
                   globales'[h].colabloqueado[i].proceso = globales'[k].colabloqueado[j].proceso
            PROVE  h = k /\ i = j
        BY <1>3, <2>5, <3>3, <3>5 DEF Lugar, LugarCola
      <3> QED BY <3>4, <3>5 DEF LugarCola
    <2> QED BY <2>6, <2>7, <2>8, <2>9 DEF Lugar
  <1>6. CASE /\ globales' = [globales EXCEPT ![g].contador = @ + 1]
             /\ abierto' = [abierto EXCEPT ![p] = exec.modo]
             /\ Sigue
             /\ UNCHANGED <<estado, caido>>
    <2> DEFINE e == [globales[g] EXCEPT !.contador = @ + 1]
    <2>1. e \in Entradas /\ e.colabloqueado = globales[g].colabloqueado
      BY <1>2 DEF Entradas
    <2>2. globales' = [globales EXCEPT ![g] = e]
      BY <1>6
    <2> HIDE DEF e
    <2>3. /\ globales' \in Seq(Entradas) /\ Len(globales') = Len(globales)
          /\ DOMAIN globales' = DOMAIN globales
          /\ globales'[g] = e /\ \A h \in DOMAIN globales : h # g => globales'[h] = globales[h]
      BY <1>1, <1>2, <2>1, <2>2
    <2>4. /\ abierto' \in [Procesos -> Modos \cup {"no"}]
          /\ abierto'[p] # "no" /\ \A q \in Procesos : q # p => abierto'[q] = abierto[q]
      BY <1>1, <1>6 DEF Tipo, TipoProcesos, Modos
    <2>5. exec' \in DeExec(Len(globales')) /\ exec'.proceso = p /\ exec'.paso = "seguir"
      BY <1>1, <1>2, <1>6, <2>3, SigueLugar
    <2>6. Tipo'
      BY <1>6, <2>3, <2>4, <2>5
         DEF AbrirCompartido, salidaVars, Tipo, TipoTabla, TipoProcesos, TipoHilos
    <2>7. LugarExec'
      BY <1>1, <1>6, <2>5, NadieNoEsProceso DEF LugarExec
    <2>8. LugarSalida' /\ Propias'
      BY <1>1, <1>6, <2>4 DEF AbrirCompartido, salidaVars, Lugar, LugarSalida, Propias
    <2>9. LugarCola'
      <3>1. \A h \in DOMAIN globales' :
              h \in DOMAIN globales /\ globales'[h].colabloqueado = globales[h].colabloqueado
        BY <2>1, <2>3
      <3> QED BY <1>6, <3>1, ColaIgual DEF Lugar
    <2> QED BY <2>6, <2>7, <2>8, <2>9 DEF Lugar
  <1> QED BY <1>4, <1>5, <1>6 DEF AbrirCompartido

LEMMA EscribirLugar ==
  ASSUME Tipo, Lugar, NEW p \in Procesos, Escribir(p)
  PROVE  Tipo' /\ Lugar'
  <1> DEFINE g == buscarArchivoGlobal
  <1>1. /\ exec.proceso = p /\ abierto[p] # "no" /\ estado[p] = "exec" /\ salida.proceso # p
        /\ globales \in Seq(Entradas) /\ lista_archivos_abiertos \in Seq(1 .. Len(globales))
        /\ Len(globales) \in Nat /\ DOMAIN globales = 1 .. Len(globales)
    BY EnManos, LenTipo DEF Escribir, Llamada, EnTurno, Tipo, TipoTabla
  <1>2. usos' \in [Procesos -> 0 .. MaxUsos]
    BY ArchivosSupuestos DEF Escribir, Llamada, Tipo, TipoProcesos
  <1>6. UNCHANGED <<lista_archivos_abiertos, archivos_abiertos, abierto, salida>>
    BY DEF Escribir
  <1>3. CASE /\ UNCHANGED <<globales, estado, exec, cola_exit>>
             /\ caido' \in {caido, "nulo"}
    <2>1. Tipo'
      BY <1>2, <1>3 DEF Escribir, Tipo, TipoTabla, TipoProcesos, TipoHilos
    <2>2. Lugar'
      BY <1>3 DEF Escribir, Lugar, LugarExec, LugarSalida, LugarCola, Propias
    <2> QED BY <2>1, <2>2
  <1>4. CASE Deja(p, "fs") /\ UNCHANGED <<globales, cola_exit, caido>>
    <2>1. /\ estado' \in [Procesos -> Estados] /\ exec' \in DeExec(Len(globales')) /\ LugarExec'
          /\ estado'[p] = "fs" /\ \A q : q # p => estado'[q] = estado[q]
      BY <1>1, <1>4, DejaLugar DEF Estados
    <2>2. Tipo'
      BY <1>2, <1>4, <2>1 DEF Escribir, Tipo, TipoTabla, TipoProcesos, TipoHilos
    <2>3. LugarSalida' /\ LugarCola'
      BY <1>1, <1>4, <1>6, <2>1 DEF Lugar, LugarSalida, LugarCola
    <2>4. Propias'
      BY <1>1, <1>4, <1>6, <2>1 DEF Lugar, Propias
    <2> QED BY <2>1, <2>2, <2>3, <2>4 DEF Lugar
  <1>5. CASE /\ g # NULL
             /\ globales' = [globales EXCEPT ![g].contador = @ - 1]
             /\ cola_exit' = Append(cola_exit, p)
             /\ Deja(p, "exit")
             /\ UNCHANGED caido
    <2>0. g \in DOMAIN globales /\ globales[g] \in Entradas
      BY <1>1, <1>5, BuscarTipo DEF Tipo
    <2> DEFINE e == [globales[g] EXCEPT !.contador = @ - 1]
    <2>1. e \in Entradas /\ e.colabloqueado = globales[g].colabloqueado
      BY <2>0 DEF Entradas
    <2>2. globales' = [globales EXCEPT ![g] = e]
      BY <1>5
    <2> HIDE DEF e, g
    <2>3. /\ globales' \in Seq(Entradas) /\ Len(globales') = Len(globales)
          /\ DOMAIN globales' = DOMAIN globales
          /\ globales'[g] = e /\ \A h \in DOMAIN globales : h # g => globales'[h] = globales[h]
      BY <1>1, <2>0, <2>1, <2>2
    <2>4. /\ estado' \in [Procesos -> Estados] /\ exec' \in DeExec(Len(globales')) /\ LugarExec'
          /\ estado'[p] = "exit" /\ \A q : q # p => estado'[q] = estado[q]
      BY <1>1, <1>5, <2>3, DejaLugar DEF Estados
    <2>5. cola_exit' \in Seq(Procesos) /\ LugarSalida'
      BY <1>1, <1>5, <2>4, ColaExitCrece DEF Escribir
    <2>6. Tipo'
      BY <1>2, <1>5, <2>3, <2>4, <2>5 DEF Escribir, Tipo, TipoTabla, TipoProcesos, TipoHilos
    <2>7. LugarCola'
      <3>1. \A h \in DOMAIN globales' :
              h \in DOMAIN globales /\ globales'[h].colabloqueado = globales[h].colabloqueado
        BY <2>1, <2>3
      <3>2. \A q : estado[q] = "archivo" => estado'[q] = "archivo"
        BY <1>1, <2>4
      <3> QED BY <3>1, <3>2, ColaIgual DEF Lugar
    <2>8. Propias'
      BY <1>1, <2>4 DEF Escribir, Lugar, Propias
    <2> QED BY <2>4, <2>5, <2>6, <2>7, <2>8 DEF Lugar
  <1> QED BY <1>3, <1>4, <1>5 DEF Escribir

\* kf_close ends: the process loses the file, and those let in have it.
LEMMA SueltaLugar ==
  ASSUME Tipo, Lugar, NEW p \in Procesos, exec.proceso = p, exec.paso = "cerrar",
         NEW abren, Suelta(p, abren),
         \A q \in DOMAIN abren : q \in Procesos /\ estado[q] = "archivo" /\ abren[q] \in Modos,
         Len(globales') \in Nat, Len(globales) <= Len(globales')
  PROVE  /\ TipoProcesos' /\ TipoHilos' /\ LugarExec' /\ LugarSalida' /\ Propias'
         /\ p \notin DOMAIN abren
         /\ \A q \in Procesos :
              /\ archivos_abiertos'[q] <=> q # p /\ (archivos_abiertos[q] \/ q \in DOMAIN abren)
              /\ abierto'[q] = IF q = p THEN "no"
                               ELSE IF q \in DOMAIN abren THEN abren[q] ELSE abierto[q]
              /\ estado'[q] = IF q \in DOMAIN abren THEN "ready" ELSE estado[q]
         /\ exec'.proceso = p /\ exec'.paso = "seguir" /\ exec'.g = NULL
  <1>1. estado[p] = "exec" /\ salida.proceso # p /\ p # Nadie
    BY EnManos, NadieNoEsProceso
  <1>2. p \notin DOMAIN abren
    BY <1>1
  <1> DEFINE A == DOMAIN abren
  <1>3. /\ archivos_abiertos' \in [Procesos -> BOOLEAN]
        /\ \A q \in Procesos :
             archivos_abiertos'[q] <=> q # p /\ (archivos_abiertos[q] \/ q \in A)
    BY DEF Suelta, ConEntrada, Tipo, TipoProcesos
  <1>4. \A q \in Procesos :
          abierto'[q] = IF q = p THEN "no" ELSE IF q \in A THEN abren[q] ELSE abierto[q]
    BY DEF Suelta
  <1>5. \A q \in Procesos : estado'[q] = IF q \in A THEN "ready" ELSE estado[q]
    BY DEF Suelta
  <1>6. abierto' \in [Procesos -> Modos \cup {"no"}]
    BY DEF Suelta, Tipo, TipoProcesos
  <1>7. estado' \in [Procesos -> Estados]
    BY DEF Suelta, Tipo, TipoProcesos, Estados
  <1>8. /\ exec' \in DeExec(Len(globales')) /\ exec'.proceso = p /\ exec'.paso = "seguir"
        /\ exec'.g = NULL
    BY SigueLugar DEF Suelta
  <1>9. salida \in DeSalida(Len(globales'))
    BY LenTipo, HilosCrecen DEF Tipo, TipoHilos
  <1>10. TipoProcesos' /\ TipoHilos'
    BY <1>3, <1>6, <1>7, <1>8, <1>9 DEF Suelta, salidaVars, Tipo, TipoProcesos, TipoHilos
  <1>11. LugarExec'
    BY <1>1, <1>2, <1>5, <1>8 DEF LugarExec
  <1>12. salida' = salida /\ cola_exit' = cola_exit
    BY DEF Suelta, salidaVars
  <1>13. \A q : estado[q] = "exit" => q \notin A
    OBVIOUS
  <1> HIDE DEF A
  <1>14. LugarSalida'
    <2>1. \A i \in DOMAIN cola_exit : cola_exit[i] \in Procesos
      BY DEF Tipo, TipoHilos
    <2>2. salida.proceso \in Procesos \cup {Nadie}
      BY DEF Tipo, TipoHilos, DeSalida
    <2> QED BY <1>5, <1>12, <1>13, <2>1, <2>2 DEF Lugar, LugarSalida
  <1>15. Propias'
    <2>1. ASSUME NEW q \in Procesos, archivos_abiertos'[q], salida.proceso # q
          PROVE  abierto'[q] # "no"
      <3>1. q # p /\ (archivos_abiertos[q] \/ q \in A)
        BY <1>3, <2>1
      <3>2. CASE q \in A
        BY <1>4, <3>1, <3>2 DEF A, Modos
      <3>3. CASE q \notin A
        BY <1>4, <2>1, <3>1, <3>3 DEF Lugar, Propias
      <3> QED BY <3>2, <3>3
    <2>2. ASSUME NEW q \in Procesos, estado'[q] \in {"archivo", "fin"}
          PROVE  abierto'[q] = "no"
      BY <1>4, <1>5, <2>2 DEF Lugar, Propias
    <2> QED BY <1>12, <2>1, <2>2 DEF Propias
  <1> QED BY <1>2, <1>3, <1>4, <1>5, <1>8, <1>10, <1>11, <1>14, <1>15 DEF A

\* The same when nobody is let in.
LEMMA SueltaSola ==
  ASSUME Tipo, Lugar, NEW p \in Procesos, exec.proceso = p, exec.paso = "cerrar",
         Suelta(p, <<>>), Len(globales') \in Nat, Len(globales) <= Len(globales')
  PROVE  /\ TipoProcesos' /\ TipoHilos' /\ LugarExec' /\ LugarSalida' /\ Propias'
         /\ \A q \in Procesos :
              /\ archivos_abiertos'[q] <=> q # p /\ archivos_abiertos[q]
              /\ abierto'[q] = IF q = p THEN "no" ELSE abierto[q]
              /\ estado'[q] = estado[q]
         /\ exec'.proceso = p /\ exec'.paso = "seguir" /\ exec'.g = NULL /\ salida' = salida
  <1>1. DOMAIN <<>> = {}
    OBVIOUS
  <1>2. salida' = salida
    BY DEF Suelta, salidaVars
  <1>3. /\ TipoProcesos' /\ TipoHilos' /\ LugarExec' /\ LugarSalida' /\ Propias'
        /\ exec'.proceso = p /\ exec'.paso = "seguir" /\ exec'.g = NULL
    BY <1>1, SueltaLugar
  <1>4. ASSUME NEW q \in Procesos
        PROVE  /\ archivos_abiertos'[q] <=> q # p /\ archivos_abiertos[q]
               /\ abierto'[q] = IF q = p THEN "no" ELSE abierto[q]
               /\ estado'[q] = estado[q]
    <2>1. archivos_abiertos'[q] <=> q # p /\ archivos_abiertos[q]
      BY <1>1 DEF Suelta, ConEntrada, Tipo, TipoProcesos
    <2>2. abierto'[q] = IF q = p THEN "no" ELSE abierto[q]
      BY <1>1 DEF Suelta
    <2>3. estado'[q] = estado[q]
      BY <1>1 DEF Suelta
    <2> QED BY <2>1, <2>2, <2>3
  <1> QED BY <1>2, <1>3, <1>4

\* What kf_close finds: the entry, and what it makes of it.
LEMMA CerrarEntradaTipo ==
  ASSUME Tipo, Lugar, NEW p \in Procesos, EnPaso(p, "cerrar"), PunteroRoto(exec.g) = "no"
  PROVE  /\ exec.proceso = p /\ exec.paso = "cerrar" /\ exec.g \in DOMAIN globales
         /\ ~globales[exec.g].liberada
         /\ globales[exec.g] \in Entradas /\ archivos_abiertos[p] \in BOOLEAN
         /\ Soltada(globales[exec.g], archivos_abiertos[p]) \in Entradas
         /\ Soltada(globales[exec.g], archivos_abiertos[p]).colabloqueado
              = globales[exec.g].colabloqueado
         /\ Soltada(globales[exec.g], archivos_abiertos[p]).liberada = globales[exec.g].liberada
         /\ globales \in Seq(Entradas) /\ Len(globales) \in Nat
         /\ DOMAIN globales = 1 .. Len(globales)
         /\ RemoveFirst(lista_archivos_abiertos, exec.g) \in Seq(1 .. Len(globales))
  <1>1. exec.proceso = p /\ exec.paso = "cerrar" /\ exec.g # NULL /\ ~globales[exec.g].liberada
    BY DEF EnPaso, PunteroRoto
  <1>2. exec.g \in 0 .. Len(globales) /\ Len(globales) \in Nat /\ globales \in Seq(Entradas)
        /\ DOMAIN globales = 1 .. Len(globales)
        /\ lista_archivos_abiertos \in Seq(1 .. Len(globales))
    BY LenTipo DEF Tipo, TipoHilos, TipoTabla, DeExec
  <1>3. exec.g \in DOMAIN globales /\ globales[exec.g] \in Entradas
    BY <1>1, <1>2 DEF NULL
  <1>4. archivos_abiertos[p] \in BOOLEAN
    BY DEF Tipo, TipoProcesos
  <1>5. RemoveFirst(lista_archivos_abiertos, exec.g) \in Seq(1 .. Len(globales))
    BY <1>2, RemoveFirstTipo
  <1> QED BY <1>1, <1>2, <1>3, <1>4, <1>5, SoltadaTipo

LEMMA CerrarFinLugar ==
  ASSUME Tipo, Lugar, NEW p \in Procesos, CerrarFin(p)
  PROVE  Tipo' /\ Lugar'
  <1> DEFINE g == exec.g
             e == Soltada(globales[g], archivos_abiertos[p])
  <1>1. /\ exec.proceso = p /\ exec.paso = "cerrar" /\ g \in DOMAIN globales
        /\ e \in Entradas /\ e.colabloqueado = globales[g].colabloqueado
        /\ globales \in Seq(Entradas) /\ Len(globales) \in Nat
        /\ RemoveFirst(lista_archivos_abiertos, g) \in Seq(1 .. Len(globales))
    BY CerrarEntradaTipo DEF CerrarFin
  <1>2. globales' = [globales EXCEPT ![g] = e] /\ Suelta(p, <<>>)
        /\ lista_archivos_abiertos' = RemoveFirst(lista_archivos_abiertos, g)
    BY DEF CerrarFin
  <1> HIDE DEF e, g
  <1>3. /\ globales' \in Seq(Entradas) /\ Len(globales') = Len(globales)
        /\ DOMAIN globales' = DOMAIN globales
        /\ globales'[g] = e /\ \A h \in DOMAIN globales : h # g => globales'[h] = globales[h]
    BY <1>1, <1>2
  <1>4. /\ TipoProcesos' /\ TipoHilos' /\ LugarExec' /\ LugarSalida' /\ Propias'
        /\ \A q \in Procesos : estado'[q] = IF q \in {} THEN "ready" ELSE estado[q]
    <2>1. DOMAIN <<>> = {}
      OBVIOUS
    <2> QED BY <1>1, <1>2, <1>3, <2>1, SueltaLugar
  <1>5. TipoTabla'
    BY <1>1, <1>2, <1>3 DEF TipoTabla
  <1>6. LugarCola'
    <2>1. \A h \in DOMAIN globales' :
            h \in DOMAIN globales /\ globales'[h].colabloqueado = globales[h].colabloqueado
      BY <1>1, <1>3
    <2>2. \A h \in DOMAIN globales : \A i \in DOMAIN globales[h].colabloqueado :
            globales[h].colabloqueado[i].proceso \in Procesos
      BY EnColaTipo DEF Tipo
    <2> QED BY <1>4, <2>1, <2>2 DEF Lugar, LugarCola
  <1> QED BY <1>4, <1>5, <1>6 DEF Tipo, Lugar

\* What kf_close does with a queue: the first one and the readers behind it are let in, the
\* writers are left.
Lectores(cola)   == Los(Tail(cola), "R")
Escritores(cola) == Los(Tail(cola), "W")
Entran(cola)     == <<Head(cola)>> \o Lectores(cola)
Quienes(cola)    == {c.proceso : c \in ToSet(Entran(cola))}
Abren(cola) ==
  [q \in Quienes(cola) |-> (CHOOSE c \in ToSet(Entran(cola)) : c.proceso = q).modo]

\* Los, of those behind the first one.
Detras(w, l, cola, modo) ==
  /\ \A i \in 1 .. Len(l) : w[i] \in 2 .. Len(cola) /\ l[i] = cola[w[i]]
  /\ \A i \in 1 .. Len(l) : l[i].modo = modo
  /\ \A i, j \in 1 .. Len(l) : w[i] = w[j] => i = j
  /\ \A k \in 2 .. Len(cola) : cola[k].modo = modo => \E i \in 1 .. Len(l) : w[i] = k

LEMMA LosDetras ==
  ASSUME NEW S, NEW cola \in Seq(S), cola # <<>>, NEW modo
  PROVE  /\ Los(Tail(cola), modo) \in Seq(S)
         /\ \E w : Detras(w, Los(Tail(cola), modo), cola, modo)
  <1> DEFINE resto == Tail(cola)
             l == Los(resto, modo)
             m == Len(cola)
  <1>1. /\ m \in Nat /\ m >= 1 /\ resto \in Seq(S) /\ Len(resto) = m - 1
        /\ \A i \in 1 .. m - 1 : resto[i] = cola[i + 1]
    OBVIOUS
  <1> HIDE DEF resto
  <1>2. l \in Seq(S) /\ \E f : Lugares(f, l, resto, modo)
    BY <1>1, LosTipo
  <1>3. PICK f : Lugares(f, l, resto, modo)
    BY <1>2
  <1>4. Len(l) \in Nat
    BY <1>2
  <1> HIDE DEF l, m
  <1>5. \A i \in 1 .. Len(l) : f[i] \in 1 .. m - 1 /\ l[i] = resto[f[i]] /\ l[i].modo = modo
    BY <1>1, <1>3 DEF Lugares
  <1>6. \A i, j \in 1 .. Len(l) : f[i] = f[j] => i = j
    BY <1>3 DEF Lugares
  <1>7. \A k \in 1 .. m - 1 : resto[k].modo = modo => \E i \in 1 .. Len(l) : f[i] = k
    BY <1>1, <1>3 DEF Lugares
  <1> DEFINE w == [i \in 1 .. Len(l) |-> f[i] + 1]
  <1>8. \A i \in 1 .. Len(l) : w[i] = f[i] + 1
    OBVIOUS
  <1> HIDE DEF w
  <1>9. \A i \in 1 .. Len(l) : w[i] \in 2 .. m /\ l[i] = cola[w[i]]
    <2> SUFFICES ASSUME NEW i \in 1 .. Len(l)
                 PROVE  w[i] \in 2 .. m /\ l[i] = cola[w[i]]
      OBVIOUS
    <2>1. f[i] \in 1 .. m - 1 /\ l[i] = resto[f[i]] /\ w[i] = f[i] + 1
      BY <1>5, <1>8
    <2>2. resto[f[i]] = cola[f[i] + 1]
      BY <1>1, <2>1
    <2>3. f[i] + 1 \in 2 .. m
      BY <1>1, <2>1
    <2> QED BY <2>1, <2>2, <2>3
  <1>10. ASSUME NEW i \in 1 .. Len(l), NEW j \in 1 .. Len(l), w[i] = w[j] PROVE i = j
    <2>1. w[i] = f[i] + 1 /\ w[j] = f[j] + 1
      BY <1>8
    <2>2. f[i] \in 1 .. m - 1 /\ f[j] \in 1 .. m - 1
      BY <1>5
    <2>3. f[i] = f[j]
      <3> DEFINE a == f[i]
                 b == f[j]
      <3>1. a \in Int /\ b \in Int /\ a + 1 = b + 1
        <4>1. a \in Int /\ b \in Int
          BY <1>1, <2>2
        <4>2. a + 1 = b + 1
          BY <1>10, <2>1
        <4> QED BY <4>1, <4>2
      <3> HIDE DEF a, b
      <3>2. a = b
        BY <3>1
      <3> QED BY <3>2 DEF a, b
    <2> QED BY <1>6, <2>3
  <1>11. ASSUME NEW k \in 2 .. m, cola[k].modo = modo
         PROVE  \E i \in 1 .. Len(l) : w[i] = k
    <2>1. k - 1 \in 1 .. m - 1 /\ resto[k - 1] = cola[k]
      BY <1>1
    <2>2. PICK i \in 1 .. Len(l) : f[i] = k - 1
      BY <1>7, <1>11, <2>1
    <2>3. w[i] = k
      BY <1>8, <2>2
    <2> QED BY <2>3
  <1>12. Detras(w, l, cola, modo)
    BY <1>5, <1>9, <1>10, <1>11 DEF Detras, m
  <1> QED BY <1>2, <1>12 DEF l, resto

\* In a queue where nobody is twice.
LEMMA Reparto ==
  ASSUME NEW cola \in Seq(Espera), cola # <<>>,
         \A i, j \in DOMAIN cola : cola[i].proceso = cola[j].proceso => i = j
  PROVE  /\ Lectores(cola) \in Seq(Espera) /\ Escritores(cola) \in Seq(Espera)
         /\ Entran(cola) \in Seq(Espera) /\ Len(Entran(cola)) = Len(Lectores(cola)) + 1
         /\ Head(cola) = cola[1] /\ cola[1] \in Espera /\ Head(Entran(cola)) = cola[1]
         /\ \A k \in DOMAIN Entran(cola) :
              \E j \in DOMAIN cola :
                /\ Entran(cola)[k] = cola[j] /\ (k # 1 => j # 1 /\ cola[j].modo = "R")
         /\ \A k, l \in DOMAIN Entran(cola) :
              Entran(cola)[k].proceso = Entran(cola)[l].proceso => k = l
         /\ \A i \in DOMAIN Escritores(cola) :
              \E j \in DOMAIN cola :
                /\ Escritores(cola)[i] = cola[j]
                /\ \A k \in DOMAIN Entran(cola) : Entran(cola)[k].proceso # cola[j].proceso
         /\ \A i, j \in DOMAIN Escritores(cola) :
              Escritores(cola)[i].proceso = Escritores(cola)[j].proceso => i = j
         /\ Escritores(cola) = <<>> =>
              \A j \in DOMAIN cola : \E k \in DOMAIN Entran(cola) : Entran(cola)[k] = cola[j]
  <1> DEFINE l == Lectores(cola)
             w == Escritores(cola)
             n == Entran(cola)
             m == Len(cola)
  <1>1. m \in Nat /\ m >= 1 /\ DOMAIN cola = 1 .. m /\ Head(cola) = cola[1]
    OBVIOUS
  <1>2. \A i \in 1 .. m : cola[i] \in Espera
    OBVIOUS
  <1>3. l \in Seq(Espera) /\ w \in Seq(Espera)
    BY LosDetras DEF Lectores, Escritores
  <1>f. PICK f : Detras(f, l, cola, "R")
    BY LosDetras DEF Lectores
  <1>g. PICK g : Detras(g, w, cola, "W")
    BY LosDetras DEF Escritores
  <1> HIDE DEF l, w, m
  <1>5. /\ Len(l) \in Nat /\ DOMAIN l = 1 .. Len(l)
        /\ Len(w) \in Nat /\ DOMAIN w = 1 .. Len(w)
    BY <1>3
  <1>6. /\ n \in Seq(Espera) /\ Len(n) = Len(l) + 1 /\ DOMAIN n = 1 .. Len(l) + 1
        /\ n[1] = cola[1] /\ \A k \in 1 .. Len(l) + 1 : k # 1 => n[k] = l[k - 1]
        /\ Head(n) = n[1]
    <2>1. <<cola[1]>> \in Seq(Espera) /\ Len(<<cola[1]>>) = 1 /\ <<cola[1]>>[1] = cola[1]
      BY <1>1, <1>2
    <2>2. n = <<cola[1]>> \o l
      BY <1>1 DEF Entran, l
    <2> HIDE DEF n
    <2> QED BY <1>3, <1>5, <2>1, <2>2
  <1> HIDE DEF n
  <1> DEFINE lugar(k) == IF k = 1 THEN 1 ELSE f[k - 1]
  <1>8. \A k \in 1 .. Len(l) + 1 : k # 1 => k - 1 \in 1 .. Len(l)
    BY <1>5
  <1>9. \A k \in 1 .. Len(l) + 1 : lugar(k) \in 1 .. m /\ n[k] = cola[lugar(k)]
                                   /\ (k # 1 => lugar(k) # 1 /\ n[k].modo = "R")
    BY <1>1, <1>f, <1>6, <1>8 DEF Detras, m
  <1>10. \A k, j \in 1 .. Len(l) + 1 : lugar(k) = lugar(j) => k = j
    <2> SUFFICES ASSUME NEW k \in 1 .. Len(l) + 1, NEW j \in 1 .. Len(l) + 1,
                        lugar(k) = lugar(j)
                 PROVE  k = j
      OBVIOUS
    <2>1. (k = 1) <=> (j = 1)
      BY <1>9 DEF lugar
    <2>2. CASE k # 1 /\ j # 1
      <3>1. f[k - 1] = f[j - 1] /\ k - 1 \in 1 .. Len(l) /\ j - 1 \in 1 .. Len(l)
        BY <1>8, <2>2
      <3>2. k - 1 = j - 1
        BY <1>f, <3>1 DEF Detras
      <3> QED BY <1>5, <3>2
    <2> QED BY <2>1, <2>2
  <1> HIDE DEF lugar
  <1>11. \A k, j \in 1 .. Len(l) + 1 : n[k].proceso = n[j].proceso => k = j
    BY <1>1, <1>9, <1>10
  <1>12. \A i \in 1 .. Len(w) : g[i] \in 1 .. m /\ w[i] = cola[g[i]] /\ w[i].modo = "W"
                              /\ g[i] # 1
    BY <1>1, <1>g DEF Detras, m
  <1>a. \A i \in 1 .. Len(w) : \A k \in 1 .. Len(l) + 1 : n[k].proceso # w[i].proceso
    <2> SUFFICES ASSUME NEW i \in 1 .. Len(w), NEW k \in 1 .. Len(l) + 1,
                        n[k].proceso = w[i].proceso
                 PROVE  FALSE
      OBVIOUS
    <2>1. lugar(k) = g[i]
      BY <1>1, <1>9, <1>12
    <2>2. k # 1 /\ n[k] = w[i] /\ w[i].modo = "W"
      BY <1>9, <1>12, <2>1 DEF lugar
    <2> QED BY <1>9, <2>2
  <1>13. \A i, j \in 1 .. Len(w) : w[i].proceso = w[j].proceso => i = j
    <2> SUFFICES ASSUME NEW i \in 1 .. Len(w), NEW j \in 1 .. Len(w),
                        w[i].proceso = w[j].proceso
                 PROVE  i = j
      OBVIOUS
    <2>1. g[i] = g[j]
      BY <1>1, <1>12
    <2> QED BY <1>g, <2>1 DEF Detras
  <1>14. ASSUME w = <<>>, NEW j \in 1 .. m
         PROVE  \E k \in 1 .. Len(l) + 1 : n[k] = cola[j]
    <2>1. CASE j = 1
      BY <1>5, <1>6, <2>1
    <2>2. CASE j # 1
      <3>1. j \in 2 .. m
        BY <1>1, <2>2
      <3>2. cola[j].modo \in Modos
        BY <1>2 DEF Espera
      <3>3. cola[j].modo = "R"
        <4>1. Len(w) = 0
          BY <1>14
        <4>2. cola[j].modo # "W"
          BY <1>g, <3>1, <4>1 DEF Detras, m
        <4> QED BY <3>2, <4>2 DEF Modos
      <3>4. PICK i \in 1 .. Len(l) : f[i] = j
        BY <1>f, <3>1, <3>3 DEF Detras, m
      <3>5. n[i + 1] = l[i] /\ i + 1 \in 1 .. Len(l) + 1 /\ l[i] = cola[j]
        <4>1. l[i] = cola[j]
          BY <1>f, <3>4 DEF Detras
        <4>2. i + 1 \in 1 .. Len(l) + 1 /\ i + 1 # 1 /\ (i + 1) - 1 = i
          BY <1>5
        <4> QED BY <1>6, <4>1, <4>2
      <3> QED BY <3>5
    <2> QED BY <2>1, <2>2
  <1>15. \A k \in DOMAIN n : \E j \in DOMAIN cola :
           n[k] = cola[j] /\ (k # 1 => j # 1 /\ cola[j].modo = "R")
    <2> SUFFICES ASSUME NEW k \in 1 .. Len(l) + 1
                 PROVE  \E j \in 1 .. m : n[k] = cola[j] /\ (k # 1 => j # 1 /\ cola[j].modo = "R")
      BY <1>1, <1>6
    <2>1. /\ lugar(k) \in 1 .. m /\ n[k] = cola[lugar(k)]
          /\ (k # 1 => lugar(k) # 1 /\ cola[lugar(k)].modo = "R")
      BY <1>9
    <2> QED BY <2>1
  <1>16. \A i \in DOMAIN w : \E j \in DOMAIN cola :
           w[i] = cola[j] /\ \A k \in DOMAIN n : n[k].proceso # cola[j].proceso
    <2> SUFFICES ASSUME NEW i \in 1 .. Len(w)
                 PROVE  \E j \in 1 .. m : w[i] = cola[j]
                          /\ \A k \in 1 .. Len(l) + 1 : n[k].proceso # cola[j].proceso
      BY <1>1, <1>5, <1>6
    <2>1. g[i] \in 1 .. m /\ w[i] = cola[g[i]]
      BY <1>12
    <2> QED BY <1>a, <2>1
  <1>17. /\ l \in Seq(Espera) /\ w \in Seq(Espera) /\ n \in Seq(Espera)
         /\ Len(n) = Len(l) + 1 /\ Head(cola) = cola[1] /\ cola[1] \in Espera
         /\ Head(n) = cola[1]
    BY <1>1, <1>2, <1>3, <1>6
  <1>18. \A k, j \in DOMAIN n : n[k].proceso = n[j].proceso => k = j
    BY <1>6, <1>11
  <1>19. \A i, j \in DOMAIN w : w[i].proceso = w[j].proceso => i = j
    BY <1>5, <1>13
  <1>20. w = <<>> => \A j \in DOMAIN cola : \E k \in DOMAIN n : n[k] = cola[j]
    BY <1>1, <1>6, <1>14
  <1> QED BY <1>15, <1>16, <1>17, <1>18, <1>19, <1>20 DEF l, w, n

\* Those let in, and what each of them opens the file for.
LEMMA AbrenTipo ==
  ASSUME NEW cola \in Seq(Espera), cola # <<>>,
         \A i, j \in DOMAIN cola : cola[i].proceso = cola[j].proceso => i = j
  PROVE  /\ DOMAIN Abren(cola) = Quienes(cola)
         /\ \A k \in DOMAIN Entran(cola) :
              /\ Entran(cola)[k].proceso \in Quienes(cola)
              /\ Abren(cola)[Entran(cola)[k].proceso] = Entran(cola)[k].modo
         /\ \A q \in Quienes(cola) : \E k \in DOMAIN Entran(cola) : q = Entran(cola)[k].proceso
         /\ \A q \in Quienes(cola) :
              /\ q \in Procesos /\ Abren(cola)[q] \in Modos
              /\ \E j \in DOMAIN cola : q = cola[j].proceso /\ Abren(cola)[q] = cola[j].modo
         /\ IsFiniteSet(Quienes(cola)) /\ Cardinality(Quienes(cola)) = Len(Lectores(cola)) + 1
         /\ Len(Lectores(cola)) \in Nat
  <1> DEFINE n == Entran(cola)
             Q == Quienes(cola)
  <1>1. /\ n \in Seq(Espera) /\ Len(n) = Len(Lectores(cola)) + 1
        /\ Len(Lectores(cola)) \in Nat
    BY Reparto
  <1>2. \A k, l \in DOMAIN n : n[k].proceso = n[l].proceso => k = l
    BY Reparto
  <1>3. \A k \in DOMAIN n : \E j \in DOMAIN cola : n[k] = cola[j]
    BY Reparto
  <1>4. ToSet(n) = {n[k] : k \in DOMAIN n}
    BY DEF ToSet
  <1>5. Q = {c.proceso : c \in ToSet(n)}
    BY DEF Quienes
  <1>6. Abren(cola) = [q \in Q |-> (CHOOSE c \in ToSet(n) : c.proceso = q).modo]
    BY DEF Abren
  <1> HIDE DEF n, Q
  <1>7. DOMAIN n = 1 .. Len(n) /\ Len(n) \in Nat /\ \A k \in DOMAIN n : n[k] \in Espera
    BY <1>1
  <1>8. DOMAIN Abren(cola) = Q
    BY <1>6
  <1>9. \A q \in Q : \E k \in DOMAIN n : q = n[k].proceso
    BY <1>4, <1>5
  <1>10. ASSUME NEW k \in DOMAIN n PROVE n[k].proceso \in Q /\ Abren(cola)[n[k].proceso] = n[k].modo
    <2>1. n[k] \in ToSet(n)
      BY <1>4
    <2>2. n[k].proceso \in Q
      BY <1>5, <2>1
    <2>3. \A c \in ToSet(n) : c.proceso = n[k].proceso => c = n[k]
      BY <1>2, <1>4
    <2>4. (CHOOSE c \in ToSet(n) : c.proceso = n[k].proceso) = n[k]
      BY <2>1, <2>3
    <2> QED BY <1>6, <2>2, <2>4
  <1>11. ASSUME NEW q \in Q
         PROVE  /\ q \in Procesos /\ Abren(cola)[q] \in Modos
                /\ \E j \in DOMAIN cola : q = cola[j].proceso /\ Abren(cola)[q] = cola[j].modo
    <2>1. PICK k \in DOMAIN n : q = n[k].proceso
      BY <1>9
    <2>2. Abren(cola)[q] = n[k].modo
      BY <1>10, <2>1
    <2>3. n[k].proceso \in Procesos /\ n[k].modo \in Modos
      BY <1>7 DEF Espera
    <2> QED BY <1>3, <2>1, <2>2, <2>3
  <1>12. IsFiniteSet(Q) /\ Cardinality(Q) = Len(n)
    <2> DEFINE f == [k \in 1 .. Len(n) |-> n[k].proceso]
    <2>1. f \in [1 .. Len(n) -> Q]
      BY <1>7, <1>10
    <2>2. \A k, l \in 1 .. Len(n) : f[k] = f[l] => k = l
      BY <1>2, <1>7
    <2>3. \A q \in Q : \E k \in 1 .. Len(n) : f[k] = q
      BY <1>7, <1>9
    <2> HIDE DEF f
    <2>4. f \in Bijection(1 .. Len(n), Q)
      BY <2>1, <2>2, <2>3 DEF Bijection, Injection, IsInjective, Surjection
    <2>5. ExistsBijection(1 .. Len(n), Q)
      BY <2>4 DEF ExistsBijection
    <2>6. IsFiniteSet(1 .. Len(n)) /\ Cardinality(1 .. Len(n)) = Len(n)
      <3> DEFINE m == Len(n)
      <3>1. m \in Int /\ 1 \in Int /\ m >= 1
        BY <1>1, <1>7
      <3> HIDE DEF m
      <3>2. IsFiniteSet(1 .. m) /\ Cardinality(1 .. m) = IF 1 > m THEN 0 ELSE m - 1 + 1
        BY <3>1, FS_Interval
      <3>3. Cardinality(1 .. m) = m
        BY <3>1, <3>2
      <3> QED BY <3>2, <3>3 DEF m
    <2> QED BY <2>5, <2>6, FS_Bijection
  <1> QED BY <1>1, <1>8, <1>9, <1>10, <1>11, <1>12 DEF n, Q

\* The queue of the entry that is closed, in the words of the lemmas.
LEMMA ColaDeEntrada ==
  ASSUME Tipo, Lugar, NEW g \in DOMAIN globales, NEW cola, cola = globales[g].colabloqueado
  PROVE  /\ cola \in Seq(Espera)
         /\ \A i, j \in DOMAIN cola : cola[i].proceso = cola[j].proceso => i = j
         /\ \A i \in DOMAIN cola : estado[cola[i].proceso] = "archivo"
  BY EnColaTipo DEF Tipo, Lugar, LugarCola

\* What kf_close works on: the entry as it becomes, its queue, the table without it.
DeCierre(p, g, e, cola, n, resto) ==
  /\ g = exec.g /\ e = Soltada(globales[g], archivos_abiertos[p])
  /\ cola = globales[g].colabloqueado /\ n = Len(globales)
  /\ resto = RemoveFirst(lista_archivos_abiertos, g)

\* What it does when it hands the file over.
LEMMA EntregaEs ==
  ASSUME Tipo, Lugar, NEW p \in Procesos, CerrarEntrega(p),
         NEW g, NEW e, NEW cola, NEW n, NEW resto, DeCierre(p, g, e, cola, n, resto)
  PROVE  /\ cola # <<>> /\ e.lock = "N" /\ Suelta(p, Abren(cola))
         /\ globales' \in Seq(Entradas) /\ Len(globales') = n + 1
         /\ \A h \in 1 .. n :
              /\ globales'[h].colabloqueado =
                   IF h = g THEN Escritores(cola) ELSE globales[h].colabloqueado
              /\ globales'[h].liberada = globales[h].liberada
         /\ globales'[n + 1].colabloqueado = <<>> /\ ~globales'[n + 1].liberada
         /\ globales'[n + 1].lock = cola[1].modo
         /\ resto = <<>> =>
              globales'[n + 1].contador = e.contador + 1 + Len(Lectores(cola))
         /\ lista_archivos_abiertos' =
              IF Escritores(cola) = <<>> THEN Append(resto, n + 1)
              ELSE Append(Append(resto, n + 1), g)
         /\ fuera' = fuera
              \cup (IF Escritores(cola) # <<>> THEN {"escritor_espera_detras"} ELSE {})
              \cup (IF cola[1].modo = "W" /\ Lectores(cola) # <<>>
                    THEN {"lector_con_escritor"} ELSE {})
  <1>g. /\ g = exec.g /\ e = Soltada(globales[g], archivos_abiertos[p])
        /\ cola = globales[g].colabloqueado /\ n = Len(globales)
        /\ resto = RemoveFirst(lista_archivos_abiertos, g)
    BY DEF DeCierre
  <1>0. EnPaso(p, "cerrar") /\ PunteroRoto(exec.g) = "no"
    BY DEF CerrarEntrega
  <1>1. /\ g \in DOMAIN globales /\ e \in Entradas /\ e.colabloqueado = cola
        /\ e.liberada = globales[g].liberada
        /\ globales \in Seq(Entradas) /\ n \in Nat /\ DOMAIN globales = 1 .. n
        /\ resto \in Seq(1 .. n)
    BY <1>0, <1>g, CerrarEntradaTipo
  <1> DEFINE G == exec.g
             E == Soltada(globales[G], archivos_abiertos[p])
             C == E.colabloqueado
             T == Append(RemoveFirst(lista_archivos_abiertos, G), Len(globales) + 1)
             N == Append([globales EXCEPT ![G] = Queda(E, Escritores(C))],
                         Entrada(Head(Entran(C)).modo, E.contador + 1))
  <1>a. E.lock = "N" /\ C # <<>>
    BY DEF CerrarEntrega
  <1>b. globales' = [N EXCEPT ![Head(T)].contador = @ + Len(Lectores(C))]
    BY DEF CerrarEntrega, Entran, Escritores, Lectores
  <1>c. lista_archivos_abiertos' = IF Escritores(C) = <<>> THEN T ELSE Append(T, G)
    BY DEF CerrarEntrega, Escritores
  <1>d. Suelta(p, Abren(C))
    BY DEF CerrarEntrega, Abren, Quienes, Entran, Lectores
  <1>e. fuera' = fuera
             \cup (IF Escritores(C) # <<>> THEN {"escritor_espera_detras"} ELSE {})
             \cup (IF Head(Entran(C)).modo = "W" /\ Lectores(C) # <<>>
                   THEN {"lector_con_escritor"} ELSE {})
    BY DEF CerrarEntrega, Entran, Escritores, Lectores
  <1>f. G = g /\ E = e /\ C = cola
    BY <1>1, <1>g
  <1> HIDE DEF G, E, C
  <1>2. cola # <<>> /\ e.lock = "N"
    BY <1>a, <1>f
  <1>3. /\ cola \in Seq(Espera)
        /\ \A i, j \in DOMAIN cola : cola[i].proceso = cola[j].proceso => i = j
    BY <1>1, <1>g, ColaDeEntrada
  <1> DEFINE ent == Entran(cola)
             esc == Escritores(cola)
             lec == Lectores(cola)
             tabla == Append(resto, n + 1)
             vieja == Queda(e, esc)
             nueva == Entrada(Head(ent).modo, e.contador + 1)
             medio == [globales EXCEPT ![g] = vieja]
             nuevas == Append(medio, nueva)
  <1>4. /\ globales' = [nuevas EXCEPT ![Head(tabla)].contador = @ + Len(lec)]
        /\ lista_archivos_abiertos' = IF esc = <<>> THEN tabla ELSE Append(tabla, g)
        /\ Suelta(p, Abren(cola))
        /\ fuera' = fuera
             \cup (IF esc # <<>> THEN {"escritor_espera_detras"} ELSE {})
             \cup (IF Head(ent).modo = "W" /\ lec # <<>> THEN {"lector_con_escritor"} ELSE {})
    BY <1>b, <1>c, <1>d, <1>e, <1>f, <1>g
  <1>5. Head(ent) = cola[1] /\ cola[1] \in Espera /\ cola[1].modo \in Modos
        /\ esc \in Seq(Espera) /\ Len(lec) \in Nat
    <2>1. Head(ent) = cola[1] /\ cola[1] \in Espera /\ esc \in Seq(Espera)
      BY <1>2, <1>3, Reparto
    <2>2. Len(lec) \in Nat
      BY <1>2, <1>3, AbrenTipo
    <2> QED BY <2>1, <2>2 DEF Espera
  <1> HIDE DEF ent, esc, lec
  <1>6. vieja \in Entradas /\ vieja.colabloqueado = esc /\ vieja.liberada = e.liberada
    BY <1>1, <1>5 DEF Queda, Entradas
  <1>7. e.contador \in Int
    BY <1>1 DEF Entradas
  <1>8. /\ nueva \in Entradas /\ nueva.colabloqueado = <<>> /\ nueva.liberada = FALSE
        /\ nueva.lock = cola[1].modo /\ nueva.contador = e.contador + 1
    BY <1>5, <1>7, EntradaTipo DEF Entrada
  <1> HIDE DEF vieja, nueva
  <1>9. /\ medio \in Seq(Entradas) /\ Len(medio) = n
        /\ medio[g] = vieja /\ \A h \in 1 .. n : h # g => medio[h] = globales[h]
    BY <1>1, <1>6
  <1> HIDE DEF medio
  <1>10. /\ nuevas \in Seq(Entradas) /\ Len(nuevas) = n + 1 /\ DOMAIN nuevas = 1 .. n + 1
         /\ nuevas[n + 1] = nueva /\ \A h \in 1 .. n : nuevas[h] = medio[h]
    BY <1>1, <1>8, <1>9, SMTT(30)
  <1>11. Head(tabla) \in 1 .. n + 1 /\ (resto = <<>> => Head(tabla) = n + 1)
    BY <1>1
  <1> DEFINE t == Head(tabla)
             otra == [nuevas[t] EXCEPT !.contador = @ + Len(lec)]
  <1> HIDE DEF nuevas
  <1>12. nuevas[t] \in Entradas
    BY <1>10, <1>11
  <1>13. /\ otra \in Entradas /\ otra.colabloqueado = nuevas[t].colabloqueado
         /\ otra.liberada = nuevas[t].liberada /\ otra.lock = nuevas[t].lock
         /\ otra.contador = nuevas[t].contador + Len(lec)
    <2> HIDE DEF t
    <2>1. nuevas[t].contador \in Int
      BY <1>12 DEF Entradas
    <2>2. nuevas[t].contador + Len(lec) \in Int
      BY <1>5, <2>1
    <2> QED BY <1>12, <2>2 DEF Entradas
  <1>14. globales' = [nuevas EXCEPT ![t] = otra]
    BY <1>4
  <1>15. t \in 1 .. n + 1 /\ (resto = <<>> => t = n + 1)
    BY <1>11
  <1> HIDE DEF t, otra
  <1>16. /\ globales' \in Seq(Entradas) /\ Len(globales') = n + 1
         /\ globales'[t] = otra /\ \A h \in 1 .. n + 1 : h # t => globales'[h] = nuevas[h]
    BY <1>10, <1>13, <1>14, <1>15
  <1>17. \A h \in 1 .. n + 1 : /\ globales'[h].colabloqueado = nuevas[h].colabloqueado
                               /\ globales'[h].liberada = nuevas[h].liberada
                               /\ globales'[h].lock = nuevas[h].lock
    BY <1>13, <1>16
  <1>18. n + 1 \in 1 .. n + 1 /\ \A h \in 1 .. n : h \in 1 .. n + 1
    BY <1>1
  <1>19. \A h \in 1 .. n :
           /\ globales'[h].colabloqueado =
                IF h = g THEN esc ELSE globales[h].colabloqueado
           /\ globales'[h].liberada = globales[h].liberada
    BY <1>1, <1>6, <1>9, <1>10, <1>17, <1>18
  <1>20. /\ globales'[n + 1].colabloqueado = <<>> /\ ~globales'[n + 1].liberada
         /\ globales'[n + 1].lock = cola[1].modo
    BY <1>8, <1>10, <1>17, <1>18
  <1>21. resto = <<>> => globales'[n + 1].contador = e.contador + 1 + Len(lec)
    BY <1>8, <1>10, <1>13, <1>15, <1>16
  <1> QED BY <1>2, <1>4, <1>5, <1>16, <1>19, <1>20, <1>21 DEF esc, lec, ent

LEMMA CerrarEntregaLugar ==
  ASSUME Tipo, Lugar, NEW p \in Procesos, CerrarEntrega(p)
  PROVE  Tipo' /\ Lugar'
  <1> DEFINE g == exec.g
             e == Soltada(globales[g], archivos_abiertos[p])
             cola == globales[g].colabloqueado
             n == Len(globales)
             resto == RemoveFirst(lista_archivos_abiertos, g)
             esc == Escritores(cola)
             ent == Entran(cola)
             abren == Abren(cola)
  <1>0. EnPaso(p, "cerrar") /\ PunteroRoto(exec.g) = "no"
    BY DEF CerrarEntrega
  <1>1. /\ exec.proceso = p /\ exec.paso = "cerrar" /\ g \in DOMAIN globales
        /\ n \in Nat /\ DOMAIN globales = 1 .. n /\ resto \in Seq(1 .. n)
    BY <1>0, CerrarEntradaTipo
  <1>2. /\ cola \in Seq(Espera)
        /\ \A i, j \in DOMAIN cola : cola[i].proceso = cola[j].proceso => i = j
        /\ \A i \in DOMAIN cola : estado[cola[i].proceso] = "archivo"
    BY <1>1, ColaDeEntrada
  <1>3. /\ cola # <<>> /\ Suelta(p, abren)
        /\ globales' \in Seq(Entradas) /\ Len(globales') = n + 1
        /\ \A h \in 1 .. n :
             globales'[h].colabloqueado = IF h = g THEN esc ELSE globales[h].colabloqueado
        /\ globales'[n + 1].colabloqueado = <<>>
        /\ lista_archivos_abiertos' =
             IF esc = <<>> THEN Append(resto, n + 1) ELSE Append(Append(resto, n + 1), g)
    <2>1. DeCierre(p, g, e, cola, n, resto)
      BY DEF DeCierre
    <2> HIDE DEF g, e, cola, n, resto, esc, abren
    <2>2. /\ cola # <<>> /\ Suelta(p, Abren(cola))
          /\ globales' \in Seq(Entradas) /\ Len(globales') = n + 1
          /\ \A h \in 1 .. n : globales'[h].colabloqueado =
               IF h = g THEN Escritores(cola) ELSE globales[h].colabloqueado
          /\ globales'[n + 1].colabloqueado = <<>>
          /\ lista_archivos_abiertos' =
               IF Escritores(cola) = <<>> THEN Append(resto, n + 1)
               ELSE Append(Append(resto, n + 1), g)
      BY <2>1, EntregaEs
    <2> QED BY <2>2 DEF esc, abren
  <1> HIDE DEF g, e, n, resto
  <1>4. /\ DOMAIN abren = Quienes(cola)
        /\ \A q \in Quienes(cola) : \E k \in DOMAIN ent : q = ent[k].proceso
        /\ \A q \in Quienes(cola) : q \in Procesos /\ abren[q] \in Modos
        /\ \A q \in Quienes(cola) : \E j \in DOMAIN cola : q = cola[j].proceso
    BY <1>2, <1>3, AbrenTipo
  <1>5. /\ \A i \in DOMAIN esc :
             \E j \in DOMAIN cola :
               /\ esc[i] = cola[j]
               /\ \A k \in DOMAIN ent : ent[k].proceso # cola[j].proceso
        /\ \A i, j \in DOMAIN esc : esc[i].proceso = esc[j].proceso => i = j
    BY <1>2, <1>3, Reparto
  <1> HIDE DEF esc, ent, abren
  <1>6. \A q \in DOMAIN abren : q \in Procesos /\ estado[q] = "archivo" /\ abren[q] \in Modos
    <2> SUFFICES ASSUME NEW q \in Quienes(cola)
                 PROVE  q \in Procesos /\ estado[q] = "archivo" /\ abren[q] \in Modos
      BY <1>4
    <2>1. PICK j \in DOMAIN cola : q = cola[j].proceso
      BY <1>4
    <2> HIDE DEF cola
    <2> QED BY <1>2, <1>4, <2>1
  <1>7. Len(globales') \in Nat /\ Len(globales) <= Len(globales')
        /\ DOMAIN globales' = 1 .. n + 1
    BY <1>1, <1>3 DEF n
  <1>8. /\ TipoProcesos' /\ TipoHilos' /\ LugarExec' /\ LugarSalida' /\ Propias'
        /\ \A q \in Procesos : estado'[q] = IF q \in DOMAIN abren THEN "ready" ELSE estado[q]
    BY <1>1, <1>3, <1>6, <1>7, SueltaLugar
  <1>9. TipoTabla'
    <2>1. resto \in Seq(1 .. n + 1) /\ n + 1 \in 1 .. n + 1 /\ g \in 1 .. n + 1
      BY <1>1
    <2>2. Append(resto, n + 1) \in Seq(1 .. n + 1)
      BY <2>1
    <2>3. Append(Append(resto, n + 1), g) \in Seq(1 .. n + 1)
      BY <2>1, <2>2
    <2> QED BY <1>3, <2>2, <2>3 DEF TipoTabla
  <1>10. LugarCola'
    <2>1. \A h \in 1 .. n + 1 : h \in 1 .. n \/ (h = n + 1 /\ h \notin 1 .. n)
      BY <1>1
    <2>2. \A h \in 1 .. n : \A i \in DOMAIN globales[h].colabloqueado :
            globales[h].colabloqueado[i].proceso \in Procesos
      BY <1>1, EnColaTipo DEF Tipo
    <2>3. \A i \in DOMAIN esc :
            \E j \in DOMAIN cola :
              esc[i] = cola[j] /\ cola[j].proceso \notin Quienes(cola)
      BY <1>4, <1>5
    <2>4. \A i \in DOMAIN cola : cola[i].proceso \in Procesos
      BY <1>1, <2>2
    <2>5. \A h \in 1 .. n : h # g => \A i \in DOMAIN globales[h].colabloqueado :
            globales[h].colabloqueado[i].proceso \notin Quienes(cola)
      <3> SUFFICES ASSUME NEW h \in 1 .. n, h # g, NEW i \in DOMAIN globales[h].colabloqueado,
                          globales[h].colabloqueado[i].proceso \in Quienes(cola)
                   PROVE  FALSE
        OBVIOUS
      <3>1. PICK j \in DOMAIN cola : globales[h].colabloqueado[i].proceso = cola[j].proceso
        BY <1>4
      <3> QED BY <1>1, <3>1 DEF Lugar, LugarCola
    <2>6. ASSUME NEW h \in 1 .. n + 1, NEW i \in DOMAIN globales'[h].colabloqueado
          PROVE  \E q \in Procesos :
                   /\ q = globales'[h].colabloqueado[i].proceso
                   /\ q \notin Quienes(cola) /\ estado[q] = "archivo" /\ h \in 1 .. n
                   /\ \E j \in DOMAIN globales[h].colabloqueado :
                        globales'[h].colabloqueado[i] = globales[h].colabloqueado[j]
      <3>1. CASE h = n + 1
        BY <1>3, <2>6, <3>1
      <3>2. CASE h = g
        <4>1. h \in 1 .. n /\ globales'[h].colabloqueado = esc
              /\ globales[h].colabloqueado = cola
          BY <1>1, <1>3, <3>2
        <4>2. PICK j \in DOMAIN cola :
                esc[i] = cola[j] /\ cola[j].proceso \notin Quienes(cola)
          BY <2>3, <2>6, <4>1
        <4>3. cola[j].proceso \in Procesos /\ estado[cola[j].proceso] = "archivo"
          BY <1>2, <2>4
        <4> HIDE DEF cola
        <4> QED BY <4>1, <4>2, <4>3
      <3>3. CASE h \in 1 .. n /\ h # g
        <4>1. globales'[h].colabloqueado = globales[h].colabloqueado
          BY <1>3, <3>3
        <4>2. estado[globales[h].colabloqueado[i].proceso] = "archivo"
          BY <1>1, <2>6, <3>3, <4>1 DEF Lugar, LugarCola
        <4> QED BY <2>2, <2>5, <2>6, <3>3, <4>1, <4>2
      <3> QED BY <2>1, <3>1, <3>2, <3>3
    <2>7. ASSUME NEW h \in 1 .. n + 1, NEW i \in DOMAIN globales'[h].colabloqueado
          PROVE  estado'[globales'[h].colabloqueado[i].proceso] = "archivo"
      BY <1>4, <1>8, <2>6, <2>7
    <2>8. ASSUME NEW h \in 1 .. n + 1, NEW k \in 1 .. n + 1,
                 NEW i \in DOMAIN globales'[h].colabloqueado,
                 NEW j \in DOMAIN globales'[k].colabloqueado,
                 globales'[h].colabloqueado[i].proceso = globales'[k].colabloqueado[j].proceso
          PROVE  h = k /\ i = j
      <3>1. h \in 1 .. n /\ k \in 1 .. n
        BY <2>6, <2>8
      <3>2. PICK x \in DOMAIN globales[h].colabloqueado :
              globales'[h].colabloqueado[i] = globales[h].colabloqueado[x]
        BY <2>6, <2>8
      <3>3. PICK y \in DOMAIN globales[k].colabloqueado :
              globales'[k].colabloqueado[j] = globales[k].colabloqueado[y]
        BY <2>6, <2>8
      <3>4. h = k /\ x = y
        BY <1>1, <2>8, <3>1, <3>2, <3>3 DEF Lugar, LugarCola
      <3>5. CASE h = g
        <4>1. globales'[h].colabloqueado = esc
          BY <1>3, <3>1, <3>5
        <4> QED BY <1>5, <2>8, <3>4, <4>1
      <3>6. CASE h # g
        <4>1. globales'[h].colabloqueado = globales[h].colabloqueado
          BY <1>3, <3>1, <3>6
        <4> QED BY <1>1, <2>8, <3>1, <3>4, <4>1 DEF Lugar, LugarCola
      <3> QED BY <3>5, <3>6
    <2> QED BY <1>7, <2>7, <2>8 DEF LugarCola
  <1> QED BY <1>8, <1>9, <1>10 DEF Tipo, Lugar

LEMMA CerrarDeVariosLugar ==
  ASSUME Tipo, Lugar, NEW p \in Procesos, CerrarDeVarios(p)
  PROVE  Tipo' /\ Lugar'
  <1> DEFINE g == exec.g
             e == Soltada(globales[g], archivos_abiertos[p])
             n == Len(globales)
             medio == [globales EXCEPT ![g] = e]
             nueva == Entrada("R", e.contador + 1)
             resto == RemoveFirst(lista_archivos_abiertos, g)
  <1>0. EnPaso(p, "cerrar") /\ PunteroRoto(exec.g) = "no"
    BY DEF CerrarDeVarios
  <1>1. /\ exec.proceso = p /\ exec.paso = "cerrar" /\ g \in DOMAIN globales
        /\ e \in Entradas /\ e.colabloqueado = globales[g].colabloqueado
        /\ globales \in Seq(Entradas) /\ n \in Nat /\ DOMAIN globales = 1 .. n
        /\ resto \in Seq(1 .. n)
    BY <1>0, CerrarEntradaTipo
  <1>2. /\ globales' = Append(medio, nueva) /\ Suelta(p, <<>>)
        /\ lista_archivos_abiertos' = Append(resto, Len(globales'))
    BY DEF CerrarDeVarios
  <1> HIDE DEF e, g, resto
  <1>3. nueva \in Entradas /\ nueva.colabloqueado = <<>>
    <2>1. e.contador + 1 \in Int
      BY <1>1 DEF Entradas
    <2> QED BY <2>1, EntradaTipo DEF Entrada, Modos
  <1> HIDE DEF nueva
  <1>4. /\ medio \in Seq(Entradas) /\ Len(medio) = n
        /\ medio[g] = e /\ \A h \in DOMAIN globales : h # g => medio[h] = globales[h]
    BY <1>1
  <1> HIDE DEF medio, n
  <1>5. /\ globales' \in Seq(Entradas) /\ Len(globales') = n + 1
        /\ globales'[n + 1] = nueva /\ \A h \in 1 .. n : globales'[h] = medio[h]
        /\ DOMAIN globales' = 1 .. n + 1
    <2>1. n \in Nat /\ globales' = Append(medio, nueva)
      BY <1>1, <1>2
    <2> QED BY <1>3, <1>4, <2>1
  <1>6. /\ TipoProcesos' /\ TipoHilos' /\ LugarExec' /\ LugarSalida' /\ Propias'
        /\ \A q \in Procesos : estado'[q] = IF q \in {} THEN "ready" ELSE estado[q]
    <2>1. DOMAIN <<>> = {}
      OBVIOUS
    <2>2. Len(globales') \in Nat /\ Len(globales) <= Len(globales')
      BY <1>1, <1>5 DEF n
    <2> QED BY <1>1, <1>2, <2>1, <2>2, SueltaLugar
  <1>7. TipoTabla'
    <2>1. n \in Nat /\ resto \in Seq(1 .. n)
      BY <1>1
    <2>2. 1 .. n \subseteq 1 .. n + 1 /\ n + 1 \in 1 .. n + 1
      BY <2>1
    <2>3. resto \in Seq(1 .. n + 1)
      BY <2>1, <2>2
    <2> QED BY <1>2, <1>5, <2>2, <2>3 DEF TipoTabla
  <1>8. LugarCola'
    <2>1. \A h \in DOMAIN globales' :
            \/ globales'[h].colabloqueado = <<>>
            \/ h \in DOMAIN globales /\ globales'[h].colabloqueado = globales[h].colabloqueado
      <3>0. n \in Nat
        BY <1>1
      <3>1. \A h \in 1 .. n + 1 : h \in 1 .. n \/ h = n + 1
        BY <3>0
      <3> QED BY <1>1, <1>3, <1>4, <1>5, <3>1
    <2>2. \A h \in DOMAIN globales : \A i \in DOMAIN globales[h].colabloqueado :
            globales[h].colabloqueado[i].proceso \in Procesos
      BY EnColaTipo DEF Tipo
    <2> QED BY <1>6, <2>1, <2>2 DEF Lugar, LugarCola
  <1> QED BY <1>6, <1>7, <1>8 DEF Tipo, Lugar

\* The process that exit_pcb takes out of cola_exit was in it once.
LEMMA ColaExitMengua ==
  ASSUME Tipo, Lugar, NEW p \in Procesos, cola_exit # <<>>, Head(cola_exit) = p
  PROVE  /\ estado[p] = "exit" /\ Tail(cola_exit) \in Seq(Procesos)
         /\ \A i \in DOMAIN Tail(cola_exit) :
              /\ estado[Tail(cola_exit)[i]] = "exit" /\ Tail(cola_exit)[i] # p
              /\ Tail(cola_exit)[i] \in Procesos
         /\ \A i, j \in DOMAIN Tail(cola_exit) :
              Tail(cola_exit)[i] = Tail(cola_exit)[j] => i = j
  <1> DEFINE m == Len(cola_exit)
             t == Tail(cola_exit)
  <1>1. /\ m \in Nat /\ m >= 1 /\ DOMAIN cola_exit = 1 .. m /\ cola_exit[1] = p
        /\ t \in Seq(Procesos) /\ DOMAIN t = 1 .. m - 1
        /\ \A i \in 1 .. m - 1 : t[i] = cola_exit[i + 1]
    BY DEF Tipo, TipoHilos
  <1> HIDE DEF m, t
  <1>2. \A i \in 1 .. m - 1 : i + 1 \in 1 .. m /\ i + 1 # 1 /\ 1 \in 1 .. m
    BY <1>1
  <1>3. estado[p] = "exit"
    BY <1>1 DEF Lugar, LugarSalida
  <1>4. \A i \in 1 .. m - 1 : estado[t[i]] = "exit" /\ t[i] # p
    <2> SUFFICES ASSUME NEW i \in 1 .. m - 1 PROVE estado[t[i]] = "exit" /\ t[i] # p
      OBVIOUS
    <2>1. /\ i + 1 \in DOMAIN cola_exit /\ 1 \in DOMAIN cola_exit /\ i + 1 # 1
          /\ t[i] = cola_exit[i + 1]
      BY <1>1, <1>2
    <2> QED BY <1>1, <2>1 DEF Lugar, LugarSalida
  <1>5. \A i, j \in 1 .. m - 1 : t[i] = t[j] => i = j
    <2> SUFFICES ASSUME NEW i \in 1 .. m - 1, NEW j \in 1 .. m - 1, t[i] = t[j]
                 PROVE  i = j
      OBVIOUS
    <2>1. cola_exit[i + 1] = cola_exit[j + 1]
      BY <1>1
    <2>2. i + 1 \in DOMAIN cola_exit /\ j + 1 \in DOMAIN cola_exit
      BY <1>1, <1>2
    <2>3. i + 1 = j + 1
      BY <2>1, <2>2 DEF Lugar, LugarSalida
    <2> QED BY <2>3
  <1>6. \A i \in DOMAIN t : t[i] \in Procesos
    BY <1>1
  <1> QED BY <1>1, <1>3, <1>4, <1>5, <1>6 DEF t

\* The process is destroyed.
LEMMA MuereLugar ==
  ASSUME Tipo, Lugar, NEW p \in Procesos, estado[p] = "exit", Muere(p),
         salida.proceso \in {Nadie, p},
         cola_exit' \in Seq(Procesos),
         \A i \in DOMAIN cola_exit' :
           estado[cola_exit'[i]] = "exit" /\ cola_exit'[i] # p /\ cola_exit'[i] \in Procesos,
         \A i, j \in DOMAIN cola_exit' : cola_exit'[i] = cola_exit'[j] => i = j,
         UNCHANGED <<exec, usos, caido>>, Len(globales') = Len(globales)
  PROVE  /\ TipoProcesos' /\ TipoHilos' /\ LugarExec' /\ LugarSalida' /\ Propias'
         /\ \A q : estado[q] = "archivo" => estado'[q] = "archivo"
  <1>1. /\ estado' \in [Procesos -> Estados] /\ estado'[p] = "fin"
        /\ \A q : q # p => estado'[q] = estado[q]
    BY DEF Muere, Tipo, TipoProcesos, Estados
  <1>2. /\ abierto' \in [Procesos -> Modos \cup {"no"}] /\ abierto'[p] = "no"
        /\ \A q : q # p => abierto'[q] = abierto[q]
    BY DEF Muere, Tipo, TipoProcesos
  <1>3. /\ archivos_abiertos' \in [Procesos -> BOOLEAN] /\ archivos_abiertos'[p] = FALSE
        /\ \A q : q # p => archivos_abiertos'[q] = archivos_abiertos[q]
    BY DEF Muere, Tipo, TipoProcesos
  <1>4. salida' = SalidaLibre /\ salida'.proceso = Nadie
    BY DEF Muere, SalidaLibre
  <1>5. Len(globales) \in Nat /\ SalidaLibre \in DeSalida(Len(globales'))
    BY LenTipo, LibreTipo DEF Tipo
  <1>6. TipoProcesos' /\ TipoHilos'
    BY <1>1, <1>2, <1>3, <1>4, <1>5 DEF Tipo, TipoProcesos, TipoHilos
  <1>7. LugarExec'
    BY <1>1, <1>2 DEF Lugar, LugarExec
  <1>8. LugarSalida'
    <2>1. \A i \in DOMAIN cola_exit' : cola_exit'[i] # Nadie
      BY NadieNoEsProceso
    <2> QED BY <1>1, <1>4, <2>1 DEF LugarSalida
  <1>9. Propias'
    <2>1. \A q \in Procesos : q # p => salida.proceso # q
      BY NadieNoEsProceso
    <2> QED BY <1>1, <1>2, <1>3, <1>4, <2>1 DEF Lugar, Propias
  <1> QED BY <1>1, <1>6, <1>7, <1>8, <1>9

LEMMA DestruirLugar ==
  ASSUME Tipo, Lugar, NEW p \in Procesos, Destruir(p)
  PROVE  Tipo' /\ Lugar'
  <1> DEFINE g == buscarArchivoGlobal
  <1>1. /\ salida = SalidaLibre /\ salida.proceso = Nadie /\ cola_exit # <<>>
        /\ Head(cola_exit) = p /\ cola_exit' = Tail(cola_exit)
        /\ UNCHANGED <<lista_archivos_abiertos, exec, usos>>
    BY DEF Destruir, SalidaLibre
  <1>2. /\ estado[p] = "exit" /\ cola_exit' \in Seq(Procesos)
        /\ \A i \in DOMAIN cola_exit' :
             estado[cola_exit'[i]] = "exit" /\ cola_exit'[i] # p /\ cola_exit'[i] \in Procesos
        /\ \A i, j \in DOMAIN cola_exit' : cola_exit'[i] = cola_exit'[j] => i = j
    BY <1>1, ColaExitMengua
  <1>3. p # Nadie /\ \A i \in DOMAIN cola_exit' : cola_exit'[i] # Nadie
    BY <1>2, NadieNoEsProceso
  <1>4. CASE Muere(p) /\ UNCHANGED <<globales, caido>>
    <2>1. /\ TipoProcesos' /\ TipoHilos' /\ LugarExec' /\ LugarSalida' /\ Propias'
          /\ \A q : estado[q] = "archivo" => estado'[q] = "archivo"
      BY <1>1, <1>2, <1>4, MuereLugar
    <2>2. TipoTabla'
      BY <1>1, <1>4 DEF Tipo, TipoTabla
    <2>3. LugarCola'
      BY <1>4, <2>1, ColaIgual DEF Lugar
    <2> QED BY <2>1, <2>2, <2>3 DEF Tipo, Lugar
  <1>5. CASE /\ caido' = "nulo"
             /\ UNCHANGED <<globales, archivos_abiertos, abierto, estado, salida>>
    <2>1. Tipo'
      BY <1>1, <1>2, <1>5 DEF Tipo, TipoTabla, TipoProcesos, TipoHilos
    <2>2. LugarSalida'
      BY <1>1, <1>2, <1>3, <1>5 DEF LugarSalida
    <2>3. LugarExec' /\ LugarCola' /\ Propias'
      BY <1>1, <1>5 DEF Lugar, LugarExec, LugarCola, Propias
    <2> QED BY <2>1, <2>2, <2>3 DEF Lugar
  <1>6. CASE /\ archivos_abiertos[p] /\ g # NULL
             /\ globales' = [globales EXCEPT ![g].contador = @ - 1]
             /\ salida' = [proceso |-> p, paso |-> "probar", g |-> g]
             /\ abierto' = IF globales[g].contador > 1 THEN [abierto EXCEPT ![p] = "no"]
                           ELSE abierto
             /\ UNCHANGED <<archivos_abiertos, estado, caido>>
    <2>1. /\ globales \in Seq(Entradas) /\ g \in DOMAIN globales /\ globales[g] \in Entradas
          /\ g \in 0 .. Len(globales) /\ Len(globales) \in Nat
      BY <1>6, BuscarTipo, LenTipo, EnColaTipo DEF Tipo, TipoTabla
    <2> HIDE DEF g
    <2> DEFINE e == [globales[g] EXCEPT !.contador = @ - 1]
    <2>2. e \in Entradas /\ e.colabloqueado = globales[g].colabloqueado
      <3>1. globales[g] \in Entradas
        BY <2>1
      <3> QED BY <3>1 DEF Entradas
    <2>3. globales' = [globales EXCEPT ![g] = e]
      BY <1>6
    <2> HIDE DEF e
    <2>4. salida'.proceso = p /\ salida'.paso = "probar" /\ salida'.g = g /\ g # NULL
      BY <1>6
    <2>5. salida' \in DeSalida(Len(globales))
      BY <1>6, <2>1 DEF DeSalida
    <2>6. /\ globales' \in Seq(Entradas) /\ Len(globales') = Len(globales)
          /\ DOMAIN globales' = DOMAIN globales
          /\ globales'[g] = e /\ \A h \in DOMAIN globales : h # g => globales'[h] = globales[h]
      BY <2>1, <2>2, <2>3
    <2>7. /\ abierto' \in [Procesos -> Modos \cup {"no"}]
          /\ \A q : q # p => abierto'[q] = abierto[q]
      BY <1>6 DEF Tipo, TipoProcesos
    <2>8. Tipo'
      BY <1>1, <1>2, <1>6, <2>5, <2>6, <2>7 DEF Tipo, TipoTabla, TipoProcesos, TipoHilos
    <2>9. LugarExec'
      BY <1>1, <1>2, <1>6, <2>7 DEF Lugar, LugarExec
    <2>10. LugarSalida'
      BY <1>2, <1>6, <2>4 DEF LugarSalida
    <2>11. LugarCola'
      <3>1. \A h \in DOMAIN globales' :
              h \in DOMAIN globales /\ globales'[h].colabloqueado = globales[h].colabloqueado
        BY <2>2, <2>6
      <3> QED BY <1>6, <3>1, ColaIgual DEF Lugar
    <2>12. Propias'
      BY <1>1, <1>2, <1>6, <2>4, <2>7, NadieNoEsProceso DEF Lugar, Propias
    <2> QED BY <2>8, <2>9, <2>10, <2>11, <2>12 DEF Lugar
  <1> QED BY <1>4, <1>5, <1>6 DEF Destruir

LEMMA LiberarLugar ==
  ASSUME Tipo, Lugar, NEW p \in Procesos, LiberarEntrada(p)
  PROVE  Tipo' /\ Lugar'
  <1> DEFINE g == salida.g
  <1>1. /\ salida.proceso = p /\ Muere(p) /\ UNCHANGED <<exec, cola_exit, usos, caido>>
        /\ \/ /\ lista_archivos_abiertos' = RemoveFirst(lista_archivos_abiertos, g)
              /\ globales' = [globales EXCEPT ![g].liberada = TRUE]
           \/ UNCHANGED <<lista_archivos_abiertos, globales>>
    BY DEF LiberarEntrada
  <1>2. p # Nadie /\ estado[p] = "exit" /\ g # NULL
    BY <1>1, NadieNoEsProceso DEF Lugar, LugarSalida
  <1>3. /\ g \in 0 .. Len(globales) /\ cola_exit \in Seq(Procesos)
        /\ \A i \in DOMAIN cola_exit : cola_exit[i] \in Procesos
    BY DEF Tipo, TipoHilos, DeSalida
  <1>4. /\ globales \in Seq(Entradas) /\ Len(globales) \in Nat
        /\ g \in DOMAIN globales /\ globales[g] \in Entradas
    BY <1>2, <1>3, LenTipo, EnColaTipo DEF Tipo, TipoTabla, NULL
  <1>5. /\ globales' \in Seq(Entradas) /\ Len(globales') = Len(globales)
        /\ DOMAIN globales' = DOMAIN globales
        /\ \A h \in DOMAIN globales : globales'[h].colabloqueado = globales[h].colabloqueado
    <2>1. CASE globales' = [globales EXCEPT ![g].liberada = TRUE]
      <3> DEFINE e == [globales[g] EXCEPT !.liberada = TRUE]
      <3>1. e \in Entradas /\ e.colabloqueado = globales[g].colabloqueado
        BY <1>4 DEF Entradas
      <3>2. globales' = [globales EXCEPT ![g] = e]
        BY <2>1
      <3> HIDE DEF e, g
      <3> QED BY <1>4, <3>1, <3>2
    <2>2. CASE UNCHANGED globales
      BY <1>4, <2>2
    <2> QED BY <1>1, <2>1, <2>2
  <1>6. lista_archivos_abiertos' \in Seq(1 .. Len(globales'))
    <2>1. lista_archivos_abiertos \in Seq(1 .. Len(globales))
      BY DEF Tipo, TipoTabla
    <2>2. RemoveFirst(lista_archivos_abiertos, g) \in Seq(1 .. Len(globales))
      BY <2>1, RemoveFirstTipo
    <2> QED BY <1>1, <1>5, <2>1, <2>2
  <1> HIDE DEF g
  <1>7. /\ TipoProcesos' /\ TipoHilos' /\ LugarExec' /\ LugarSalida' /\ Propias'
        /\ \A q : estado[q] = "archivo" => estado'[q] = "archivo"
    <2>1. /\ cola_exit' \in Seq(Procesos)
          /\ \A i \in DOMAIN cola_exit' :
               estado[cola_exit'[i]] = "exit" /\ cola_exit'[i] # p /\ cola_exit'[i] \in Procesos
          /\ \A i, j \in DOMAIN cola_exit' : cola_exit'[i] = cola_exit'[j] => i = j
      BY <1>1, <1>3 DEF Lugar, LugarSalida
    <2> QED BY <1>1, <1>2, <1>5, <2>1, MuereLugar
  <1>8. TipoTabla'
    BY <1>5, <1>6 DEF TipoTabla
  <1>9. LugarCola'
    BY <1>5, <1>7, ColaIgual DEF Lugar
  <1> QED BY <1>7, <1>8, <1>9 DEF Tipo, Lugar

\* Types and places hold from the start, and each step keeps them.
LEMMA InicioLugar == Init => Tipo /\ Lugar
  <1> SUFFICES ASSUME Init PROVE Tipo /\ Lugar
    OBVIOUS
  <1>1. Len(globales) = 0 /\ globales = <<>> /\ lista_archivos_abiertos = <<>>
    BY DEF Init
  <1>2. Tipo
    BY <1>1, LibreTipo, ArchivosSupuestos
       DEF Init, Tipo, TipoTabla, TipoProcesos, TipoHilos, Estados
  <1>3. Lugar
    BY <1>1 DEF Init, Lugar, LugarExec, LugarSalida, LugarCola, Propias, EjecutorLibre,
                SalidaLibre
  <1> QED BY <1>2, <1>3

LEMMA PasoLugar ==
  ASSUME Tipo, Lugar, [Next]_vars
  PROVE  Tipo' /\ Lugar'
  <1>1. CASE UNCHANGED vars
    BY <1>1 DEF vars, Tipo, TipoTabla, TipoProcesos, TipoHilos, Lugar, LugarExec, LugarSalida,
                LugarCola, Propias
  <1>2. ASSUME NEW p \in Procesos, Ejecutar(p) PROVE Tipo' /\ Lugar'
    BY <1>2, ElegirLugar, AbrirLugar, AbrirNuevoLugar, AbrirCompartidoLugar, UsarLugar,
       EscribirLugar, CerrarLugar, CerrarRotoLugar, CerrarEntregaLugar, CerrarDeVariosLugar,
       CerrarFinLugar, DesalojarLugar, TerminarLugar
       DEF Ejecutar
  <1>3. ASSUME NEW p \in Procesos, RecibirOpFS(p) \/ Salida(p) PROVE Tipo' /\ Lugar'
    BY <1>3, RecibirLugar, DestruirLugar, LiberarLugar DEF Salida
  <1> QED BY <1>1, <1>2, <1>3 DEF Next

LEMMA SiempreLugar == Spec => [](Tipo /\ Lugar)
  BY InicioLugar, PasoLugar, PTL DEF Spec

\* Type correctness of the table of open files: pointers lead to entries that exist, and the
\* process of exec_pcb is the one in EXEC.
THEOREM TiposDeArchivos == Spec => []TypeOK
  <1>1. Tipo /\ Lugar => TypeOK
    <2> SUFFICES ASSUME Tipo, Lugar PROVE TypeOK
      OBVIOUS
    <2>1. \A g \in DOMAIN globales :
            /\ globales[g].lock \in {"R", "W", "N"} /\ globales[g].contador \in Int
            /\ ToSet(globales[g].colabloqueado) \subseteq [proceso : Procesos, modo : Modos]
      <3> SUFFICES ASSUME NEW g \in DOMAIN globales
                   PROVE  /\ globales[g].lock \in {"R", "W", "N"} /\ globales[g].contador \in Int
                          /\ ToSet(globales[g].colabloqueado) \subseteq Espera
        BY DEF Espera
      <3>1. globales[g] \in Entradas
            /\ \A i \in DOMAIN globales[g].colabloqueado : globales[g].colabloqueado[i] \in Espera
        BY EnColaTipo DEF Tipo
      <3> QED BY <3>1 DEF ToSet, Entradas
    <2>2. ToSet(lista_archivos_abiertos) \subseteq DOMAIN globales
      BY LenTipo DEF Tipo, TipoTabla, ToSet
    <2>3. exec \in [proceso : Procesos \cup {Nadie}, modo : Modos, g : 0 .. Len(globales),
               paso : {"elegir", "seguir", "abrir", "abrir_fs", "cerrar"}]
          /\ (exec.proceso # Nadie => estado[exec.proceso] = "exec")
      BY DEF Tipo, TipoHilos, DeExec, Lugar, LugarExec
    <2>4. ToSet(cola_exit) \subseteq Procesos
      BY DEF Tipo, TipoHilos, ToSet
    <2>5. salida.proceso \in Procesos \cup {Nadie} /\ salida.g \in 0 .. Len(globales)
      BY DEF Tipo, TipoHilos, DeSalida
    <2> QED BY <2>1, <2>2, <2>3, <2>4, <2>5 DEF TypeOK, Tipo, TipoProcesos, TipoHilos, Estados
  <1> QED BY <1>1, SiempreLugar, PTL

-----------------------------------------------------------------------------
(* What the counter of the entry counts *)

\* What has left the contract stays so.
LEMMA FueraCrece ==
  ASSUME [Next]_vars
  PROVE  fuera \subseteq fuera'
  <1>1. CASE UNCHANGED vars
    BY <1>1 DEF vars
  <1>2. ASSUME NEW p \in Procesos, Ejecutar(p) PROVE fuera \subseteq fuera'
    <2>1. CASE Elegir(p) \/ (\E modo \in Modos : Abrir(p, modo)) \/ AbrirNuevo(p)
      BY <2>1 DEF Elegir, Abrir, AbrirNuevo
    <2>2. CASE AbrirCompartido(p)
      BY <2>2 DEF AbrirCompartido
    <2>3. CASE \E bloquea \in BOOLEAN : Usar(p, bloquea)
      BY <2>3 DEF Usar
    <2>4. CASE Escribir(p)
      BY <2>4 DEF Escribir
    <2>5. CASE Cerrar(p) \/ CerrarRoto(p) \/ Desalojar(p) \/ Terminar(p)
      BY <2>5 DEF Cerrar, CerrarRoto, Desalojar, Terminar
    <2>6. CASE CerrarEntrega(p)
      BY <2>6 DEF CerrarEntrega
    <2>7. CASE CerrarDeVarios(p) \/ CerrarFin(p)
      BY <2>7 DEF CerrarDeVarios, CerrarFin
    <2> QED BY <1>2, <2>1, <2>2, <2>3, <2>4, <2>5, <2>6, <2>7 DEF Ejecutar
  <1>3. ASSUME NEW p \in Procesos, RecibirOpFS(p) \/ Destruir(p) \/ LiberarEntrada(p)
        PROVE  fuera \subseteq fuera'
    BY <1>3 DEF RecibirOpFS, Destruir, LiberarEntrada
  <1> QED BY <1>1, <1>2, <1>3 DEF Next, Salida

\* In a clean state the table is empty, or it is the entry of all that count.
LEMMA UnaSola ==
  ASSUME Tipo, UnaEntrada, Contados
  PROVE  \/ lista_archivos_abiertos = <<>> /\ Cuentan = {}
         \/ \E g \in DOMAIN globales :
              /\ lista_archivos_abiertos = <<g>> /\ EnTabla = globales[g]
              /\ buscarArchivoGlobal = g /\ g # NULL
              /\ ~globales[g].liberada /\ globales[g].lock \in {"R", "W"}
              /\ Cardinality(Cuentan) <= globales[g].contador
              /\ Cardinality(Cuentan) \in Nat
              /\ globales[g].lock = "W" => globales[g].contador <= 1
              /\ \A q \in Cuentan : abierto[q] = "W" => globales[g].lock = "W"
  <1>1. Cardinality(Cuentan) \in Nat
    BY FS_CardinalityType DEF Contados
  <1>2. CASE lista_archivos_abiertos = <<>>
    BY <1>2 DEF Contados
  <1>3. CASE lista_archivos_abiertos # <<>>
    <2> DEFINE g == lista_archivos_abiertos[1]
    <2>1. lista_archivos_abiertos \in Seq(1 .. Len(globales))
      BY DEF Tipo, TipoTabla
    <2>2. Len(lista_archivos_abiertos) = 1
      <3> DEFINE m == Len(lista_archivos_abiertos)
      <3>1. m <= 1
        BY DEF UnaEntrada
      <3>2. m \in Nat /\ m # 0
        <4> HIDE DEF g
        <4> QED BY <1>3, <2>1
      <3> HIDE DEF m
      <3>3. m = 1
        BY <3>1, <3>2
      <3> QED BY <3>3 DEF m
    <2>3. lista_archivos_abiertos = <<g>> /\ g \in 1 .. Len(globales)
      BY <2>1, <2>2
    <2>4. buscarArchivoGlobal = g /\ g # NULL /\ g \in DOMAIN globales
      BY <1>3, BuscarTipo DEF Tipo
    <2>5. globales[g] \in Entradas /\ globales[g].lock \in {"R", "W", "N"}
      BY <2>4, EnColaTipo DEF Tipo, Entradas
    <2>6. EnTabla = globales[g]
      BY DEF EnTabla
    <2>7. ~globales[g].liberada /\ globales[g].lock # "N"
      BY <1>3, <2>6 DEF UnaEntrada
    <2>8. /\ Cardinality(Cuentan) <= globales[g].contador
          /\ globales[g].lock = "W" => globales[g].contador <= 1
          /\ \A q \in Cuentan : abierto[q] = "W" => globales[g].lock = "W"
      BY <1>3, <2>6 DEF Contados
    <2> HIDE DEF g
    <2> QED BY <1>1, <2>3, <2>4, <2>5, <2>6, <2>7, <2>8
  <1> QED BY <1>2, <1>3

\* The converse, for the next state.
LEMMA UnaSolaSigue ==
  ASSUME NEW g, NEW S, lista_archivos_abiertos' = <<g>>, ~globales'[g].liberada,
         globales'[g].lock \in {"R", "W"},
         Cuentan' = S, IsFiniteSet(S), Cardinality(S) <= globales'[g].contador,
         globales'[g].lock = "W" => globales'[g].contador <= 1,
         \A q \in S : abierto'[q] = "W" => globales'[g].lock = "W",
         \/ exec'.paso \in {"elegir", "seguir"}
         \/ exec'.paso \in {"abrir", "cerrar"} /\ exec'.g # NULL
            /\ (~globales'[exec'.g].liberada => exec'.g = g)
  PROVE  UnaEntrada' /\ Contados'
  <1>1. EnTabla' = globales'[g] /\ Len(lista_archivos_abiertos') <= 1
        /\ lista_archivos_abiertos' # <<>>
    BY DEF EnTabla
  <1>2. UnaEntrada'
    BY <1>1 DEF UnaEntrada
  <1>3. Contados'
    BY <1>1 DEF Contados
  <1> QED BY <1>2, <1>3

\* A step that leaves the table alone, and takes nobody in.
LEMMA MismaTabla ==
  ASSUME Tipo, Lugar, Cuenta, fuera \subseteq fuera',
         UNCHANGED <<globales, lista_archivos_abiertos>>,
         Cuentan' \subseteq Cuentan, \A q \in Cuentan' : abierto'[q] = abierto[q],
         exec' = exec \/ exec'.paso \in {"elegir", "seguir"}
  PROVE  Cuenta'
  <1> SUFFICES ASSUME Limpio' PROVE UnaEntrada' /\ Contados'
    BY DEF Cuenta
  <1>1. UnaEntrada /\ Contados
    BY DEF Cuenta, Limpio
  <1>2. EnTabla' = EnTabla
    BY DEF EnTabla
  <1>3. UnaEntrada'
    <2>1. CASE exec' = exec
      BY <1>1, <1>2, <2>1 DEF UnaEntrada
    <2>2. CASE exec'.paso \in {"elegir", "seguir"}
      BY <1>1, <1>2, <2>2 DEF UnaEntrada
    <2> QED BY <2>1, <2>2
  <1>4. IsFiniteSet(Cuentan) /\ IsFiniteSet(Cuentan')
        /\ Cardinality(Cuentan') <= Cardinality(Cuentan)
        /\ Cardinality(Cuentan') \in Nat /\ Cardinality(Cuentan) \in Nat
    BY <1>1, FS_Subset, FS_CardinalityType DEF Contados
  <1>5. Contados'
    <2>1. lista_archivos_abiertos # <<>> => EnTabla.contador \in Int
      <3> SUFFICES ASSUME lista_archivos_abiertos # <<>> PROVE EnTabla.contador \in Int
        OBVIOUS
      <3>1. EnTabla = globales[buscarArchivoGlobal] /\ buscarArchivoGlobal \in DOMAIN globales
        BY BuscarTipo DEF Tipo, EnTabla
      <3>2. EnTabla \in Entradas
        BY <3>1, EnColaTipo DEF Tipo
      <3> QED BY <3>2 DEF Entradas
    <2>2. CASE lista_archivos_abiertos = <<>>
      BY <1>1, <1>4, <2>2 DEF Contados
    <2>3. CASE lista_archivos_abiertos # <<>>
      <3>1. Cardinality(Cuentan') <= EnTabla.contador
        BY <1>1, <1>4, <2>1, <2>3 DEF Contados
      <3> QED BY <1>1, <1>2, <1>4, <2>3, <3>1 DEF Contados
    <2> QED BY <2>2, <2>3
  <1> QED BY <1>3, <1>5

\* The steps that leave the table alone.
LEMMA ElegirCuenta ==
  ASSUME Tipo, Lugar, Cuenta, fuera \subseteq fuera', NEW p \in Procesos,
         \/ Elegir(p) \/ Desalojar(p) \/ Terminar(p) \/ RecibirOpFS(p) \/ CerrarRoto(p)
         \/ \E bloquea \in BOOLEAN : Usar(p, bloquea)
  PROVE  Cuenta'
  <1>1. /\ UNCHANGED <<globales, lista_archivos_abiertos, archivos_abiertos, abierto>>
        /\ salida' = salida
    BY DEF Elegir, Desalojar, Terminar, RecibirOpFS, CerrarRoto, Usar, tablaVars, salidaVars
  <1>2. exec' = exec \/ exec'.paso \in {"elegir", "seguir"}
    <2>1. CASE RecibirOpFS(p) \/ CerrarRoto(p) \/ Elegir(p)
      BY <2>1 DEF RecibirOpFS, CerrarRoto, Elegir, EjecutorLibre
    <2>2. CASE Desalojar(p) \/ Terminar(p)
      BY <2>2 DEF Desalojar, Terminar, Deja, EjecutorLibre
    <2>3. CASE \E bloquea \in BOOLEAN : Usar(p, bloquea)
      BY <2>3 DEF Usar, Deja, EjecutorLibre
    <2> QED BY <2>1, <2>2, <2>3
  <1>3. estado[p] # "exit" /\ \A q \in Procesos : q # p => estado'[q] = estado[q]
    <2>1. CASE Elegir(p) \/ RecibirOpFS(p)
      BY <2>1 DEF Elegir, RecibirOpFS, Tipo, TipoProcesos
    <2>2. CASE Desalojar(p) \/ Terminar(p) \/ CerrarRoto(p) \/ \E bloquea \in BOOLEAN : Usar(p, bloquea)
      <3>1. exec.proceso = p
        BY <2>2 DEF Desalojar, Terminar, CerrarRoto, Usar, Llamada, EnTurno, EnPaso
      <3>2. estado[p] = "exec"
        BY <3>1, EnManos
      <3>3. estado' = estado \/ \E l : estado' = [estado EXCEPT ![p] = l]
        BY <2>2 DEF Desalojar, Terminar, CerrarRoto, Usar, Deja
      <3> QED BY <3>2, <3>3 DEF Tipo, TipoProcesos
    <2> QED BY <2>1, <2>2
  <1>4. Cuentan' \subseteq Cuentan
    BY <1>1, <1>3 DEF Cuentan
  <1> QED BY <1>1, <1>2, <1>4, MismaTabla

LEMMA AbrirCuenta ==
  ASSUME Tipo, Lugar, Cuenta, NEW p \in Procesos,
         NEW modo \in Modos, Abrir(p, modo) \/ Cerrar(p)
  PROVE  Cuenta'
  <1> SUFFICES ASSUME Limpio' PROVE UnaEntrada' /\ Contados'
    BY DEF Cuenta
  <1>1. /\ UNCHANGED <<globales, lista_archivos_abiertos, archivos_abiertos, abierto, estado>>
        /\ salida' = salida /\ fuera' = fuera /\ exec.proceso = p /\ exec \in DeExec(Len(globales))
    BY DEF Abrir, Cerrar, tablaVars, salidaVars, Llamada, EnTurno, Tipo, TipoHilos
  <1>2. UnaEntrada /\ Contados
    BY <1>1 DEF Cuenta, Limpio
  <1>3. Cuentan' = Cuentan /\ EnTabla' = EnTabla
    BY <1>1 DEF Cuentan, EnTabla
  <1>4. Contados'
    BY <1>1, <1>2, <1>3 DEF Contados
  <1>5. /\ exec'.g = buscarArchivoGlobal
        /\ \/ exec'.paso = "abrir" /\ exec'.g # NULL
           \/ exec'.paso = "abrir_fs" /\ exec'.g = NULL
           \/ exec'.paso = "cerrar" /\ p \in Cuentan
    <2>1. CASE Abrir(p, modo)
      BY <1>1, <2>1 DEF Abrir, DeExec
    <2>2. CASE Cerrar(p)
      <3>1. estado[p] = "exec" /\ abierto[p] # "no"
        BY <1>1, <2>2, EnManos DEF Cerrar
      <3>2. p \in Cuentan
        BY <3>1 DEF Cuentan
      <3> QED BY <1>1, <2>2, <3>2 DEF Cerrar, DeExec
    <2> QED BY <2>1, <2>2
  <1>6. UnaEntrada'
    <2>1. CASE lista_archivos_abiertos = <<>> /\ Cuentan = {}
      <3>1. buscarArchivoGlobal = NULL
        BY <2>1 DEF buscarArchivoGlobal
      <3>2. exec'.paso = "abrir_fs" /\ exec'.g = NULL
        BY <1>5, <2>1, <3>1
      <3> QED BY <1>1, <2>1, <3>2 DEF UnaEntrada
    <2>2. CASE \E g \in DOMAIN globales :
                 lista_archivos_abiertos = <<g>> /\ buscarArchivoGlobal = g /\ g # NULL
      <3>1. exec'.g # NULL /\ lista_archivos_abiertos = <<exec'.g>> /\ exec'.paso # "abrir_fs"
        BY <1>5, <2>2
      <3> QED BY <1>1, <1>2, <1>3, <3>1 DEF UnaEntrada
    <2> QED BY <1>2, <2>1, <2>2, UnaSola
  <1> QED BY <1>4, <1>6

\* kf_open makes the entry: nobody else has the file.
LEMMA AbrirNuevoCuenta ==
  ASSUME Tipo, Lugar, Cuenta, NEW p \in Procesos, AbrirNuevo(p)
  PROVE  Cuenta'
  <1> SUFFICES ASSUME Limpio' PROVE UnaEntrada' /\ Contados'
    BY DEF Cuenta
  <1> DEFINE n == Len(globales)
             e == Entrada(exec.modo, 1)
  <1>1. /\ exec.proceso = p /\ exec.paso = "abrir_fs" /\ exec.modo \in Modos
        /\ globales' = Append(globales, e)
        /\ lista_archivos_abiertos' = Append(lista_archivos_abiertos, Len(globales'))
        /\ abierto' = [abierto EXCEPT ![p] = exec.modo]
        /\ salida' = salida /\ estado' = estado /\ fuera' = fuera /\ Sigue
    BY DEF AbrirNuevo, salidaVars, EnPaso, Tipo, TipoHilos, DeExec
  <1>2. UnaEntrada /\ Contados
    BY <1>1 DEF Cuenta, Limpio
  <1>3. lista_archivos_abiertos = <<>> /\ Cuentan = {}
    BY <1>1, <1>2 DEF UnaEntrada, Contados
  <1>4. /\ e.lock = exec.modo /\ e.contador = 1 /\ e.liberada = FALSE /\ e \in Entradas
    BY <1>1, EntradaTipo DEF Entrada
  <1>5. globales \in Seq(Entradas) /\ n \in Nat
    BY LenTipo DEF Tipo, TipoTabla
  <1> HIDE DEF e
  <1>6. Len(globales') = n + 1 /\ globales'[n + 1] = e
    BY <1>1, <1>4, <1>5
  <1>7. lista_archivos_abiertos' = <<n + 1>>
    BY <1>1, <1>3, <1>6
  <1>8. exec'.paso = "seguir"
    BY <1>1, <1>6, <1>5, SigueLugar
  <1>9. estado[p] = "exec" /\ salida.proceso # p
    BY <1>1, EnManos
  <1>10. Cuentan' = {p}
    <2>1. \A q \in Procesos : q # p => (archivos_abiertos'[q] <=> archivos_abiertos[q])
      BY DEF AbrirNuevo, ConEntrada
    <2>2. abierto'[p] # "no" /\ \A q \in Procesos : q # p => abierto'[q] = abierto[q]
      BY <1>1 DEF Tipo, TipoProcesos, Modos
    <2> QED BY <1>1, <1>3, <1>9, <2>1, <2>2 DEF Cuentan
  <1>11. IsFiniteSet({p}) /\ Cardinality({p}) = 1
    BY FS_Singleton
  <1>12. abierto'[p] = exec.modo
    BY <1>1 DEF Tipo, TipoProcesos
  <1>13. /\ ~globales'[n + 1].liberada /\ globales'[n + 1].lock \in {"R", "W"}
         /\ globales'[n + 1].contador = 1 /\ globales'[n + 1].lock = exec.modo
    BY <1>1, <1>4, <1>6 DEF Modos
  <1>14. \A q \in {p} : abierto'[q] = "W" => globales'[n + 1].lock = "W"
    BY <1>12, <1>13
  <1> HIDE DEF n
  <1> QED BY <1>7, <1>8, <1>10, <1>11, <1>13, <1>14, UnaSolaSigue

\* A reader joins, or somebody waits.
LEMMA AbrirCompartidoCuenta ==
  ASSUME Tipo, Lugar, Cuenta, fuera \subseteq fuera', NEW p \in Procesos, AbrirCompartido(p)
  PROVE  Cuenta'
  <1> DEFINE g == exec.g
  <1>1. /\ exec.proceso = p /\ exec.paso = "abrir" /\ exec.modo \in Modos
        /\ estado[p] = "exec" /\ abierto[p] = "no" /\ salida.proceso # p
        /\ UNCHANGED <<lista_archivos_abiertos, archivos_abiertos>> /\ salida' = salida
        /\ g # NULL
    BY EnManos DEF AbrirCompartido, salidaVars, EnPaso, Tipo, TipoHilos, DeExec, Lugar, LugarExec
  <1>2. CASE UNCHANGED <<globales, abierto, estado, exec>>
    <2>1. Cuentan' = Cuentan
      BY <1>1, <1>2 DEF Cuentan
    <2> QED BY <1>1, <1>2, <2>1, MismaTabla
  <1>3. CASE PunteroRoto(g) = "no" /\ ~UNCHANGED <<globales, abierto, estado, exec>>
    <2> SUFFICES ASSUME Limpio' PROVE UnaEntrada' /\ Contados'
      BY DEF Cuenta
    <2>1. UnaEntrada /\ Contados
      BY DEF Cuenta, Limpio
    <2>2. ~globales[g].liberada
      BY <1>3 DEF PunteroRoto
    <2>3. lista_archivos_abiertos = <<g>>
      BY <1>1, <2>1, <2>2 DEF UnaEntrada
    <2>4. /\ g \in DOMAIN globales /\ globales[g].lock \in {"R", "W"}
          /\ Cardinality(Cuentan) <= globales[g].contador
          /\ Cardinality(Cuentan) \in Nat
          /\ globales[g].lock = "W" => globales[g].contador <= 1
          /\ \A q \in Cuentan : abierto[q] = "W" => globales[g].lock = "W"
      <3>1. \A h : lista_archivos_abiertos = <<h>> => h = g
        BY <2>3
      <3>2. lista_archivos_abiertos # <<>>
        BY <2>3
      <3> QED BY <2>1, <3>1, <3>2, UnaSola
    <2>5. IsFiniteSet(Cuentan) /\ p \notin Cuentan
      BY <1>1, <2>1 DEF Contados, Cuentan
    <2>6. globales \in Seq(Entradas) /\ globales[g] \in Entradas
      BY <2>4, EnColaTipo DEF Tipo, TipoTabla
    <2> HIDE DEF g
    <2>7. CASE /\ globales' = [globales EXCEPT ![g].colabloqueado =
                     Append(@, [proceso |-> p, modo |-> exec.modo])]
               /\ Deja(p, "archivo") /\ abierto' = abierto
      <3>1. /\ globales'[g].lock = globales[g].lock /\ globales'[g].contador = globales[g].contador
            /\ globales'[g].liberada = globales[g].liberada
        BY <2>4, <2>6, <2>7 DEF Entradas
      <3>2. Cuentan' = Cuentan
        BY <1>1, <2>7 DEF Deja, Cuentan, Tipo, TipoProcesos
      <3>3. exec'.paso = "elegir"
        BY <2>7 DEF Deja, EjecutorLibre
      <3>4. \A q \in Cuentan : abierto'[q] = abierto[q]
        BY <2>7
      <3> QED BY <1>1, <2>2, <2>3, <2>4, <2>5, <3>1, <3>2, <3>3, <3>4, UnaSolaSigue
    <2>8. CASE /\ ~HayQueEsperar(globales[g], exec.modo)
               /\ globales' = [globales EXCEPT ![g].contador = @ + 1]
               /\ abierto' = [abierto EXCEPT ![p] = exec.modo]
               /\ Sigue /\ estado' = estado
      <3>1. /\ globales'[g].lock = globales[g].lock
            /\ globales'[g].contador = globales[g].contador + 1
            /\ globales'[g].liberada = globales[g].liberada
            /\ Len(globales') = Len(globales) /\ globales[g].contador \in Int
        <4> DEFINE e == [globales[g] EXCEPT !.contador = @ + 1]
        <4>1. /\ e \in Entradas /\ e.lock = globales[g].lock
              /\ e.contador = globales[g].contador + 1 /\ globales[g].contador \in Int
              /\ e.liberada = globales[g].liberada
          <5>1. globales[g] \in Entradas
            BY <2>6
          <5> QED BY <5>1 DEF Entradas
        <4>2. globales' = [globales EXCEPT ![g] = e]
          BY <2>8
        <4> HIDE DEF e
        <4> QED BY <2>4, <2>6, <4>1, <4>2
      <3>2. globales[g].lock = "R" /\ exec.modo = "R"
        BY <1>1, <2>4, <2>8 DEF HayQueEsperar, Modos
      <3>3. abierto'[p] = "R" /\ \A q \in Procesos : q # p => abierto'[q] = abierto[q]
        BY <2>8, <3>2 DEF Tipo, TipoProcesos
      <3>4. Cuentan' = Cuentan \cup {p}
        BY <1>1, <2>8, <3>3 DEF Cuentan
      <3>5. IsFiniteSet(Cuentan \cup {p}) /\ Cardinality(Cuentan \cup {p}) = Cardinality(Cuentan) + 1
        BY <2>5, FS_AddElement
      <3>6. exec'.paso = "seguir"
        BY <1>1, <2>8, <3>1, LenTipo, SigueLugar DEF Tipo
      <3>7. \A q \in Cuentan \cup {p} : abierto'[q] # "W"
        BY <2>4, <3>2, <3>3 DEF Cuentan
      <3>8. Cardinality(Cuentan \cup {p}) <= globales'[g].contador
        BY <2>4, <3>1, <3>5
      <3> QED BY <1>1, <2>2, <2>3, <3>1, <3>2, <3>4, <3>5, <3>6, <3>7, <3>8, UnaSolaSigue
    <2> QED BY <1>3, <2>7, <2>8 DEF AbrirCompartido, g
  <1> QED BY <1>2, <1>3 DEF AbrirCompartido

LEMMA EscribirCuenta ==
  ASSUME Tipo, Lugar, Cuenta, fuera \subseteq fuera', NEW p \in Procesos, Escribir(p)
  PROVE  Cuenta'
  <1>1. /\ exec.proceso = p /\ estado[p] = "exec"
        /\ UNCHANGED <<lista_archivos_abiertos, archivos_abiertos, abierto, salida>>
    BY EnManos DEF Escribir, Llamada, EnTurno
  <1>2. CASE "lector_escribe" \in fuera'
    BY <1>2 DEF Cuenta, Limpio
  <1>3. CASE "lector_escribe" \notin fuera'
    <2>1. globales' = globales /\ (UNCHANGED <<exec, estado>> \/ Deja(p, "fs"))
      BY <1>3 DEF Escribir
    <2>2. exec' = exec \/ exec'.paso \in {"elegir", "seguir"}
      BY <2>1 DEF Deja, EjecutorLibre
    <2>3. Cuentan' = Cuentan
      <3>1. \A q \in Procesos : estado'[q] = "exit" <=> estado[q] = "exit"
        BY <1>1, <2>1 DEF Deja, Tipo, TipoProcesos
      <3> QED BY <1>1, <3>1 DEF Cuentan
    <2> QED BY <1>1, <2>1, <2>2, <2>3, MismaTabla
  <1> QED BY <1>2, <1>3

\* What kf_close finds in a clean state: the one entry, and its process counted in it.
LEMMA CerrarHalla ==
  ASSUME Tipo, Lugar, UnaEntrada, Contados, NEW p \in Procesos,
         EnPaso(p, "cerrar"), PunteroRoto(exec.g) = "no", NEW g, g = exec.g
  PROVE  /\ lista_archivos_abiertos = <<g>> /\ g \in DOMAIN globales
         /\ ~globales[g].liberada /\ globales[g].lock \in {"R", "W"}
         /\ globales[g].contador \in Int
         /\ p \in Cuentan /\ IsFiniteSet(Cuentan)
         /\ Cardinality(Cuentan) \in Nat /\ Cardinality(Cuentan) >= 1
         /\ Cardinality(Cuentan) <= globales[g].contador
         /\ globales[g].lock = "W" => globales[g].contador <= 1
         /\ \A q \in Cuentan : abierto[q] = "W" => globales[g].lock = "W"
         /\ Cardinality(Cuentan) <= 1 => Cuentan = {p}
         /\ IsFiniteSet(Cuentan \ {p})
         /\ Cardinality(Cuentan \ {p}) = Cardinality(Cuentan) - 1
         /\ exec.proceso = p /\ exec.paso = "cerrar"
  <1>1. /\ exec.proceso = p /\ exec.paso = "cerrar" /\ g \in DOMAIN globales
        /\ ~globales[g].liberada /\ globales[g] \in Entradas
    BY CerrarEntradaTipo
  <1>2. estado[p] = "exec" /\ abierto[p] # "no"
    BY <1>1, EnManos, NadieNoEsProceso DEF Lugar, LugarExec
  <1>3. p \in Cuentan /\ IsFiniteSet(Cuentan)
    BY <1>2 DEF Cuentan, Contados
  <1>4. g # NULL
    BY <1>1 DEF UnaEntrada
  <1>5. lista_archivos_abiertos = <<g>>
    BY <1>1, <1>4 DEF UnaEntrada
  <1>6. /\ globales[g].lock \in {"R", "W"}
        /\ Cardinality(Cuentan) <= globales[g].contador
        /\ Cardinality(Cuentan) \in Nat
        /\ globales[g].lock = "W" => globales[g].contador <= 1
        /\ \A q \in Cuentan : abierto[q] = "W" => globales[g].lock = "W"
    <2>1. (\A h : lista_archivos_abiertos = <<h>> => h = g) /\ lista_archivos_abiertos # <<>>
      BY <1>5
    <2> QED BY <2>1, UnaSola
  <1>7. globales[g].contador \in Int
    BY <1>1 DEF Entradas
  <1>8. /\ IsFiniteSet(Cuentan \ {p})
        /\ Cardinality(Cuentan \ {p}) = Cardinality(Cuentan) - 1
        /\ Cardinality(Cuentan \ {p}) \in Nat
    BY <1>3, FS_RemoveElement, FS_CardinalityType
  <1>9. Cardinality(Cuentan) >= 1
    BY <1>6, <1>8
  <1>10. Cardinality(Cuentan) <= 1 => Cuentan = {p}
    <2> SUFFICES ASSUME Cardinality(Cuentan) <= 1 PROVE Cuentan = {p}
      OBVIOUS
    <2>1. Cardinality(Cuentan \ {p}) = 0
      BY <1>6, <1>8, <1>9
    <2>2. Cuentan \ {p} = {}
      BY <1>8, <2>1, FS_EmptySet
    <2> QED BY <1>3, <2>2
  <1> QED BY <1>1, <1>3, <1>5, <1>6, <1>7, <1>8, <1>9, <1>10

\* What it makes of the entry: N only if that process was the last one.
LEMMA CerrarSuelta ==
  ASSUME Tipo, Lugar, UnaEntrada, Contados, NEW p \in Procesos,
         EnPaso(p, "cerrar"), PunteroRoto(exec.g) = "no",
         NEW g, NEW e, NEW cola, NEW n, NEW resto, DeCierre(p, g, e, cola, n, resto)
  PROVE  /\ e.lock = "N" => Cuentan = {p} /\ e.contador = 0
         /\ e.lock # "N" => /\ e.contador <= globales[g].contador
                            /\ e.contador >= globales[g].contador - 1
                            /\ archivos_abiertos[p] =>
                                 e.contador = globales[g].contador - 1 /\ e.contador # 0
                            /\ ~archivos_abiertos[p] => e = globales[g]
         /\ e.contador \in Int /\ e.contador >= 0
         /\ resto = <<>>
         /\ e.lock # "N" => e.contador >= 1
  <1>1. /\ g = exec.g /\ e = Soltada(globales[g], archivos_abiertos[p])
        /\ resto = RemoveFirst(lista_archivos_abiertos, g)
    BY DEF DeCierre
  <1>2. /\ lista_archivos_abiertos = <<g>> /\ globales[g].lock \in {"R", "W"}
        /\ globales[g].contador \in Int /\ Cardinality(Cuentan) \in Nat
        /\ Cardinality(Cuentan) >= 1 /\ Cardinality(Cuentan) <= globales[g].contador
        /\ globales[g].lock = "W" => globales[g].contador <= 1
        /\ Cardinality(Cuentan) <= 1 => Cuentan = {p}
        /\ g \in DOMAIN globales
    BY <1>1, CerrarHalla
  <1>3. globales[g] \in Entradas /\ archivos_abiertos[p] \in BOOLEAN
    BY <1>2, EnColaTipo DEF Tipo, TipoProcesos
  <1>4. resto = <<>>
    BY <1>1, <1>2, RemoveFirstUna
  <1> DEFINE x == globales[g]
             c == IF x.lock = "R" THEN x.contador - 1 ELSE x.contador
  <1>5. c \in Int
    BY <1>2
  <1>6. CASE ~archivos_abiertos[p]
    <2>1. e = x
      BY <1>1, <1>6 DEF Soltada
    <2> QED BY <1>2, <1>4, <1>6, <2>1
  <1>7. CASE archivos_abiertos[p] /\ (x.lock = "W" \/ c = 0)
    <2>1. e = [x EXCEPT !.lock = "N", !.contador = 0]
      BY <1>1, <1>7 DEF Soltada
    <2>2. e.lock = "N" /\ e.contador = 0
      BY <1>3, <2>1 DEF Entradas
    <2>3. x.contador <= 1
      BY <1>2, <1>7
    <2>4. Cuentan = {p}
      BY <1>2, <2>3
    <2> QED BY <1>4, <2>2, <2>4
  <1>8. CASE archivos_abiertos[p] /\ ~(x.lock = "W" \/ c = 0)
    <2>1. e = [x EXCEPT !.contador = c]
      BY <1>1, <1>8 DEF Soltada
    <2>2. x.lock = "R" /\ c = x.contador - 1 /\ c # 0
      BY <1>2, <1>8
    <2> HIDE DEF c
    <2>3. e.lock = x.lock /\ e.contador = c
      BY <1>3, <2>1 DEF Entradas
    <2> HIDE DEF x
    <2>4. e.lock # "N" /\ e.contador = x.contador - 1 /\ e.contador # 0
      BY <2>2, <2>3
    <2> QED BY <1>2, <1>4, <1>8, <2>4 DEF x
  <1> QED BY <1>6, <1>7, <1>8

\* The file is handed over as a whole: the old entry had that process alone, the new one
\* has those let in.
LEMMA EntregaLimpia ==
  ASSUME Tipo, Lugar, Cuenta, Limpio', fuera \subseteq fuera', NEW p \in Procesos,
         CerrarEntrega(p), NEW g, NEW e, NEW cola, NEW n, NEW resto,
         DeCierre(p, g, e, cola, n, resto)
  PROVE  /\ cola # <<>> /\ cola \in Seq(Espera) /\ Escritores(cola) = <<>>
         /\ cola[1].modo = "W" => Lectores(cola) = <<>>
         /\ cola[1] \in Espera /\ Cuentan = {p} /\ lista_archivos_abiertos = <<g>>
         /\ lista_archivos_abiertos' = <<n + 1>>
         /\ globales'[n + 1].contador = Len(Lectores(cola)) + 1
         /\ globales'[n + 1].colabloqueado = <<>> /\ ~globales'[n + 1].liberada
         /\ globales'[n + 1].lock = cola[1].modo
         /\ p \notin Quienes(cola) /\ Quienes(cola) \subseteq Procesos
         /\ \A q \in Procesos :
              /\ archivos_abiertos'[q] <=>
                   q # p /\ (archivos_abiertos[q] \/ q \in Quienes(cola))
              /\ abierto'[q] = IF q = p THEN "no"
                               ELSE IF q \in Quienes(cola) THEN Abren(cola)[q] ELSE abierto[q]
              /\ estado'[q] = IF q \in Quienes(cola) THEN "ready" ELSE estado[q]
         /\ exec'.paso = "seguir" /\ salida' = salida
         /\ \A q \in Quienes(cola) : abierto'[q] = cola[1].modo
         /\ Cuentan' = Quienes(cola) /\ IsFiniteSet(Quienes(cola))
         /\ Cardinality(Quienes(cola)) = Len(Lectores(cola)) + 1
         /\ Len(Lectores(cola)) \in Nat
  <1>1. UnaEntrada /\ Contados
    BY DEF Cuenta, Limpio
  <1>2. EnPaso(p, "cerrar") /\ PunteroRoto(exec.g) = "no"
    BY DEF CerrarEntrega
  <1>3. /\ g = exec.g /\ cola = globales[g].colabloqueado /\ n = Len(globales)
    BY DEF DeCierre
  <1>4. /\ g \in DOMAIN globales /\ n \in Nat
        /\ exec.proceso = p /\ exec.paso = "cerrar" /\ lista_archivos_abiertos = <<g>>
    BY <1>1, <1>2, <1>3, CerrarEntradaTipo, CerrarHalla
  <1>5. /\ cola # <<>> /\ e.lock = "N" /\ Suelta(p, Abren(cola))
        /\ Len(globales') = n + 1 /\ globales'[n + 1].colabloqueado = <<>>
        /\ ~globales'[n + 1].liberada /\ globales'[n + 1].lock = cola[1].modo
        /\ resto = <<>> =>
             globales'[n + 1].contador = e.contador + 1 + Len(Lectores(cola))
        /\ lista_archivos_abiertos' =
             IF Escritores(cola) = <<>> THEN Append(resto, n + 1)
             ELSE Append(Append(resto, n + 1), g)
        /\ fuera' = fuera
              \cup (IF Escritores(cola) # <<>> THEN {"escritor_espera_detras"} ELSE {})
              \cup (IF cola[1].modo = "W" /\ Lectores(cola) # <<>>
                    THEN {"lector_con_escritor"} ELSE {})
    BY EntregaEs
  <1>6. /\ cola \in Seq(Espera)
        /\ \A i, j \in DOMAIN cola : cola[i].proceso = cola[j].proceso => i = j
        /\ \A i \in DOMAIN cola : estado[cola[i].proceso] = "archivo"
    BY <1>3, <1>4, ColaDeEntrada
  <1>7. resto = <<>> /\ Cuentan = {p} /\ e.contador = 0
    BY <1>1, <1>2, <1>5, CerrarSuelta
  <1>8. Escritores(cola) = <<>> /\ ~(cola[1].modo = "W" /\ Lectores(cola) # <<>>)
    BY <1>5 DEF Limpio
  <1>9. /\ DOMAIN Abren(cola) = Quienes(cola)
        /\ \A q \in Quienes(cola) : q \in Procesos /\ Abren(cola)[q] \in Modos
        /\ \A q \in Quienes(cola) : \E j \in DOMAIN cola :
             q = cola[j].proceso /\ Abren(cola)[q] = cola[j].modo
        /\ \A k \in DOMAIN Entran(cola) : Abren(cola)[Entran(cola)[k].proceso] = Entran(cola)[k].modo
        /\ \A q \in Quienes(cola) : \E k \in DOMAIN Entran(cola) : q = Entran(cola)[k].proceso
        /\ IsFiniteSet(Quienes(cola)) /\ Cardinality(Quienes(cola)) = Len(Lectores(cola)) + 1
        /\ Len(Lectores(cola)) \in Nat
    BY <1>5, <1>6, AbrenTipo
  <1>10. /\ Entran(cola) \in Seq(Espera) /\ Head(Entran(cola)) = cola[1]
         /\ Lectores(cola) \in Seq(Espera) /\ cola[1] \in Espera
         /\ \A k \in DOMAIN Entran(cola) : \E j \in DOMAIN cola :
              /\ Entran(cola)[k] = cola[j] /\ (k # 1 => j # 1 /\ cola[j].modo = "R")
    BY <1>5, <1>6, Reparto
  <1>11. lista_archivos_abiertos' = <<n + 1>>
    BY <1>5, <1>7, <1>8
  <1>12. globales'[n + 1].contador = Len(Lectores(cola)) + 1
    BY <1>5, <1>7, <1>9
  <1>13. \A q \in Quienes(cola) : q \in Procesos /\ estado[q] = "archivo"
                                  /\ Abren(cola)[q] \in Modos
    BY <1>6, <1>9
  <1>14. /\ p \notin Quienes(cola)
         /\ \A q \in Procesos :
              /\ archivos_abiertos'[q] <=>
                   q # p /\ (archivos_abiertos[q] \/ q \in Quienes(cola))
              /\ abierto'[q] = IF q = p THEN "no"
                               ELSE IF q \in Quienes(cola) THEN Abren(cola)[q] ELSE abierto[q]
              /\ estado'[q] = IF q \in Quienes(cola) THEN "ready" ELSE estado[q]
         /\ exec'.paso = "seguir" /\ salida' = salida
    <2>1. Len(globales') \in Nat /\ Len(globales) <= Len(globales')
      BY <1>3, <1>4, <1>5
    <2>2. Suelta(p, Abren(cola)) /\ exec.proceso = p /\ exec.paso = "cerrar"
      BY <1>4, <1>5
    <2>3. DOMAIN Abren(cola) = Quienes(cola)
      BY <1>9
    <2>4. salida' = salida
      BY <2>2 DEF Suelta, salidaVars
    <2> QED BY <1>13, <2>1, <2>2, <2>3, <2>4, SueltaLugar
  <1>15. Cuentan' = Quienes(cola)
    <2>1. \A q \in Quienes(cola) : q \in Cuentan'
      BY <1>13, <1>14 DEF Cuentan, Modos
    <2>2. \A q \in Procesos : q \notin Quienes(cola) => q \notin Cuentan'
      BY <1>7, <1>14 DEF Cuentan
    <2>3. Cuentan' \subseteq Procesos
      BY DEF Cuentan
    <2> QED BY <2>1, <2>2, <2>3
  <1>16. \A q \in Quienes(cola) : abierto'[q] = cola[1].modo
    <2> SUFFICES ASSUME NEW q \in Quienes(cola) PROVE Abren(cola)[q] = cola[1].modo
      BY <1>13, <1>14
    <2>1. PICK k \in DOMAIN Entran(cola) : q = Entran(cola)[k].proceso
      BY <1>9
    <2>2. Abren(cola)[q] = Entran(cola)[k].modo
      BY <1>9, <2>1
    <2>3. CASE k = 1
      BY <1>10, <2>2, <2>3
    <2>4. CASE k # 1
      <3>1. Entran(cola)[k].modo = "R"
        BY <1>10, <2>4
      <3>2. Lectores(cola) # <<>>
        <4>1. Len(Entran(cola)) = Len(Lectores(cola)) + 1
          BY <1>5, <1>6, Reparto
        <4> QED BY <1>9, <1>10, <2>4, <4>1
      <3>3. cola[1].modo = "R"
        BY <1>8, <1>10, <3>2 DEF Espera, Modos
      <3> QED BY <2>2, <3>1, <3>3
    <2> QED BY <2>3, <2>4
  <1> QED BY <1>4, <1>5, <1>6, <1>7, <1>8, <1>9, <1>10, <1>11, <1>12, <1>13, <1>14, <1>15, <1>16

\* To as many as the new entry counts.
LEMMA CerrarEntregaCuenta ==
  ASSUME Tipo, Lugar, Cuenta, fuera \subseteq fuera', NEW p \in Procesos, CerrarEntrega(p)
  PROVE  Cuenta'
  <1> SUFFICES ASSUME Limpio' PROVE UnaEntrada' /\ Contados'
    BY DEF Cuenta
  <1> DEFINE g == exec.g
             e == Soltada(globales[g], archivos_abiertos[p])
             cola == globales[g].colabloqueado
             n == Len(globales)
             resto == RemoveFirst(lista_archivos_abiertos, g)
  <1>1. DeCierre(p, g, e, cola, n, resto)
    BY DEF DeCierre
  <1> HIDE DEF g, e, cola, n, resto
  <1>2. /\ lista_archivos_abiertos' = <<n + 1>>
        /\ globales'[n + 1].contador = Len(Lectores(cola)) + 1
        /\ ~globales'[n + 1].liberada /\ globales'[n + 1].lock = cola[1].modo
        /\ Cuentan' = Quienes(cola) /\ IsFiniteSet(Quienes(cola))
        /\ Cardinality(Quienes(cola)) = Len(Lectores(cola)) + 1
        /\ \A q \in Quienes(cola) : abierto'[q] = cola[1].modo
        /\ exec'.paso = "seguir"
    BY <1>1, EntregaLimpia
  <1>3. cola[1].modo \in {"R", "W"}
    BY <1>1, EntregaLimpia DEF Espera, Modos
  <1>4. cola[1].modo = "W" => Len(Lectores(cola)) + 1 <= 1
    BY <1>1, EntregaLimpia
  <1>5. Cardinality(Quienes(cola)) <= globales'[n + 1].contador
    BY <1>1, <1>2, EntregaLimpia
  <1>6. globales'[n + 1].lock = "W" => globales'[n + 1].contador <= 1
    BY <1>2, <1>4
  <1>7. \A q \in Quienes(cola) : abierto'[q] = "W" => globales'[n + 1].lock = "W"
    BY <1>2
  <1> QED BY <1>2, <1>3, <1>5, <1>6, <1>7, UnaSolaSigue

\* Of several readers one leaves; the new entry counts one too many.
LEMMA CerrarDeVariosCuenta ==
  ASSUME Tipo, Lugar, Cuenta, fuera \subseteq fuera', NEW p \in Procesos, CerrarDeVarios(p)
  PROVE  Cuenta'
  <1> SUFFICES ASSUME Limpio' PROVE UnaEntrada' /\ Contados'
    BY DEF Cuenta
  <1> DEFINE g == exec.g
             e == Soltada(globales[g], archivos_abiertos[p])
             cola == globales[g].colabloqueado
             n == Len(globales)
             resto == RemoveFirst(lista_archivos_abiertos, g)
             medio == [globales EXCEPT ![g] = e]
             nueva == Entrada("R", e.contador + 1)
  <1>1. UnaEntrada /\ Contados
    BY DEF Cuenta, Limpio
  <1>2. EnPaso(p, "cerrar") /\ PunteroRoto(exec.g) = "no"
    BY DEF CerrarDeVarios
  <1>3. DeCierre(p, g, e, cola, n, resto)
    BY DEF DeCierre
  <1>4. /\ g \in DOMAIN globales /\ n \in Nat /\ globales \in Seq(Entradas)
        /\ n = Len(globales) /\ exec.proceso = p /\ exec.paso = "cerrar" /\ e \in Entradas
        /\ g = exec.g
    BY <1>2, CerrarEntradaTipo
  <1>5. /\ e.lock # "N" /\ globales' = Append(medio, nueva) /\ Suelta(p, <<>>)
        /\ lista_archivos_abiertos' = Append(resto, Len(globales'))
    BY DEF CerrarDeVarios
  <1> HIDE DEF g, e, cola, n, resto
  <1>6. /\ resto = <<>> /\ e.contador \in Int /\ e.contador >= globales[g].contador - 1
    BY <1>1, <1>2, <1>3, <1>5, CerrarSuelta
  <1>7. /\ nueva.lock = "R" /\ nueva.contador = e.contador + 1 /\ nueva.liberada = FALSE
        /\ nueva \in Entradas
    BY <1>6, EntradaTipo DEF Entrada, Modos
  <1> HIDE DEF nueva
  <1>8. medio \in Seq(Entradas) /\ Len(medio) = n
    BY <1>4
  <1> HIDE DEF medio
  <1>9. Len(globales') = n + 1 /\ globales'[n + 1] = nueva
    BY <1>4, <1>5, <1>7, <1>8
  <1>10. lista_archivos_abiertos' = <<n + 1>>
    BY <1>5, <1>6, <1>9
  <1>11. /\ IsFiniteSet(Cuentan \ {p})
         /\ Cardinality(Cuentan \ {p}) = Cardinality(Cuentan) - 1
         /\ Cardinality(Cuentan) <= globales[g].contador /\ Cardinality(Cuentan) \in Nat
         /\ globales[g].contador \in Int
         /\ globales[g].lock = "W" => globales[g].contador <= 1
         /\ \A q \in Cuentan : abierto[q] = "W" => globales[g].lock = "W"
         /\ Cardinality(Cuentan) <= 1 => Cuentan = {p}
    BY <1>1, <1>2, <1>4, CerrarHalla
  <1>12. /\ \A q \in Procesos :
              /\ archivos_abiertos'[q] <=> q # p /\ archivos_abiertos[q]
              /\ abierto'[q] = IF q = p THEN "no" ELSE abierto[q]
              /\ estado'[q] = estado[q]
         /\ exec'.paso = "seguir" /\ salida' = salida
    <2>1. Len(globales') \in Nat /\ Len(globales) <= Len(globales')
      BY <1>4, <1>9
    <2> QED BY <1>4, <1>5, <2>1, SueltaSola
  <1>13. Cuentan' = Cuentan \ {p}
    BY <1>12 DEF Cuentan
  <1>14. \A q \in Cuentan \ {p} : abierto'[q] # "W"
    <2> SUFFICES ASSUME NEW q \in Cuentan \ {p}, abierto'[q] = "W" PROVE FALSE
      OBVIOUS
    <2>1. q \in Procesos /\ abierto[q] = "W"
      BY <1>12 DEF Cuentan
    <2>2. Cardinality(Cuentan) <= 1
      BY <1>11, <2>1
    <2> QED BY <1>11, <2>2
  <1>15. Cardinality(Cuentan \ {p}) <= e.contador + 1
    BY <1>6, <1>11
  <1> QED BY <1>7, <1>9, <1>10, <1>11, <1>12, <1>13, <1>14, <1>15, UnaSolaSigue

\* The last one leaves: the entry leaves the table with it.
LEMMA CerrarFinCuenta ==
  ASSUME Tipo, Lugar, Cuenta, fuera \subseteq fuera', NEW p \in Procesos, CerrarFin(p)
  PROVE  Cuenta'
  <1> SUFFICES ASSUME Limpio' PROVE UnaEntrada' /\ Contados'
    BY DEF Cuenta
  <1> DEFINE g == exec.g
             e == Soltada(globales[g], archivos_abiertos[p])
             cola == globales[g].colabloqueado
             n == Len(globales)
             resto == RemoveFirst(lista_archivos_abiertos, g)
  <1>1. UnaEntrada /\ Contados
    BY DEF Cuenta, Limpio
  <1>2. EnPaso(p, "cerrar") /\ PunteroRoto(exec.g) = "no"
    BY DEF CerrarFin
  <1>3. DeCierre(p, g, e, cola, n, resto)
    BY DEF DeCierre
  <1>4. /\ g \in DOMAIN globales /\ n \in Nat /\ globales \in Seq(Entradas)
        /\ n = Len(globales) /\ exec.proceso = p /\ exec.paso = "cerrar" /\ e \in Entradas
    BY <1>2, CerrarEntradaTipo
  <1>5. /\ IF e.lock = "N" THEN e.colabloqueado = <<>> ELSE e.contador <= 0
        /\ globales' = [globales EXCEPT ![g] = e] /\ Suelta(p, <<>>)
        /\ lista_archivos_abiertos' = resto
    BY DEF CerrarFin
  <1> HIDE DEF g, e, cola, n, resto
  <1>6. resto = <<>> /\ Cuentan = {p}
    <2>1. /\ resto = <<>> /\ (e.lock = "N" => Cuentan = {p})
          /\ (e.lock # "N" => e.contador >= 1) /\ e.contador \in Int
      BY <1>1, <1>2, <1>3, CerrarSuelta
    <2> QED BY <1>5, <2>1
  <1>7. Len(globales') = n
    BY <1>4, <1>5
  <1>8. /\ \A q \in Procesos :
             /\ abierto'[q] = IF q = p THEN "no" ELSE abierto[q]
             /\ estado'[q] = estado[q]
             /\ archivos_abiertos'[q] <=> q # p /\ archivos_abiertos[q]
        /\ exec'.paso = "seguir" /\ salida' = salida
    <2>1. Len(globales') \in Nat /\ Len(globales) <= Len(globales')
      BY <1>4, <1>7
    <2> QED BY <1>4, <1>5, <2>1, SueltaSola
  <1>9. Cuentan' = {}
    BY <1>6, <1>8 DEF Cuentan
  <1>10. lista_archivos_abiertos' = <<>>
    BY <1>5, <1>6
  <1>11. UnaEntrada'
    BY <1>8, <1>10 DEF UnaEntrada
  <1> QED BY <1>9, <1>10, <1>11, FS_EmptySet DEF Contados

\* exit_pcb takes one off the counter, and with it the process out of those that count.
LEMMA DestruirCuenta ==
  ASSUME Tipo, Lugar, Cuenta, fuera \subseteq fuera', NEW p \in Procesos, Destruir(p)
  PROVE  Cuenta'
  <1> DEFINE g == buscarArchivoGlobal
  <1>1. /\ salida.proceso = Nadie /\ exec' = exec /\ p # Nadie
        /\ UNCHANGED lista_archivos_abiertos /\ estado[p] = "exit"
    BY ColaExitMengua, NadieNoEsProceso DEF Destruir, SalidaLibre
  <1>2. CASE ~archivos_abiertos[p] /\ Muere(p) /\ UNCHANGED globales
    <2>1. /\ \A q \in Procesos : q # p =>
               /\ estado'[q] = estado[q] /\ abierto'[q] = abierto[q]
               /\ archivos_abiertos'[q] = archivos_abiertos[q]
          /\ abierto'[p] = "no"
      BY <1>2 DEF Muere, Tipo, TipoProcesos
    <2>2. \A q \in Procesos : salida.proceso # q
      BY <1>1, NadieNoEsProceso
    <2>3. Cuentan' \subseteq Cuentan /\ \A q \in Cuentan' : abierto'[q] = abierto[q]
      BY <2>1, <2>2 DEF Cuentan
    <2> QED BY <1>1, <1>2, <2>3, MismaTabla
  <1>3. CASE UNCHANGED <<globales, archivos_abiertos, abierto, estado, salida>>
    <2>1. Cuentan' = Cuentan
      BY <1>3 DEF Cuentan
    <2> QED BY <1>1, <1>3, <2>1, MismaTabla
  <1>4. CASE /\ archivos_abiertos[p] /\ g # NULL
             /\ globales' = [globales EXCEPT ![g].contador = @ - 1]
             /\ salida' = [proceso |-> p, paso |-> "probar", g |-> g]
             /\ abierto' = IF globales[g].contador > 1 THEN [abierto EXCEPT ![p] = "no"]
                           ELSE abierto
             /\ UNCHANGED <<archivos_abiertos, estado>>
    <2> SUFFICES ASSUME Limpio' PROVE UnaEntrada' /\ Contados'
      BY DEF Cuenta
    <2>1. UnaEntrada /\ Contados
      BY DEF Cuenta, Limpio
    <2>2. lista_archivos_abiertos # <<>>
      BY <1>4, BuscarTipo DEF Tipo
    <2>3. /\ lista_archivos_abiertos = <<g>> /\ g \in DOMAIN globales
          /\ ~globales[g].liberada /\ globales[g].lock \in {"R", "W"}
          /\ Cardinality(Cuentan) <= globales[g].contador
          /\ Cardinality(Cuentan) \in Nat
          /\ globales[g].lock = "W" => globales[g].contador <= 1
          /\ \A q \in Cuentan : abierto[q] = "W" => globales[g].lock = "W"
      BY <2>1, <2>2, UnaSola
    <2>4. globales[g] \in Entradas /\ globales \in Seq(Entradas)
      BY <2>3, EnColaTipo DEF Tipo, TipoTabla
    <2>5. salida'.proceso = p
      BY <1>4
    <2> HIDE DEF g
    <2> DEFINE e == [globales[g] EXCEPT !.contador = @ - 1]
    <2>6. /\ e \in Entradas /\ e.lock = globales[g].lock /\ e.liberada = globales[g].liberada
          /\ e.contador = globales[g].contador - 1 /\ globales[g].contador \in Int
      <3>1. globales[g] \in Entradas
        BY <2>4
      <3> QED BY <3>1 DEF Entradas
    <2>7. globales' = [globales EXCEPT ![g] = e]
      BY <1>4
    <2> HIDE DEF e
    <2>8. globales'[g] = e /\ \A h \in DOMAIN globales : h # g => globales'[h] = globales[h]
      BY <2>3, <2>4, <2>6, <2>7
    <2>9. p \in Cuentan
      <3>1. abierto[p] # "no"
        BY <1>1, <1>4 DEF Lugar, Propias
      <3> QED BY <1>1, <1>4, <3>1 DEF Cuentan
    <2>10. Cuentan' = Cuentan \ {p}
      <3>1. \A q \in Procesos : q # p => abierto'[q] = abierto[q]
        BY <1>4 DEF Tipo, TipoProcesos
      <3>2. \A q \in Procesos : salida.proceso # q
        BY <1>1, NadieNoEsProceso
      <3> QED BY <1>1, <1>4, <2>5, <3>1, <3>2 DEF Cuentan
    <2>11. IsFiniteSet(Cuentan \ {p}) /\ Cardinality(Cuentan \ {p}) = Cardinality(Cuentan) - 1
      BY <2>1, <2>9, FS_RemoveElement DEF Contados
    <2>12. /\ Cardinality(Cuentan \ {p}) <= globales'[g].contador
           /\ globales'[g].lock = "W" => globales'[g].contador <= 1
      BY <2>3, <2>6, <2>8, <2>11
    <2>13. \A q \in Cuentan \ {p} : abierto'[q] = "W" => globales'[g].lock = "W"
      <3>1. \A q \in Cuentan \ {p} : abierto'[q] = abierto[q]
        BY <1>4 DEF Cuentan, Tipo, TipoProcesos
      <3> QED BY <2>3, <2>6, <2>8, <3>1
    <2>14. exec.paso \in {"elegir", "seguir"} \/
             (exec.paso \in {"abrir", "cerrar"} /\ exec.g # NULL
              /\ (~globales[exec.g].liberada => exec.g = g) /\ exec.g \in DOMAIN globales)
      <3>1. exec \in DeExec(Len(globales)) /\ Len(globales) \in Nat
            /\ DOMAIN globales = 1 .. Len(globales)
        BY LenTipo DEF Tipo, TipoHilos
      <3>2. exec.paso \in {"elegir", "seguir", "abrir", "abrir_fs", "cerrar"}
            /\ exec.g \in 0 .. Len(globales)
        BY <3>1 DEF DeExec
      <3>3. exec.paso # "abrir_fs"
        BY <2>1, <2>3 DEF UnaEntrada
      <3>4. exec.paso \in {"abrir", "cerrar"} => exec.g # NULL
        BY <2>1 DEF UnaEntrada, Lugar, LugarExec
      <3>5. exec.g # NULL => exec.g \in DOMAIN globales
        BY <3>1, <3>2 DEF NULL
      <3>6. \A h : <<h>> = <<g>> => h = g
        OBVIOUS
      <3>7. exec.paso \in {"abrir", "cerrar"} /\ ~globales[exec.g].liberada => exec.g = g
        BY <2>1, <2>3, <3>4, <3>6 DEF UnaEntrada
      <3> QED BY <3>2, <3>3, <3>4, <3>5, <3>7
    <2>15. \/ exec'.paso \in {"elegir", "seguir"}
           \/ exec'.paso \in {"abrir", "cerrar"} /\ exec'.g # NULL
              /\ (~globales'[exec'.g].liberada => exec'.g = g)
      BY <1>1, <2>6, <2>8, <2>14
    <2>16. ~globales'[g].liberada /\ globales'[g].lock \in {"R", "W"}
      BY <2>3, <2>6, <2>8
    <2> QED BY <1>1, <2>3, <2>10, <2>11, <2>12, <2>13, <2>15, <2>16, UnaSolaSigue
  <1> QED BY <1>2, <1>3, <1>4 DEF Destruir

\* The entry is freed when the counter says that nobody has it, and then nobody does.
LEMMA LiberarCuenta ==
  ASSUME Tipo, Lugar, Cuenta, fuera \subseteq fuera', NEW p \in Procesos, LiberarEntrada(p)
  PROVE  Cuenta'
  <1> DEFINE g == salida.g
  <1>1. /\ salida.proceso = p /\ Muere(p) /\ exec' = exec
        /\ \/ /\ globales[g].contador <= 0
              /\ lista_archivos_abiertos' = RemoveFirst(lista_archivos_abiertos, g)
              /\ globales' = [globales EXCEPT ![g].liberada = TRUE]
           \/ UNCHANGED <<lista_archivos_abiertos, globales>>
    BY DEF LiberarEntrada
  <1>2. p # Nadie /\ estado[p] = "exit" /\ g # NULL
    BY <1>1, NadieNoEsProceso DEF Lugar, LugarSalida
  <1>3. /\ \A q \in Procesos : q # p =>
             /\ estado'[q] = estado[q] /\ abierto'[q] = abierto[q]
             /\ archivos_abiertos'[q] = archivos_abiertos[q]
        /\ abierto'[p] = "no" /\ salida'.proceso = Nadie
    BY <1>1 DEF Muere, SalidaLibre, Tipo, TipoProcesos
  <1>4. Cuentan' = Cuentan /\ \A q \in Cuentan' : abierto'[q] = abierto[q]
    <2>1. \A q \in Procesos : q # p => q # salida.proceso
      BY <1>1
    <2>2. p \notin Cuentan /\ p \notin Cuentan'
      BY <1>1, <1>2, <1>3 DEF Cuentan
    <2>3. \A q \in Procesos : q # Nadie
      BY NadieNoEsProceso
    <2> QED BY <1>3, <2>1, <2>2, <2>3 DEF Cuentan
  <1>5. CASE UNCHANGED <<lista_archivos_abiertos, globales>>
    BY <1>1, <1>4, <1>5, MismaTabla
  <1>6. CASE /\ globales[g].contador <= 0
             /\ lista_archivos_abiertos' = RemoveFirst(lista_archivos_abiertos, g)
             /\ globales' = [globales EXCEPT ![g].liberada = TRUE]
    <2> SUFFICES ASSUME Limpio' PROVE UnaEntrada' /\ Contados'
      BY DEF Cuenta
    <2>1. UnaEntrada /\ Contados
      BY DEF Cuenta, Limpio
    <2>2. g \in DOMAIN globales /\ globales[g] \in Entradas /\ globales \in Seq(Entradas)
      <3>1. g \in 0 .. Len(globales)
        BY DEF Tipo, TipoHilos, DeSalida
      <3>2. g \in DOMAIN globales
        BY <1>2, <3>1, LenTipo DEF Tipo, NULL
      <3> QED BY <3>2, EnColaTipo DEF Tipo, TipoTabla
    <2> HIDE DEF g
    <2> DEFINE e == [globales[g] EXCEPT !.liberada = TRUE]
    <2>3. /\ e \in Entradas /\ e.lock = globales[g].lock /\ e.liberada
          /\ e.contador = globales[g].contador /\ globales[g].contador \in Int
      <3>1. globales[g] \in Entradas
        BY <2>2
      <3> QED BY <3>1 DEF Entradas
    <2>4. globales' = [globales EXCEPT ![g] = e]
      BY <1>6
    <2> HIDE DEF e
    <2>5. globales'[g] = e /\ \A h \in DOMAIN globales : h # g => globales'[h] = globales[h]
      BY <2>2, <2>3, <2>4
    <2>6. exec \in DeExec(Len(globales)) /\ DOMAIN globales = 1 .. Len(globales)
          /\ Len(globales) \in Nat
      BY LenTipo DEF Tipo, TipoHilos
    <2>7. exec.g # NULL => exec.g \in DOMAIN globales
      BY <2>6 DEF DeExec, NULL
    <2>8. exec.g # NULL /\ ~globales'[exec.g].liberada => exec.g # g /\ ~globales[exec.g].liberada
      BY <2>3, <2>5, <2>7
    <2>9. CASE Cuentan = {} /\ lista_archivos_abiertos \in {<<>>, <<g>>}
      <3>1. lista_archivos_abiertos' = <<>>
        BY <1>6, <2>9, RemoveFirstUna
      <3>2. \A h : h # g => <<h>> # <<g>> /\ <<h>> # <<>>
        OBVIOUS
      <3>3. ~(exec.paso \in {"abrir", "cerrar"} /\ exec.g # NULL /\ ~globales'[exec.g].liberada)
        BY <2>1, <2>8, <2>9, <3>2 DEF UnaEntrada
      <3>4. Len(lista_archivos_abiertos') <= 1
        BY <3>1
      <3>5. UnaEntrada'
        BY <1>1, <2>1, <3>1, <3>3, <3>4 DEF UnaEntrada
      <3>6. Contados'
        BY <1>4, <2>9, <3>1, FS_EmptySet DEF Contados
      <3> QED BY <3>5, <3>6
    <2>10. CASE \E h \in DOMAIN globales :
                  /\ lista_archivos_abiertos = <<h>> /\ h # g
                  /\ ~globales[h].liberada /\ globales[h].lock \in {"R", "W"}
                  /\ Cardinality(Cuentan) <= globales[h].contador
                  /\ globales[h].lock = "W" => globales[h].contador <= 1
                  /\ \A q \in Cuentan : abierto[q] = "W" => globales[h].lock = "W"
      <3>1. PICK h \in DOMAIN globales :
                  /\ lista_archivos_abiertos = <<h>> /\ h # g
                  /\ ~globales[h].liberada /\ globales[h].lock \in {"R", "W"}
                  /\ Cardinality(Cuentan) <= globales[h].contador
                  /\ globales[h].lock = "W" => globales[h].contador <= 1
                  /\ \A q \in Cuentan : abierto[q] = "W" => globales[h].lock = "W"
        BY <2>10
      <3>2. lista_archivos_abiertos' = <<h>> /\ globales'[h] = globales[h]
        BY <1>6, <2>5, <3>1, RemoveFirstUna
      <3>3. EnTabla' = globales[h] /\ Len(lista_archivos_abiertos') <= 1
            /\ lista_archivos_abiertos' # <<>>
        BY <3>2 DEF EnTabla
      <3>4. UnaEntrada'
        BY <1>1, <2>1, <2>8, <3>1, <3>2, <3>3 DEF UnaEntrada
      <3>5. Contados'
        BY <1>4, <2>1, <3>1, <3>3 DEF Contados
      <3> QED BY <3>4, <3>5
    <2>11. CASE lista_archivos_abiertos = <<g>> /\ Cardinality(Cuentan) <= globales[g].contador
                /\ Cardinality(Cuentan) \in Nat
      <3>1. Cardinality(Cuentan) = 0
        BY <1>6, <2>3, <2>11
      <3>2. Cuentan = {}
        BY <2>1, <3>1, FS_EmptySet DEF Contados
      <3> QED BY <2>9, <2>11, <3>2
    <2> QED BY <2>1, <2>9, <2>10, <2>11, UnaSola
  <1> QED BY <1>1, <1>5, <1>6

LEMMA PasoCuenta ==
  ASSUME Tipo, Lugar, Cuenta, [Next]_vars
  PROVE  Cuenta'
  <1>0. fuera \subseteq fuera'
    BY FueraCrece
  <1>1. CASE UNCHANGED vars
    <2>1. Cuentan' = Cuentan
      BY <1>1 DEF vars, Cuentan
    <2> QED BY <1>0, <1>1, <2>1, MismaTabla DEF vars
  <1>2. ASSUME NEW p \in Procesos, Ejecutar(p) PROVE Cuenta'
    <2>1. CASE Elegir(p) \/ CerrarRoto(p) \/ Desalojar(p) \/ Terminar(p)
               \/ \E bloquea \in BOOLEAN : Usar(p, bloquea)
      BY <1>0, <2>1, ElegirCuenta
    <2>2. CASE (\E modo \in Modos : Abrir(p, modo)) \/ Cerrar(p)
      BY <2>2, AbrirCuenta DEF Modos
    <2>3. CASE AbrirNuevo(p) \/ AbrirCompartido(p)
      BY <1>0, <2>3, AbrirNuevoCuenta, AbrirCompartidoCuenta
    <2>4. CASE Escribir(p)
      BY <1>0, <2>4, EscribirCuenta
    <2>5. CASE CerrarEntrega(p) \/ CerrarDeVarios(p) \/ CerrarFin(p)
      BY <1>0, <2>5, CerrarEntregaCuenta, CerrarDeVariosCuenta, CerrarFinCuenta
    <2> QED BY <1>2, <2>1, <2>2, <2>3, <2>4, <2>5 DEF Ejecutar
  <1>3. ASSUME NEW p \in Procesos, RecibirOpFS(p) \/ Salida(p) PROVE Cuenta'
    BY <1>0, <1>3, ElegirCuenta, DestruirCuenta, LiberarCuenta DEF Salida
  <1> QED BY <1>1, <1>2, <1>3 DEF Next

LEMMA InicioCuenta == Init => Cuenta
  <1> SUFFICES ASSUME Init PROVE UnaEntrada /\ Contados
    BY DEF Cuenta
  <1>1. lista_archivos_abiertos = <<>> /\ Cuentan = {} /\ exec.paso = "elegir"
    BY DEF Init, Cuentan, EjecutorLibre
  <1>2. Len(lista_archivos_abiertos) <= 1
    BY <1>1
  <1> QED BY <1>1, <1>2, FS_EmptySet DEF UnaEntrada, Contados

LEMMA SiempreCuenta == Spec => [](Tipo /\ Lugar /\ Cuenta)
  <1>1. Init => Tipo /\ Lugar /\ Cuenta
    BY InicioLugar, InicioCuenta
  <1>2. Tipo /\ Lugar /\ Cuenta /\ [Next]_vars => (Tipo /\ Lugar /\ Cuenta)'
    BY PasoLugar, PasoCuenta
  <1> QED BY <1>1, <1>2, PTL DEF Spec

\* Whoever has the file to write shares it with no process that still runs, unless kf_close
\* let a writer in with readers behind it, left two entries of the file, or a reader wrote.
THEOREM UnEscritorSolo == Spec => []EscritorSolo
  <1>1. Tipo /\ Lugar /\ Cuenta => EscritorSolo
    <2> SUFFICES ASSUME Tipo, Lugar, Cuenta, Limpio,
                        NEW p \in Procesos, NEW q \in Procesos, p # q,
                        abierto[p] # "no", estado[p] # "exit",
                        abierto[q] # "no", estado[q] # "exit"
                 PROVE  abierto[p] = "R"
      BY DEF EscritorSolo, Limpio
    <2>1. UnaEntrada /\ Contados
      BY DEF Cuenta
    <2>2. p \in Cuentan /\ q \in Cuentan
      BY DEF Cuentan
    <2>3. PICK g \in DOMAIN globales :
            /\ Cardinality(Cuentan) <= globales[g].contador /\ Cardinality(Cuentan) \in Nat
            /\ globales[g].lock = "W" => globales[g].contador <= 1
            /\ \A r \in Cuentan : abierto[r] = "W" => globales[g].lock = "W"
      BY <2>1, <2>2, UnaSola
    <2>4. globales[g].contador \in Int
      BY EnColaTipo DEF Tipo, Entradas
    <2>5. Cardinality({p, q}) = 2 /\ {p, q} \subseteq Cuentan
      <3>1. IsFiniteSet({p}) /\ Cardinality({p}) = 1
        BY FS_Singleton
      <3>2. Cardinality({p} \cup {q}) = 2
        <4> DEFINE S == {p}
        <4>1. IsFiniteSet(S) /\ Cardinality(S) = 1 /\ q \notin S
          BY <3>1
        <4> HIDE DEF S
        <4>2. Cardinality(S \cup {q}) = Cardinality(S) + 1
          BY <4>1, FS_AddElement
        <4> QED BY <4>1, <4>2 DEF S
      <3>3. {p} \cup {q} = {p, q}
        OBVIOUS
      <3> QED BY <2>2, <3>2, <3>3
    <2>6. Cardinality(Cuentan) >= 2
      <3>1. IsFiniteSet(Cuentan)
        BY <2>1 DEF Contados
      <3>2. Cardinality({p, q}) <= Cardinality(Cuentan)
        BY <2>5, <3>1, FS_Subset
      <3> QED BY <2>3, <2>5, <3>2
    <2>7. abierto[p] # "W"
      BY <2>2, <2>3, <2>4, <2>6
    <2> QED BY <2>7 DEF Tipo, TipoProcesos, Modos
  <1> QED BY <1>1, SiempreCuenta, PTL

-----------------------------------------------------------------------------
(* What brings the kernel down *)

\* Nothing has happened yet that may bring it down.
SinFallo ==
  fuera \cap {"lector_sumado", "muere_abierto", "lector_con_escritor",
              "escritor_espera_detras"} = {}

\* The step frees no entry.
SinLiberar ==
  \A h \in DOMAIN globales' :
    globales'[h].liberada => h \in DOMAIN globales /\ globales[h].liberada

\* What a step must not do without telling it in fuera.
LEMMA MarcasSigue ==
  ASSUME Marcas, fuera \subseteq fuera',
         \A q \in Procesos : abierto'[q] # "no" /\ ~archivos_abiertos'[q] =>
           (abierto[q] # "no" /\ ~archivos_abiertos[q]) \/ "lector_sumado" \in fuera',
         \A q \in Procesos : archivos_abiertos'[q] /\ estado'[q] = "exit" =>
           (archivos_abiertos[q] /\ estado[q] = "exit") \/ "muere_abierto" \in fuera',
         SinLiberar \/ "muere_abierto" \in fuera',
         "lector_escribe" \in fuera' => "lector_escribe" \in fuera \/ "muere_abierto" \in fuera',
         salida'.proceso # Nadie => salida.proceso # Nadie \/ "muere_abierto" \in fuera'
  PROVE  Marcas'
  BY DEF Marcas, SinLiberar

\* The steps that leave the table alone.
LEMMA ElegirMarcas ==
  ASSUME Tipo, Lugar, Marcas, fuera \subseteq fuera', NEW p \in Procesos,
         \/ Elegir(p) \/ Desalojar(p) \/ RecibirOpFS(p) \/ CerrarRoto(p) \/ Cerrar(p)
         \/ \E modo \in Modos : Abrir(p, modo)
         \/ \E bloquea \in BOOLEAN : Usar(p, bloquea)
  PROVE  Marcas'
  <1>1. /\ UNCHANGED <<globales, archivos_abiertos, abierto>>
        /\ salida' = salida /\ fuera' = fuera
    BY DEF Elegir, Desalojar, RecibirOpFS, CerrarRoto, Cerrar, Abrir, Usar, tablaVars, salidaVars
  <1>2. \A q \in Procesos : estado'[q] = "exit" => estado[q] = "exit"
    <2>1. CASE Elegir(p) \/ RecibirOpFS(p)
      BY <2>1 DEF Elegir, RecibirOpFS, Tipo, TipoProcesos
    <2>2. CASE CerrarRoto(p) \/ Cerrar(p) \/ \E modo \in Modos : Abrir(p, modo)
      BY <2>2 DEF CerrarRoto, Cerrar, Abrir
    <2>3. CASE Desalojar(p) \/ \E bloquea \in BOOLEAN : Usar(p, bloquea)
      BY <2>3 DEF Desalojar, Usar, Deja, Tipo, TipoProcesos
    <2> QED BY <2>1, <2>2, <2>3
  <1>3. SinLiberar
    BY <1>1 DEF SinLiberar
  <1> QED BY <1>1, <1>2, <1>3, MarcasSigue

\* A process ends.
LEMMA TerminarMarcas ==
  ASSUME Tipo, Lugar, Marcas, fuera \subseteq fuera', NEW p \in Procesos,
         Terminar(p) \/ Escribir(p)
  PROVE  Marcas'
  <1>1. /\ exec.proceso = p /\ estado[p] = "exec" /\ salida.proceso # p
        /\ UNCHANGED <<archivos_abiertos, abierto>> /\ salida' = salida
    BY EnManos DEF Terminar, Escribir, Llamada, EnTurno, tablaVars
  <1>2. archivos_abiertos[p] => abierto[p] # "no"
    BY <1>1 DEF Lugar, Propias
  <1>3. CASE "muere_abierto" \in fuera'
    BY <1>1, <1>3, MarcasSigue
  <1>4. CASE "muere_abierto" \notin fuera'
    <2>1. globales' = globales /\ "lector_escribe" \in fuera' => "lector_escribe" \in fuera
      BY <1>4 DEF Terminar, Escribir, MuereAbierto, tablaVars
    <2>2. \A q \in Procesos : q # p => estado'[q] = estado[q]
      BY DEF Terminar, Escribir, Deja, Tipo, TipoProcesos
    <2>3. archivos_abiertos[p] => estado'[p] # "exit"
      <3>1. CASE Terminar(p)
        BY <1>2, <1>4, <3>1 DEF Terminar, MuereAbierto
      <3>2. CASE Escribir(p)
        BY <1>1, <1>4, <3>2 DEF Escribir, MuereAbierto, Deja, Tipo, TipoProcesos
      <3> QED BY <3>1, <3>2
    <2>4. SinLiberar
      BY <1>4 DEF SinLiberar, Terminar, Escribir, MuereAbierto, tablaVars
    <2>5. "lector_escribe" \in fuera' => "lector_escribe" \in fuera
      BY <1>4 DEF Terminar, Escribir, MuereAbierto
    <2> QED BY <1>1, <2>2, <2>3, <2>4, <2>5, MarcasSigue
  <1> QED BY <1>3, <1>4

\* kf_open.
LEMMA AbrirMarcas ==
  ASSUME Tipo, Lugar, Marcas, fuera \subseteq fuera', NEW p \in Procesos,
         AbrirNuevo(p) \/ AbrirCompartido(p)
  PROVE  Marcas'
  <1>1. /\ exec.proceso = p /\ estado[p] = "exec" /\ salida' = salida
        /\ globales \in Seq(Entradas)
    BY EnManos DEF AbrirNuevo, AbrirCompartido, EnPaso, salidaVars, Tipo, TipoTabla
  <1>2. CASE AbrirNuevo(p)
    <2>1. \A q \in Procesos : abierto'[q] # "no" /\ ~archivos_abiertos'[q] =>
            abierto[q] # "no" /\ ~archivos_abiertos[q]
      BY <1>2 DEF AbrirNuevo, ConEntrada, Tipo, TipoProcesos
    <2>2. \A q \in Procesos : archivos_abiertos'[q] /\ estado'[q] = "exit" =>
            archivos_abiertos[q] /\ estado[q] = "exit"
      BY <1>1, <1>2 DEF AbrirNuevo, ConEntrada
    <2>3. SinLiberar
      <3> DEFINE e == Entrada(exec.modo, 1)
      <3>1. globales' = Append(globales, e) /\ ~e.liberada
        BY <1>2 DEF AbrirNuevo, Entrada
      <3> HIDE DEF e
      <3> QED BY <1>1, <3>1 DEF SinLiberar
    <2>4. fuera' = fuera
      BY <1>2 DEF AbrirNuevo
    <2> QED BY <1>1, <2>1, <2>2, <2>3, <2>4, MarcasSigue
  <1>3. CASE AbrirCompartido(p)
    <2>1. \A q \in Procesos : abierto'[q] # "no" /\ ~archivos_abiertos'[q] =>
            (abierto[q] # "no" /\ ~archivos_abiertos[q]) \/ "lector_sumado" \in fuera'
      BY <1>3 DEF AbrirCompartido
    <2>2. archivos_abiertos' = archivos_abiertos
          /\ \A q \in Procesos : estado'[q] = "exit" => estado[q] = "exit"
      BY <1>3 DEF AbrirCompartido, Deja, Tipo, TipoProcesos
    <2>3. SinLiberar
      <3> DEFINE g == exec.g
      <3>1. CASE globales' = globales
        BY <3>1 DEF SinLiberar
      <3>2. CASE globales' = [globales EXCEPT ![g].colabloqueado =
                   Append(@, [proceso |-> p, modo |-> exec.modo])]
        <4>1. \A h \in DOMAIN globales' :
                h \in DOMAIN globales /\ globales'[h].liberada = globales[h].liberada
          BY <1>1, <3>2 DEF Entradas
        <4> QED BY <4>1 DEF SinLiberar
      <3>3. CASE globales' = [globales EXCEPT ![g].contador = @ + 1]
        <4>1. \A h \in DOMAIN globales' :
                h \in DOMAIN globales /\ globales'[h].liberada = globales[h].liberada
          BY <1>1, <3>3 DEF Entradas
        <4> QED BY <4>1 DEF SinLiberar
      <3> QED BY <1>3, <3>1, <3>2, <3>3 DEF AbrirCompartido
    <2>4. "lector_escribe" \in fuera' => "lector_escribe" \in fuera
      BY <1>3 DEF AbrirCompartido
    <2> QED BY <1>1, <2>1, <2>2, <2>3, <2>4, MarcasSigue
  <1> QED BY <1>2, <1>3

\* kf_close.
LEMMA CerrarMarcas ==
  ASSUME Tipo, Lugar, Marcas, fuera \subseteq fuera', NEW p \in Procesos,
         CerrarEntrega(p) \/ CerrarDeVarios(p) \/ CerrarFin(p)
  PROVE  Marcas'
  <1> DEFINE g == exec.g
             e == Soltada(globales[g], archivos_abiertos[p])
             cola == globales[g].colabloqueado
             n == Len(globales)
             resto == RemoveFirst(lista_archivos_abiertos, g)
  <1>1. /\ g \in DOMAIN globales /\ e \in Entradas /\ e.liberada = globales[g].liberada
        /\ globales \in Seq(Entradas) /\ n \in Nat /\ DOMAIN globales = 1 .. n
        /\ estado[p] = "exec"
    <2>1. EnPaso(p, "cerrar") /\ PunteroRoto(exec.g) = "no"
      BY DEF CerrarEntrega, CerrarDeVarios, CerrarFin
    <2> QED BY <2>1, CerrarEntradaTipo, EnManos
  <1>2. DeCierre(p, g, e, cola, n, resto)
    BY DEF DeCierre
  <1>3. PICK abren : Suelta(p, abren)
    <2>1. CASE CerrarEntrega(p)
      <3> HIDE DEF g, e, cola, n, resto
      <3> QED BY <1>2, <2>1, EntregaEs
    <2>2. CASE CerrarDeVarios(p) \/ CerrarFin(p)
      <3>1. Suelta(p, <<>>)
        BY <2>2 DEF CerrarDeVarios, CerrarFin
      <3> QED BY <3>1
    <2> QED BY <2>1, <2>2
  <1>4. \A q \in Procesos :
          /\ archivos_abiertos'[q] <=> q # p /\ (archivos_abiertos[q] \/ q \in DOMAIN abren)
          /\ abierto'[q] # "no" => abierto[q] # "no" \/ q \in DOMAIN abren
          /\ estado'[q] = IF q \in DOMAIN abren THEN "ready" ELSE estado[q]
          /\ q = p => abierto'[q] = "no"
    <2> DEFINE A == DOMAIN abren
    <2>1. \A q \in Procesos :
            archivos_abiertos'[q] <=> q # p /\ (archivos_abiertos[q] \/ q \in A)
      BY <1>3 DEF Suelta, ConEntrada, Tipo, TipoProcesos
    <2>2. \A q \in Procesos :
            abierto'[q] = IF q = p THEN "no" ELSE IF q \in A THEN abren[q] ELSE abierto[q]
      BY <1>3 DEF Suelta
    <2>3. \A q \in Procesos : estado'[q] = IF q \in A THEN "ready" ELSE estado[q]
      BY <1>3 DEF Suelta
    <2> HIDE DEF A
    <2>4. \A q \in Procesos : abierto'[q] # "no" => abierto[q] # "no" \/ q \in A
      BY <2>2
    <2>5. \A q \in Procesos : q = p => abierto'[q] = "no"
      BY <2>2
    <2> QED BY <2>1, <2>3, <2>4, <2>5 DEF A
  <1>5. salida' = salida
    BY <1>3 DEF Suelta, salidaVars
  <1>6. SinLiberar
    <2>1. CASE CerrarEntrega(p)
      <3> HIDE DEF g, e, cola, n, resto
      <3>1. /\ Len(globales') = n + 1 /\ globales' \in Seq(Entradas)
            /\ \A h \in 1 .. n : globales'[h].liberada = globales[h].liberada
            /\ ~globales'[n + 1].liberada
        BY <1>2, <2>1, EntregaEs
      <3>2. \A h \in DOMAIN globales' : h \in 1 .. n \/ h = n + 1
        BY <1>1, <3>1
      <3> QED BY <1>1, <3>1, <3>2 DEF SinLiberar
    <2>2. CASE CerrarDeVarios(p)
      <3> DEFINE nueva == Entrada("R", e.contador + 1)
                 medio == [globales EXCEPT ![g] = e]
      <3>1. globales' = Append(medio, nueva)
        BY <2>2 DEF CerrarDeVarios
      <3>2. ~nueva.liberada
        BY DEF Entrada
      <3> HIDE DEF nueva, e, g
      <3>3. /\ medio \in Seq(Entradas) /\ Len(medio) = n
            /\ \A h \in 1 .. n : medio[h].liberada = globales[h].liberada
        BY <1>1
      <3> HIDE DEF medio, n
      <3> QED BY <1>1, <3>1, <3>2, <3>3 DEF SinLiberar
    <2>3. CASE CerrarFin(p)
      <3>1. globales' = [globales EXCEPT ![g] = e]
        BY <2>3 DEF CerrarFin
      <3> HIDE DEF e, g
      <3> QED BY <1>1, <3>1 DEF SinLiberar
    <2> QED BY <2>1, <2>2, <2>3
  <1>7. "lector_escribe" \in fuera' => "lector_escribe" \in fuera
    <2>1. fuera' \subseteq
            fuera \cup {"escritor_espera_detras", "lector_con_escritor", "cierra_uno_de_varios"}
      <3>1. CASE CerrarEntrega(p)
        <4>1. \E A \in SUBSET {"escritor_espera_detras"}, B \in SUBSET {"lector_con_escritor"} :
                fuera' = fuera \cup A \cup B
          BY <3>1, Zenon DEF CerrarEntrega
        <4> QED BY <4>1
      <3>2. CASE CerrarDeVarios(p)
        BY <3>2 DEF CerrarDeVarios
      <3>3. CASE CerrarFin(p)
        BY <3>3 DEF CerrarFin
      <3> QED BY <3>1, <3>2, <3>3
    <2> QED BY <2>1
  <1> HIDE DEF g, e, cola, n, resto
  <1> QED BY <1>1, <1>4, <1>5, <1>6, <1>7, MarcasSigue

\* exit_pcb destroys a process.
LEMMA SalidaMarcas ==
  ASSUME Tipo, Lugar, Marcas, fuera \subseteq fuera', NEW p \in Procesos, Salida(p)
  PROVE  Marcas'
  <1>1. estado[p] = "exit"
    <2>1. CASE Destruir(p)
      BY <2>1, ColaExitMengua DEF Destruir
    <2>2. CASE LiberarEntrada(p)
      BY <2>2, NadieNoEsProceso DEF LiberarEntrada, Lugar, LugarSalida
    <2> QED BY <2>1, <2>2 DEF Salida
  <1>2. CASE Destruir(p) /\ ~archivos_abiertos[p]
    <2>1. Muere(p) /\ globales' = globales /\ fuera' = fuera
      BY <1>2 DEF Destruir
    <2>2. SinLiberar
      BY <2>1 DEF SinLiberar
    <2> QED BY <2>1, <2>2, MarcasSigue DEF Muere, SalidaLibre, Tipo, TipoProcesos
  <1>3. CASE "muere_abierto" \in fuera'
    <2>1. \A q \in Procesos : abierto'[q] # "no" /\ ~archivos_abiertos'[q] =>
            abierto[q] # "no" /\ ~archivos_abiertos[q]
      <3>1. CASE Muere(p)
        BY <3>1 DEF Muere, Tipo, TipoProcesos
      <3>2. CASE ~Muere(p)
        BY <3>2 DEF Salida, Destruir, LiberarEntrada, Tipo, TipoProcesos
      <3> QED BY <3>1, <3>2
    <2>2. "lector_escribe" \in fuera' => "lector_escribe" \in fuera
      BY DEF Salida, Destruir, LiberarEntrada
    <2> QED BY <1>3, <2>1, MarcasSigue
  <1>4. CASE Destruir(p) /\ archivos_abiertos[p]
    BY <1>1, <1>3, <1>4 DEF Marcas
  <1>5. CASE LiberarEntrada(p)
    <2>1. salida.proceso # Nadie
      BY <1>5, NadieNoEsProceso DEF LiberarEntrada
    <2> QED BY <1>3, <2>1 DEF Marcas
  <1> QED BY <1>2, <1>4, <1>5 DEF Salida

LEMMA PasoMarcas ==
  ASSUME Tipo, Lugar, Marcas, [Next]_vars
  PROVE  Marcas'
  <1>0. fuera \subseteq fuera'
    BY FueraCrece
  <1>1. CASE UNCHANGED vars
    BY <1>1 DEF vars, Marcas
  <1>2. ASSUME NEW p \in Procesos, Ejecutar(p) PROVE Marcas'
    <2>1. CASE Elegir(p) \/ (\E modo \in Modos : Abrir(p, modo)) \/ Cerrar(p) \/ CerrarRoto(p)
               \/ Desalojar(p) \/ \E bloquea \in BOOLEAN : Usar(p, bloquea)
      BY <1>0, <2>1, ElegirMarcas
    <2>2. CASE AbrirNuevo(p) \/ AbrirCompartido(p)
      BY <1>0, <2>2, AbrirMarcas
    <2>3. CASE Escribir(p) \/ Terminar(p)
      BY <1>0, <2>3, TerminarMarcas
    <2>4. CASE CerrarEntrega(p) \/ CerrarDeVarios(p) \/ CerrarFin(p)
      BY <1>0, <2>4, CerrarMarcas
    <2> QED BY <1>2, <2>1, <2>2, <2>3, <2>4 DEF Ejecutar
  <1>3. ASSUME NEW p \in Procesos, RecibirOpFS(p) \/ Salida(p) PROVE Marcas'
    BY <1>0, <1>3, ElegirMarcas, SalidaMarcas
  <1> QED BY <1>1, <1>2, <1>3 DEF Next

\* While nothing of that has happened no pointer that is followed is bad.
LEMMA NoCae ==
  ASSUME Tipo, Lugar, Cuenta, Marcas, SinFallo, NEW p \in Procesos,
         \/ AbrirCompartido(p) \/ (\E bloquea \in BOOLEAN : Usar(p, bloquea)) \/ Escribir(p)
         \/ CerrarRoto(p) \/ Destruir(p)
  PROVE  caido' = caido
  <1>1. /\ \A q \in Procesos : abierto[q] # "no" => archivos_abiertos[q]
        /\ \A q \in Procesos : archivos_abiertos[q] => estado[q] # "exit"
        /\ \A h \in DOMAIN globales : ~globales[h].liberada
    BY DEF Marcas, SinFallo
  <1>2. UnaEntrada /\ Contados
    BY DEF Cuenta, Limpio, Marcas, SinFallo
  <1>3. exec.g \in 0 .. Len(globales) /\ Len(globales) \in Nat /\ DOMAIN globales = 1 .. Len(globales)
    BY LenTipo DEF Tipo, TipoHilos, DeExec
  <1>4. exec.g # NULL => PunteroRoto(exec.g) = "no"
    BY <1>1, <1>3 DEF PunteroRoto, NULL
  <1>5. CASE AbrirCompartido(p)
    <2>1. exec.g # NULL
      BY <1>5 DEF AbrirCompartido, EnPaso, Lugar, LugarExec
    <2> QED BY <1>4, <1>5, <2>1 DEF AbrirCompartido
  <1>6. CASE \E bloquea \in BOOLEAN : Usar(p, bloquea)
    BY <1>1, <1>6 DEF Usar
  <1>7. CASE Escribir(p)
    <2>1. estado[p] = "exec" /\ abierto[p] # "no"
      BY <1>7, EnManos DEF Escribir, Llamada, EnTurno
    <2>2. p \in Cuentan
      BY <2>1 DEF Cuentan
    <2>3. buscarArchivoGlobal # NULL
      BY <1>2, <2>2, UnaSola
    <2> QED BY <1>1, <1>7, <2>1, <2>3 DEF Escribir
  <1>8. CASE CerrarRoto(p)
    <2>1. exec.g # NULL
      BY <1>2, <1>8 DEF CerrarRoto, EnPaso, UnaEntrada
    <2> QED BY <1>4, <1>8, <2>1 DEF CerrarRoto
  <1>9. CASE Destruir(p)
    <2>1. estado[p] = "exit"
      BY <1>9, ColaExitMengua DEF Destruir
    <2> QED BY <1>1, <1>9, <2>1 DEF Destruir
  <1> QED BY <1>5, <1>6, <1>7, <1>8, <1>9

LEMMA PasoSoloCae ==
  ASSUME Tipo, Lugar, Cuenta, Marcas, SoloCaeSi, [Next]_vars
  PROVE  SoloCaeSi'
  <1>1. fuera \subseteq fuera'
    BY FueraCrece
  <1>2. CASE caido' = caido
    BY <1>1, <1>2 DEF SoloCaeSi
  <1>3. CASE ~SinFallo
    BY <1>1, <1>3 DEF SoloCaeSi, SinFallo
  <1>4. CASE SinFallo
    <2>1. CASE UNCHANGED vars
      BY <1>2, <2>1 DEF vars
    <2>2. ASSUME NEW p \in Procesos, Ejecutar(p) PROVE caido' = caido
      <3>1. CASE Elegir(p) \/ (\E modo \in Modos : Abrir(p, modo)) \/ AbrirNuevo(p)
        BY <3>1 DEF Elegir, Abrir, AbrirNuevo
      <3>2. CASE Cerrar(p) \/ Desalojar(p) \/ Terminar(p)
        BY <3>2 DEF Cerrar, Desalojar, Terminar
      <3>3. CASE CerrarEntrega(p)
        BY <3>3 DEF CerrarEntrega, Suelta
      <3>4. CASE CerrarDeVarios(p) \/ CerrarFin(p)
        BY <3>4 DEF CerrarDeVarios, CerrarFin, Suelta
      <3>5. CASE AbrirCompartido(p) \/ (\E bloquea \in BOOLEAN : Usar(p, bloquea))
                 \/ Escribir(p) \/ CerrarRoto(p)
        BY <1>4, <3>5, NoCae
      <3> QED BY <2>2, <3>1, <3>2, <3>3, <3>4, <3>5 DEF Ejecutar
    <2>3. ASSUME NEW p \in Procesos, RecibirOpFS(p) \/ Salida(p) PROVE caido' = caido
      <3>1. CASE Destruir(p)
        BY <1>4, <3>1, NoCae
      <3>2. CASE RecibirOpFS(p) \/ LiberarEntrada(p)
        BY <3>2 DEF RecibirOpFS, LiberarEntrada
      <3> QED BY <2>3, <3>1, <3>2 DEF Salida
    <2>4. caido' = caido
      BY <2>1, <2>2, <2>3 DEF Next, vars
    <2> QED BY <1>2, <2>4
  <1> QED BY <1>3, <1>4

\* No pointer that is followed leads to nothing or to a freed entry, unless a second reader
\* joined, a process ended with the file open, or kf_close did not hand it over as a whole.
THEOREM SoloCaeConMotivo == Spec => []SoloCaeSi
  <1>1. Init => Marcas /\ SoloCaeSi
    BY DEF Init, Marcas, SoloCaeSi, SalidaLibre
  <1>2. Tipo /\ Lugar /\ Cuenta /\ Marcas /\ SoloCaeSi /\ [Next]_vars => SoloCaeSi'
    BY PasoSoloCae
  <1>3. Tipo /\ Lugar /\ Marcas /\ [Next]_vars => Marcas'
    BY PasoMarcas
  <1> QED BY <1>1, <1>2, <1>3, SiempreCuenta, PTL DEF Spec

-----------------------------------------------------------------------------
(* The table of open files implements Cerrojo *)

\* Within the contract the counter is that of who will be taken off it, whoever else has the
\* file open is being destroyed under the entry nobody else holds, and an entry of a writer has
\* its writer.
Exacta ==
  EnContrato =>
    /\ lista_archivos_abiertos # <<>> =>
         /\ Cardinality(Cuentan) = EnTabla.contador
         /\ EnTabla.lock = "W" => \E p \in Procesos : abierto[p] = "W"
    /\ \A p \in Procesos : estado[p] = "exit" /\ ~archivos_abiertos[p] => abierto[p] = "no"
    /\ salida.proceso # Nadie /\ abierto[salida.proceso] # "no" =>
         lista_archivos_abiertos = <<salida.g>> /\ Cuentan = {}

\* A step of the lock, or none.
PasoDeCerrojo == Contrato!Cumplir \/ UNCHANGED <<abierto, Esperando>>

\* The table with its one entry g, within the contract.
Regla(g) ==
  /\ lista_archivos_abiertos = <<g>> /\ buscarArchivoGlobal = g /\ g # NULL
  /\ g \in DOMAIN globales /\ globales[g] \in Entradas
  /\ EnTabla = globales[g] /\ Esperando = globales[g].colabloqueado
  /\ ~globales[g].liberada /\ globales[g].lock \in {"R", "W"} /\ globales[g].contador \in Int
  /\ Cardinality(Cuentan) = globales[g].contador
  /\ globales[g].lock = "W" => globales[g].contador <= 1
  /\ globales[g].lock = "W" => \E q \in Procesos : abierto[q] = "W"
  /\ \A q \in Cuentan : abierto[q] = "W" => globales[g].lock = "W"
  /\ \A q \in Procesos : abierto[q] # "no" /\ q \notin Cuentan =>
       q = salida.proceso /\ salida.g = g /\ Cuentan = {}

\* The table without an entry.
Vacia ==
  /\ lista_archivos_abiertos = <<>> /\ Cuentan = {} /\ Esperando = <<>>
  /\ \A q \in Procesos : abierto[q] = "no"

-----------------------------------------------------------------------------
(* The contract *)

\* Nobody comes back to it, and a kernel that died makes no step.
LEMMA EnContratoAntes ==
  ASSUME [Next]_vars, EnContrato'
  PROVE  EnContrato
  <1>1. fuera \subseteq {"muere_abierto", "lector_sumado"}
    BY FueraCrece DEF EnContrato
  <1>2. CASE UNCHANGED vars
    BY <1>1, <1>2 DEF vars, EnContrato
  <1>3. ASSUME NEW p \in Procesos, Ejecutar(p) PROVE caido = "no"
    <2>1. CASE Elegir(p) \/ (\E modo \in Modos : Abrir(p, modo)) \/ AbrirNuevo(p) \/ Cerrar(p)
      BY <2>1 DEF Elegir, Abrir, AbrirNuevo, Cerrar, Llamada, EnTurno, EnPaso
    <2>2. CASE AbrirCompartido(p) \/ (\E bloquea \in BOOLEAN : Usar(p, bloquea)) \/ Escribir(p)
      BY <2>2 DEF AbrirCompartido, Usar, Escribir, Llamada, EnTurno, EnPaso
    <2>3. CASE CerrarRoto(p) \/ CerrarDeVarios(p) \/ CerrarFin(p) \/ Desalojar(p) \/ Terminar(p)
      BY <2>3 DEF CerrarRoto, CerrarDeVarios, CerrarFin, Desalojar, Terminar, Llamada, EnTurno,
                  EnPaso
    <2>4. CASE CerrarEntrega(p)
      BY <2>4 DEF CerrarEntrega, EnPaso
    <2> QED BY <1>3, <2>1, <2>2, <2>3, <2>4 DEF Ejecutar
  <1>4. ASSUME NEW p \in Procesos, RecibirOpFS(p) \/ Salida(p) PROVE caido = "no"
    BY <1>4 DEF RecibirOpFS, Salida, Destruir, LiberarEntrada
  <1>5. caido = "no" \/ UNCHANGED vars
    BY <1>3, <1>4 DEF Next
  <1> QED BY <1>1, <1>2, <1>5 DEF EnContrato

\* Within it the table is empty, or it is one entry that counts who has the file.
LEMMA EnRegla ==
  ASSUME Tipo, Lugar, Cuenta, Exacta, EnContrato
  PROVE  /\ Vacia \/ \E g \in DOMAIN globales : Regla(g)
         /\ IsFiniteSet(Cuentan) /\ Limpio
  <1>0. Limpio
    BY DEF EnContrato, Limpio
  <1>1. UnaEntrada /\ Contados /\ IsFiniteSet(Cuentan)
    BY <1>0 DEF Cuenta, Contados
  <1>2. ASSUME NEW q \in Procesos, abierto[q] # "no", q \notin Cuentan
        PROVE  /\ q = salida.proceso /\ lista_archivos_abiertos = <<salida.g>>
               /\ Cuentan = {}
    <2>1. estado[q] = "exit" /\ (~archivos_abiertos[q] \/ salida.proceso = q)
      BY <1>2 DEF Cuentan
    <2>2. archivos_abiertos[q]
      BY <1>2, <2>1 DEF Exacta
    <2> QED BY <1>2, <2>1, <2>2, NadieNoEsProceso DEF Exacta
  <1>3. CASE lista_archivos_abiertos = <<>> /\ Cuentan = {}
    <2>1. \A h : <<>> # <<h>>
      OBVIOUS
    <2>2. \A q \in Procesos : abierto[q] = "no"
      BY <1>2, <1>3, <2>1
    <2>3. Esperando = <<>>
      BY <1>3 DEF Esperando, buscarArchivoGlobal
    <2> QED BY <1>0, <1>1, <1>3, <2>2, <2>3 DEF Vacia
  <1>4. ASSUME NEW g \in DOMAIN globales,
              lista_archivos_abiertos = <<g>> /\ EnTabla = globales[g],
              buscarArchivoGlobal = g /\ g # NULL,
              ~globales[g].liberada /\ globales[g].lock \in {"R", "W"},
              globales[g].lock = "W" => globales[g].contador <= 1,
              \A q \in Cuentan : abierto[q] = "W" => globales[g].lock = "W"
        PROVE Regla(g)
    <2>1. lista_archivos_abiertos # <<>>
      BY <1>4
    <2>2. Cardinality(Cuentan) = globales[g].contador
          /\ (globales[g].lock = "W" => \E q \in Procesos : abierto[q] = "W")
      BY <1>4, <2>1 DEF Exacta
    <2>3. Esperando = globales[g].colabloqueado
      BY <1>4 DEF Esperando
    <2>4. globales[g] \in Entradas /\ globales[g].contador \in Int
      BY EnColaTipo DEF Tipo, Entradas
    <2>5. \A h : <<h>> = <<g>> => h = g
      OBVIOUS
    <2>6. \A q \in Procesos : abierto[q] # "no" /\ q \notin Cuentan =>
             q = salida.proceso /\ salida.g = g /\ Cuentan = {}
      BY <1>2, <1>4, <2>5
    <2> QED BY <1>4, <2>2, <2>3, <2>4, <2>6 DEF Regla
  <1> QED BY <1>0, <1>1, <1>3, <1>4, UnaSola

-----------------------------------------------------------------------------
(* The steps, one by one *)

\* A step that changes nothing of what Exacta says.
LEMMA MismaExacta ==
  ASSUME Exacta, EnContrato,
         \A q \in Procesos : abierto'[q] = abierto[q], Cuentan' = Cuentan,
         lista_archivos_abiertos' = lista_archivos_abiertos, salida' = salida,
         salida.proceso \in Procesos \cup {Nadie},
         lista_archivos_abiertos # <<>> =>
           EnTabla'.contador = EnTabla.contador /\ EnTabla'.lock = EnTabla.lock,
         \A q \in Procesos : estado'[q] = "exit" /\ ~archivos_abiertos'[q] =>
           (estado[q] = "exit" /\ ~archivos_abiertos[q]) \/ abierto[q] = "no"
  PROVE  Exacta'
  BY NadieNoEsProceso DEF Exacta

\* The steps that leave the table and the programs' files alone.
LEMMA QuietoContrato ==
  ASSUME Tipo, Lugar, Cuenta, Exacta, EnContrato, EnContrato', NEW p \in Procesos,
         \/ Elegir(p) \/ Desalojar(p) \/ Terminar(p) \/ RecibirOpFS(p) \/ Cerrar(p) \/ CerrarRoto(p)
         \/ \E bloquea \in BOOLEAN : Usar(p, bloquea)
         \/ \E modo \in Modos : Abrir(p, modo)
         \/ Escribir(p)
  PROVE  Exacta' /\ PasoDeCerrojo
  <1>1. /\ UNCHANGED <<lista_archivos_abiertos, archivos_abiertos, abierto, salida>>
    BY DEF Elegir, Desalojar, Terminar, RecibirOpFS, Cerrar, CerrarRoto, Usar, Abrir, Escribir,
           tablaVars, salidaVars
  <1>2. globales' = globales
    <2>1. CASE Escribir(p)
      <3>1. "lector_escribe" \notin fuera'
        BY DEF EnContrato
      <3> QED BY <2>1, <3>1 DEF Escribir
    <2>2. CASE ~Escribir(p)
      BY <2>2 DEF Elegir, Desalojar, Terminar, RecibirOpFS, Cerrar, CerrarRoto, Usar, Abrir,
                  tablaVars
    <2> QED BY <2>1, <2>2
  <1>3. /\ \A q \in Procesos : estado'[q] = "exit" =>
             estado[q] = "exit" \/ archivos_abiertos[q] \/ abierto[q] = "no"
        /\ \A q \in Procesos : estado[q] = "exit" => estado'[q] = "exit"
        /\ \A q \in Procesos : estado'[q] = "exit" /\ estado[q] # "exit" => salida.proceso # q
    <2>1. CASE Elegir(p) \/ RecibirOpFS(p)
      BY <2>1 DEF Elegir, RecibirOpFS, Tipo, TipoProcesos
    <2>2. CASE Cerrar(p) \/ CerrarRoto(p) \/ \E modo \in Modos : Abrir(p, modo)
      BY <2>2 DEF Cerrar, CerrarRoto, Abrir
    <2>3. CASE Desalojar(p) \/ Terminar(p) \/ Escribir(p) \/ \E bloquea \in BOOLEAN : Usar(p, bloquea)
      <3>1. estado[p] = "exec" /\ salida.proceso # p
        BY <2>3, EnManos DEF Desalojar, Terminar, Escribir, Usar, Llamada, EnTurno
      <3>2. \A q \in Procesos : q # p => estado'[q] = estado[q]
        BY <2>3 DEF Desalojar, Terminar, Escribir, Usar, Deja, Tipo, TipoProcesos
      <3>3. estado'[p] = "exit" => archivos_abiertos[p] \/ abierto[p] = "no"
        <4>1. "lector_olvidado" \notin fuera' /\ "lector_escribe" \notin fuera'
          BY DEF EnContrato
        <4>2. CASE Terminar(p)
          BY <4>1, <4>2 DEF Terminar, MuereAbierto
        <4>3. CASE Escribir(p)
          BY <3>1, <4>1, <4>3 DEF Escribir, Deja, Tipo, TipoProcesos
        <4>4. CASE Desalojar(p) \/ \E bloquea \in BOOLEAN : Usar(p, bloquea)
          BY <3>1, <4>4 DEF Desalojar, Usar, Deja, Tipo, TipoProcesos
        <4> QED BY <2>3, <4>2, <4>3, <4>4
      <3> QED BY <3>1, <3>2, <3>3
    <2> QED BY <2>1, <2>2, <2>3
  <1>4. Cuentan' = Cuentan
    BY <1>1, <1>3 DEF Cuentan
  <1>5. EnTabla' = EnTabla /\ Esperando' = Esperando
    BY <1>1, <1>2 DEF EnTabla, Esperando, buscarArchivoGlobal
  <1>6. salida.proceso \in Procesos \cup {Nadie}
    BY DEF Tipo, TipoHilos, DeSalida
  <1>7. Exacta'
    BY <1>1, <1>3, <1>4, <1>5, <1>6, MismaExacta
  <1> QED BY <1>1, <1>5, <1>7 DEF PasoDeCerrojo

\* kf_open makes the entry: the lock is taken.
LEMMA AbrirNuevoContrato ==
  ASSUME Tipo, Lugar, Cuenta, Exacta, EnContrato, EnContrato', NEW p \in Procesos, AbrirNuevo(p)
  PROVE  Exacta' /\ PasoDeCerrojo
  <1> DEFINE n == Len(globales)
             e == Entrada(exec.modo, 1)
  <1>1. /\ exec.proceso = p /\ exec.paso = "abrir_fs" /\ exec.modo \in Modos
        /\ globales' = Append(globales, e)
        /\ lista_archivos_abiertos' = Append(lista_archivos_abiertos, Len(globales'))
        /\ abierto' = [abierto EXCEPT ![p] = exec.modo]
        /\ salida' = salida /\ estado' = estado
    BY DEF AbrirNuevo, salidaVars, EnPaso, Tipo, TipoHilos, DeExec
  <1>2. Vacia
    <2>1. Limpio /\ UnaEntrada
      BY EnRegla DEF Cuenta
    <2>2. lista_archivos_abiertos = <<>> /\ \A g : <<>> # <<g>>
      BY <1>1, <2>1 DEF UnaEntrada
    <2> QED BY <2>2, EnRegla DEF Regla
  <1>3. globales \in Seq(Entradas) /\ n \in Nat /\ DOMAIN globales = 1 .. n
    BY LenTipo DEF Tipo, TipoTabla
  <1>4. e.lock = exec.modo /\ e.contador = 1 /\ e.colabloqueado = <<>> /\ e \in Entradas
    BY <1>1, EntradaTipo DEF Entrada
  <1> HIDE DEF e
  <1>5. Len(globales') = n + 1 /\ globales'[n + 1] = e
    BY <1>1, <1>3, <1>4
  <1>6. lista_archivos_abiertos' = <<n + 1>>
    BY <1>1, <1>2, <1>5 DEF Vacia
  <1> HIDE DEF n
  <1>7. EnTabla' = e /\ Esperando' = <<>> /\ lista_archivos_abiertos' # <<>>
    <2>1. buscarArchivoGlobal' = n + 1 /\ n + 1 # NULL
      BY <1>3, <1>6 DEF buscarArchivoGlobal, NULL
    <2>2. EnTabla' = e
      BY <1>5, <1>6 DEF EnTabla
    <2> QED BY <1>4, <1>5, <1>6, <2>1, <2>2 DEF Esperando
  <1>8. /\ abierto'[p] = exec.modo /\ \A q \in Procesos : q # p => abierto'[q] = "no"
    BY <1>1, <1>2 DEF Tipo, TipoProcesos, Vacia
  <1>9. estado[p] = "exec" /\ salida.proceso # p
    BY <1>1, EnManos
  <1>10. Cuentan' = {p}
    BY <1>1, <1>8, <1>9 DEF Cuentan, Modos
  <1>11. Cardinality({p}) = 1
    BY FS_Singleton
  <1>12. Exacta'
    <2>1. salida'.proceso # Nadie => abierto'[salida'.proceso] = "no"
      BY <1>1, <1>8, <1>9 DEF Tipo, TipoHilos, DeSalida
    <2>2. EnTabla'.lock = "W" => abierto'[p] = "W"
      BY <1>4, <1>7, <1>8
    <2>3. Cardinality(Cuentan') = EnTabla'.contador
      BY <1>4, <1>7, <1>10, <1>11
    <2>4. \A q \in Procesos : estado'[q] = "exit" => abierto'[q] = "no"
      BY <1>1, <1>8, <1>9
    <2> QED BY <2>1, <2>2, <2>3, <2>4 DEF Exacta
  <1>13. Contrato!Tomar(p, exec.modo)
    <2>1. Contrato!Duenos = {}
      BY <1>2 DEF Vacia, Contrato!Duenos
    <2> QED BY <1>1, <1>2, <1>7, <2>1 DEF Contrato!Tomar, Vacia
  <1>14. Contrato!Cumplir
    BY <1>1, <1>13 DEF Contrato!Cumplir, Modos
  <1> QED BY <1>12, <1>14 DEF PasoDeCerrojo

\* kf_open finds the entry: the process waits, or shares the file with other readers.
LEMMA AbrirCompartidoContrato ==
  ASSUME Tipo, Lugar, Cuenta, Exacta, EnContrato, EnContrato', NEW p \in Procesos,
         AbrirCompartido(p)
  PROVE  Exacta' /\ PasoDeCerrojo
  <1> DEFINE g == exec.g
  <1>1. /\ exec.proceso = p /\ exec.paso = "abrir" /\ exec.modo \in Modos /\ g # NULL
        /\ estado[p] = "exec" /\ abierto[p] = "no" /\ salida.proceso # p
        /\ UNCHANGED <<lista_archivos_abiertos, archivos_abiertos>> /\ salida' = salida
        /\ globales \in Seq(Entradas) /\ salida.proceso \in Procesos \cup {Nadie}
    BY EnManos DEF AbrirCompartido, salidaVars, EnPaso, Tipo, TipoTabla, TipoHilos, DeExec,
                   DeSalida, Lugar, LugarExec
  <1>2. PunteroRoto(g) = "no" /\ ~globales[g].liberada
    BY DEF AbrirCompartido, EnContrato, PunteroRoto
  <1>3. Regla(g)
    <2>1. lista_archivos_abiertos = <<g>>
      BY <1>1, <1>2, EnRegla DEF Cuenta, UnaEntrada
    <2>2. \A h : <<h>> = <<g>> => h = g
      OBVIOUS
    <2>3. <<>> # <<g>>
      OBVIOUS
    <2> QED BY <2>1, <2>2, <2>3, EnRegla DEF Regla, Vacia
  <1> HIDE DEF g
  <1>4. buscarArchivoGlobal' = g /\ buscarArchivoGlobal = g /\ g # NULL
    BY <1>1, <1>3 DEF Regla, buscarArchivoGlobal
  <1>5. EnTabla' = globales'[g] /\ Esperando' = globales'[g].colabloqueado
    BY <1>1, <1>3, <1>4 DEF EnTabla, Esperando, Regla
  <1>6. p \notin Cuentan
    BY <1>1 DEF Cuentan
  <1>7. CASE /\ HayQueEsperar(globales[g], exec.modo)
             /\ globales' = [globales EXCEPT ![g].colabloqueado =
                     Append(@, [proceso |-> p, modo |-> exec.modo])]
             /\ Deja(p, "archivo") /\ UNCHANGED abierto
    <2> DEFINE c == [proceso |-> p, modo |-> exec.modo]
    <2>1. /\ globales'[g].lock = globales[g].lock /\ globales'[g].contador = globales[g].contador
          /\ globales'[g].colabloqueado = Append(globales[g].colabloqueado, c)
      BY <1>3, <1>7 DEF Regla, Entradas
    <2>2. \A q \in Procesos : estado'[q] = "exit" <=> estado[q] = "exit"
      BY <1>1, <1>7 DEF Deja, Tipo, TipoProcesos
    <2>3. Cuentan' = Cuentan
      BY <1>1, <1>7, <2>2 DEF Cuentan
    <2>4. Exacta'
      BY <1>1, <1>3, <1>5, <1>7, <2>1, <2>2, <2>3, MismaExacta DEF Regla
    <2>5. p \notin Contrato!Duenos
      BY <1>1 DEF Contrato!Duenos
    <2>6. p \notin Contrato!Esperan
      <3>1. \A i \in DOMAIN globales[g].colabloqueado : globales[g].colabloqueado[i].proceso # p
        BY <1>1, <1>3, EnManos DEF Regla
      <3>2. Esperando = globales[g].colabloqueado
        BY <1>3 DEF Regla
      <3>3. \A d \in Contrato!ToSet(Esperando) : d.proceso # p
        BY <3>1, <3>2 DEF Contrato!ToSet
      <3> QED BY <3>3 DEF Contrato!Esperan
    <2>7. exec.modo = "W" \/ \E q \in Contrato!Duenos : abierto[q] = "W"
      <3>1. globales[g].lock = "W" => \E q \in Contrato!Duenos : abierto[q] = "W"
        BY <1>3 DEF Regla, Contrato!Duenos
      <3> QED BY <1>7, <3>1 DEF HayQueEsperar
    <2>8. Esperando' = Append(Esperando, c)
      BY <1>3, <1>5, <2>1 DEF Regla
    <2>9. Contrato!Esperar(p, exec.modo)
      BY <1>7, <2>5, <2>6, <2>7, <2>8 DEF Contrato!Esperar
    <2> HIDE DEF c
    <2>10. Contrato!Cumplir
      BY <1>1, <2>9 DEF Contrato!Cumplir, Modos
    <2> QED BY <2>4, <2>10 DEF PasoDeCerrojo
  <1>8. CASE /\ ~HayQueEsperar(globales[g], exec.modo)
             /\ globales' = [globales EXCEPT ![g].contador = @ + 1]
             /\ abierto' = [abierto EXCEPT ![p] = exec.modo]
             /\ globales[g].contador > 0 /\ UNCHANGED estado
    <2>1. /\ globales'[g].lock = globales[g].lock
          /\ globales'[g].contador = globales[g].contador + 1
          /\ globales'[g].colabloqueado = globales[g].colabloqueado
      <3> DEFINE e == [globales[g] EXCEPT !.contador = @ + 1]
      <3>1. /\ e \in Entradas /\ e.lock = globales[g].lock
            /\ e.contador = globales[g].contador + 1
            /\ e.colabloqueado = globales[g].colabloqueado
        <4>1. globales[g] \in Entradas
          BY <1>3 DEF Regla
        <4> QED BY <4>1 DEF Entradas
      <3>2. globales' = [globales EXCEPT ![g] = e] /\ g \in DOMAIN globales
        BY <1>3, <1>8 DEF Regla
      <3> HIDE DEF e
      <3>3. globales'[g] = e
        BY <1>1, <3>1, <3>2
      <3> QED BY <3>1, <3>3
    <2>2. globales[g].lock = "R" /\ exec.modo = "R"
      BY <1>1, <1>3, <1>8 DEF HayQueEsperar, Modos, Regla
    <2>3. abierto'[p] = "R" /\ \A q \in Procesos : q # p => abierto'[q] = abierto[q]
      BY <1>8, <2>2 DEF Tipo, TipoProcesos
    <2>4. Cuentan' = Cuentan \cup {p}
      BY <1>1, <1>8, <2>3 DEF Cuentan
    <2>5. Cardinality(Cuentan') = Cardinality(Cuentan) + 1
      BY <1>6, <2>4, EnRegla, FS_AddElement
    <2>6. Cuentan # {}
      <3>1. Cardinality(Cuentan) > 0
        BY <1>3, <1>8 DEF Regla
      <3> QED BY <3>1, FS_EmptySet
    <2>7. \A q \in Procesos : abierto[q] # "no" => q \in Cuentan
      BY <1>3, <2>6 DEF Regla
    <2>8. \A q \in Procesos : abierto[q] # "no" => abierto[q] = "R"
      BY <1>3, <2>2, <2>7 DEF Regla, Tipo, TipoProcesos, Modos
    <2>9. Exacta'
      <3>1. Cardinality(Cuentan') = EnTabla'.contador
        BY <1>3, <1>5, <2>1, <2>5 DEF Regla
      <3>2. EnTabla'.lock # "W"
        BY <1>5, <2>1, <2>2
      <3>3. \A q \in Procesos : estado'[q] = "exit" /\ ~archivos_abiertos'[q] => abierto'[q] = "no"
        BY <1>1, <1>8, <2>3 DEF Exacta
      <3>4. salida.proceso # Nadie => abierto[salida.proceso] = "no"
        <4>1. salida.proceso # Nadie => salida.proceso \notin Cuentan
          BY <1>1, NadieNoEsProceso DEF Cuentan, Lugar, LugarSalida
        <4> QED BY <1>1, <2>7, <4>1
      <3>5. salida'.proceso # Nadie => abierto'[salida'.proceso] = "no"
        BY <1>1, <2>3, <3>4
      <3> QED BY <3>1, <3>2, <3>3, <3>5 DEF Exacta
    <2>10. Contrato!Compartir(p)
      <3>1. p \notin Contrato!Duenos /\ \A q \in Contrato!Duenos : abierto[q] = "R"
        BY <1>1, <2>8 DEF Contrato!Duenos
      <3>2. Contrato!Duenos # {}
        BY <2>6 DEF Cuentan, Contrato!Duenos
      <3>3. Esperando' = Esperando
        BY <1>3, <1>5, <2>1 DEF Regla
      <3> QED BY <1>8, <2>2, <3>1, <3>2, <3>3 DEF Contrato!Compartir
    <2>11. Contrato!Cumplir
      BY <2>10 DEF Contrato!Cumplir
    <2> QED BY <2>9, <2>11 DEF PasoDeCerrojo
  <1> QED
    <2>1. "lector_tardio" \notin fuera'
      BY DEF EnContrato
    <2>2. globales[g].contador > 0 <=> ~(globales[g].contador <= 0)
      BY <1>3 DEF Regla
    <2> QED BY <1>2, <1>7, <1>8, <2>1, <2>2 DEF AbrirCompartido, g

\* kf_close when nobody waits: the lock is free.
LEMMA CerrarFinContrato ==
  ASSUME Tipo, Lugar, Cuenta, Exacta, EnContrato, EnContrato', NEW p \in Procesos, CerrarFin(p)
  PROVE  Exacta' /\ PasoDeCerrojo
  <1> DEFINE g == exec.g
             e == Soltada(globales[g], archivos_abiertos[p])
             cola == globales[g].colabloqueado
             n == Len(globales)
             resto == RemoveFirst(lista_archivos_abiertos, g)
  <1>1. EnPaso(p, "cerrar") /\ PunteroRoto(exec.g) = "no"
    BY DEF CerrarFin
  <1>2. DeCierre(p, g, e, cola, n, resto)
    BY DEF DeCierre
  <1>3. /\ g \in DOMAIN globales /\ n \in Nat /\ globales \in Seq(Entradas)
        /\ n = Len(globales) /\ exec.proceso = p /\ exec.paso = "cerrar" /\ e \in Entradas
        /\ e.colabloqueado = cola
    BY <1>1, CerrarEntradaTipo
  <1>4. /\ IF e.lock = "N" THEN e.colabloqueado = <<>> ELSE e.contador <= 0
        /\ globales' = [globales EXCEPT ![g] = e] /\ Suelta(p, <<>>)
        /\ lista_archivos_abiertos' = resto
    BY DEF CerrarFin
  <1>5. cola = globales[g].colabloqueado /\ g = exec.g
    OBVIOUS
  <1> HIDE DEF g, e, cola, n, resto
  <1>6. UnaEntrada /\ Contados
    BY EnRegla DEF Cuenta
  <1>7. resto = <<>> /\ Cuentan = {p} /\ cola = <<>>
    <2>1. /\ resto = <<>> /\ (e.lock = "N" => Cuentan = {p})
          /\ (e.lock # "N" => e.contador >= 1) /\ e.contador \in Int
      BY <1>1, <1>2, <1>6, CerrarSuelta
    <2> QED BY <1>3, <1>4, <2>1
  <1>8. Regla(g)
    <2>1. lista_archivos_abiertos = <<g>>
      BY <1>1, <1>5, <1>6, CerrarHalla
    <2>2. (\A h : <<h>> = <<g>> => h = g) /\ <<>> # <<g>>
      OBVIOUS
    <2> QED BY <2>1, <2>2, EnRegla DEF Regla, Vacia
  <1>9. Len(globales') = n
    BY <1>3, <1>4
  <1>10. /\ \A q \in Procesos :
              /\ abierto'[q] = IF q = p THEN "no" ELSE abierto[q]
              /\ estado'[q] = estado[q]
              /\ archivos_abiertos'[q] <=> q # p /\ archivos_abiertos[q]
         /\ salida' = salida
    <2>1. Len(globales') \in Nat /\ Len(globales) <= Len(globales')
      BY <1>3, <1>9
    <2> QED BY <1>3, <1>4, <2>1, SueltaSola
  <1>11. estado[p] = "exec" /\ abierto[p] # "no" /\ salida.proceso # p
    BY <1>3, EnManos, NadieNoEsProceso DEF Lugar, LugarExec
  <1>12. \A q \in Procesos : q # p => abierto[q] = "no"
    BY <1>7, <1>8 DEF Regla
  <1>13. lista_archivos_abiertos' = <<>> /\ Esperando' = <<>> /\ Esperando = <<>>
    BY <1>4, <1>5, <1>7, <1>8 DEF Esperando, buscarArchivoGlobal, Regla
  <1>14. \A q \in Procesos : abierto'[q] = "no"
    BY <1>10, <1>12
  <1>15. Exacta'
    <2>1. salida'.proceso # Nadie => abierto'[salida'.proceso] = "no"
      BY <1>10, <1>14 DEF Tipo, TipoHilos, DeSalida
    <2> QED BY <1>13, <1>14, <2>1 DEF Exacta
  <1>16. Contrato!Entregar(p)
    <2>1. Contrato!Duenos = {p}
      BY <1>11, <1>12 DEF Contrato!Duenos
    <2>2. abierto' = [abierto EXCEPT ![p] = "no"]
      <3>1. DOMAIN abierto' = Procesos
        BY <1>4 DEF Suelta
      <3>2. abierto' = [q \in Procesos |-> abierto'[q]]
        BY <1>4 DEF Suelta
      <3> QED BY <1>10, <3>2 DEF Tipo, TipoProcesos
    <2> QED BY <1>13, <2>1, <2>2 DEF Contrato!Entregar
  <1>17. Contrato!Cumplir
    BY <1>16 DEF Contrato!Cumplir
  <1> QED BY <1>15, <1>17 DEF PasoDeCerrojo

\* exit_pcb takes a process off the counter: it leaves the file, unless it was the last one.
LEMMA DestruirContrato ==
  ASSUME Tipo, Lugar, Cuenta, Exacta, EnContrato, EnContrato', NEW p \in Procesos, Destruir(p)
  PROVE  Exacta' /\ PasoDeCerrojo
  <1> DEFINE g == buscarArchivoGlobal
  <1>1. /\ salida.proceso = Nadie /\ p # Nadie /\ estado[p] = "exit"
        /\ UNCHANGED lista_archivos_abiertos /\ globales \in Seq(Entradas)
        /\ \A q \in Procesos : salida.proceso # q
    BY ColaExitMengua, NadieNoEsProceso DEF Destruir, SalidaLibre, Tipo, TipoTabla
  <1>2. caido' = "no"
    BY DEF EnContrato
  <1>3. CASE ~archivos_abiertos[p] /\ Muere(p) /\ UNCHANGED globales
    <2>1. abierto[p] = "no"
      BY <1>1, <1>3 DEF Exacta
    <2>2. abierto' = abierto /\ salida'.proceso = Nadie
      BY <1>3, <2>1 DEF Muere, SalidaLibre, Tipo, TipoProcesos
    <2>3. \A q \in Procesos : q # p =>
            estado'[q] = estado[q] /\ archivos_abiertos'[q] = archivos_abiertos[q]
      BY <1>3 DEF Muere, Tipo, TipoProcesos
    <2>4. Cuentan' = Cuentan
      BY <1>1, <2>1, <2>2, <2>3, NadieNoEsProceso DEF Cuentan
    <2>5. Esperando' = Esperando /\ EnTabla' = EnTabla
      BY <1>1, <1>3 DEF Esperando, buscarArchivoGlobal, EnTabla
    <2>6. \A q \in Procesos : estado'[q] = "exit" /\ ~archivos_abiertos'[q] => abierto'[q] = "no"
      BY <2>1, <2>2, <2>3 DEF Exacta
    <2>7. Exacta'
      BY <1>1, <2>2, <2>4, <2>5, <2>6 DEF Exacta
    <2> QED BY <2>2, <2>5, <2>7 DEF PasoDeCerrojo
  <1>4. CASE /\ archivos_abiertos[p] /\ g # NULL
             /\ globales' = [globales EXCEPT ![g].contador = @ - 1]
             /\ salida' = [proceso |-> p, paso |-> "probar", g |-> g]
             /\ abierto' = IF globales[g].contador > 1 THEN [abierto EXCEPT ![p] = "no"]
                           ELSE abierto
             /\ UNCHANGED <<archivos_abiertos, estado>>
    <2>1. Regla(g)
      BY <1>4, EnRegla DEF Regla, Vacia, buscarArchivoGlobal
    <2>2. salida'.proceso = p /\ salida'.g = g
      BY <1>4
    <2> HIDE DEF g
    <2>3. /\ globales'[g].lock = globales[g].lock
          /\ globales'[g].contador = globales[g].contador - 1
          /\ globales'[g].colabloqueado = globales[g].colabloqueado
      <3> DEFINE e == [globales[g] EXCEPT !.contador = @ - 1]
      <3>1. /\ e \in Entradas /\ e.lock = globales[g].lock
            /\ e.contador = globales[g].contador - 1
            /\ e.colabloqueado = globales[g].colabloqueado
        <4>1. globales[g] \in Entradas
          BY <2>1 DEF Regla
        <4> QED BY <4>1 DEF Entradas
      <3>2. globales' = [globales EXCEPT ![g] = e] /\ g \in DOMAIN globales
        BY <1>4, <2>1 DEF Regla
      <3> HIDE DEF e
      <3>3. globales'[g] = e
        BY <1>1, <3>1, <3>2
      <3> QED BY <3>1, <3>3
    <2>4. abierto[p] # "no" /\ p \in Cuentan
      <3>1. abierto[p] # "no"
        BY <1>1, <1>4 DEF Lugar, Propias
      <3> QED BY <1>1, <1>4, <3>1 DEF Cuentan
    <2>5. /\ \A q \in Procesos : q # p => abierto'[q] = abierto[q]
          /\ abierto'[p] = IF globales[g].contador > 1 THEN "no" ELSE abierto[p]
      BY <1>4 DEF Tipo, TipoProcesos
    <2>6. Cuentan' = Cuentan \ {p}
      BY <1>1, <1>4, <2>2, <2>5 DEF Cuentan
    <2>7. /\ Cardinality(Cuentan \ {p}) = Cardinality(Cuentan) - 1
          /\ IsFiniteSet(Cuentan \ {p}) /\ Cardinality(Cuentan \ {p}) \in Nat
          /\ Cardinality(Cuentan) \in Nat
      BY <2>4, EnRegla, FS_RemoveElement, FS_CardinalityType
    <2>8. EnTabla' = globales'[g] /\ Esperando' = Esperando
      <3>1. lista_archivos_abiertos' = <<g>> /\ buscarArchivoGlobal' = g
        BY <1>1, <2>1 DEF Regla, buscarArchivoGlobal
      <3> QED BY <2>1, <2>3, <3>1 DEF EnTabla, Esperando, Regla
    <2>9. CASE globales[g].contador > 1
      <3>1. Exacta'
        <4>1. abierto'[p] = "no" /\ globales'[g].lock # "W"
          BY <2>1, <2>3, <2>5, <2>9 DEF Regla
        <4>2. Cardinality(Cuentan') = EnTabla'.contador
          BY <2>1, <2>3, <2>6, <2>7, <2>8 DEF Regla
        <4>3. \A q \in Procesos : estado'[q] = "exit" /\ ~archivos_abiertos'[q] => abierto'[q] = "no"
          BY <1>4, <2>5 DEF Exacta
        <4> QED BY <2>2, <2>8, <4>1, <4>2, <4>3 DEF Exacta
      <3>2. Contrato!Salir(p)
        <4>1. p \in Contrato!Duenos
          BY <2>4 DEF Contrato!Duenos
        <4>2. Contrato!Duenos # {p}
          <5>1. Cuentan \ {p} # {}
            BY <2>1, <2>7, <2>9, FS_EmptySet DEF Regla
          <5> QED BY <5>1 DEF Cuentan, Contrato!Duenos
        <4> QED BY <1>4, <2>8, <2>9, <4>1, <4>2 DEF Contrato!Salir
      <3>3. Contrato!Cumplir
        BY <3>2 DEF Contrato!Cumplir
      <3> QED BY <3>1, <3>3 DEF PasoDeCerrojo
    <2>10. CASE ~(globales[g].contador > 1)
      <3>1. abierto' = abierto
        BY <1>4, <2>10
      <3>2. Cuentan' = {}
        <4>1. Cardinality(Cuentan \ {p}) = 0
          BY <2>1, <2>7, <2>10 DEF Regla
        <4> QED BY <2>6, <2>7, <4>1, FS_EmptySet
      <3>3. Exacta'
        <4>1. Cardinality(Cuentan') = EnTabla'.contador
          BY <2>1, <2>3, <2>6, <2>7, <2>8 DEF Regla
        <4>2. \A q \in Procesos : estado'[q] = "exit" /\ ~archivos_abiertos'[q] => abierto'[q] = "no"
          BY <1>4, <3>1 DEF Exacta
        <4>3. EnTabla'.lock = "W" => \E q \in Procesos : abierto'[q] = "W"
          BY <2>1, <2>3, <2>8, <3>1 DEF Regla
        <4>4. lista_archivos_abiertos' = <<salida'.g>>
          BY <1>1, <2>1, <2>2 DEF Regla
        <4> QED BY <3>2, <4>1, <4>2, <4>3, <4>4 DEF Exacta
      <3> QED BY <2>8, <3>1, <3>3 DEF PasoDeCerrojo
    <2> QED BY <2>9, <2>10
  <1> QED BY <1>2, <1>3, <1>4 DEF Destruir

\* When kf_close leaves no writer behind, and no reader goes in with a writer, the whole
\* queue goes in.
LEMMA TodosEntran ==
  ASSUME NEW cola \in Seq(Espera), cola # <<>>,
         \A i, j \in DOMAIN cola : cola[i].proceso = cola[j].proceso => i = j,
         Escritores(cola) = <<>>, cola[1].modo = "W" => Lectores(cola) = <<>>
  PROVE  /\ \A q : q \in Quienes(cola) <=> \E i \in DOMAIN cola : cola[i].proceso = q
         /\ \A i \in DOMAIN cola :
              cola[i] = cola[1] \/ (cola[1].modo = "R" /\ cola[i].modo = "R")
         /\ cola[1].modo = "R" => Los(cola, "W") = <<>>
         /\ cola[1].modo = "W" => Tail(cola) = <<>>
         /\ Head(cola) = cola[1] /\ cola[1].modo \in Modos
  <1> DEFINE m == Len(cola)
  <1>0. m \in Nat /\ m >= 1 /\ DOMAIN cola = 1 .. m /\ 1 \in DOMAIN cola
    OBVIOUS
  <1>1. /\ \A k \in DOMAIN Entran(cola) : \E j \in DOMAIN cola :
             /\ Entran(cola)[k] = cola[j] /\ (k # 1 => j # 1 /\ cola[j].modo = "R")
        /\ \A j \in DOMAIN cola : \E k \in DOMAIN Entran(cola) : Entran(cola)[k] = cola[j]
        /\ Entran(cola) \in Seq(Espera) /\ Len(Entran(cola)) = Len(Lectores(cola)) + 1
        /\ Head(Entran(cola)) = cola[1] /\ cola[1] \in Espera /\ Head(cola) = cola[1]
    BY Reparto
  <1>2. /\ \A k \in DOMAIN Entran(cola) : Entran(cola)[k].proceso \in Quienes(cola)
        /\ \A q \in Quienes(cola) : \E k \in DOMAIN Entran(cola) : q = Entran(cola)[k].proceso
    BY AbrenTipo
  <1>3. \A q : q \in Quienes(cola) <=> \E i \in DOMAIN cola : cola[i].proceso = q
    <2>1. ASSUME NEW q \in Quienes(cola) PROVE \E i \in DOMAIN cola : cola[i].proceso = q
      <3>1. PICK k \in DOMAIN Entran(cola) : q = Entran(cola)[k].proceso
        BY <1>2
      <3>2. PICK j \in DOMAIN cola : Entran(cola)[k] = cola[j]
        BY <1>1
      <3> QED BY <3>1, <3>2
    <2>2. ASSUME NEW i \in DOMAIN cola PROVE cola[i].proceso \in Quienes(cola)
      <3>1. PICK k \in DOMAIN Entran(cola) : Entran(cola)[k] = cola[i]
        BY <1>1
      <3>2. Entran(cola)[k].proceso \in Quienes(cola)
        BY <1>2
      <3> QED BY <3>1, <3>2
    <2> QED BY <2>1, <2>2
  <1>4. cola[1].modo \in Modos
    BY <1>1 DEF Espera
  <1>5. \A k \in DOMAIN Entran(cola) : k # 1 => cola[1].modo = "R"
    <2> SUFFICES ASSUME NEW k \in DOMAIN Entran(cola), k # 1, cola[1].modo = "W" PROVE FALSE
      BY <1>4 DEF Modos
    <2>1. Len(Entran(cola)) = 1
      BY <1>1
    <2> QED BY <1>1, <2>1
  <1>6. Entran(cola)[1] = cola[1]
    BY <1>1
  <1>7. \A i \in DOMAIN cola : cola[i] = cola[1] \/ (cola[1].modo = "R" /\ cola[i].modo = "R")
    <2> SUFFICES ASSUME NEW i \in DOMAIN cola
                 PROVE  cola[i] = cola[1] \/ (cola[1].modo = "R" /\ cola[i].modo = "R")
      OBVIOUS
    <2>1. PICK k \in DOMAIN Entran(cola) : Entran(cola)[k] = cola[i]
      BY <1>1
    <2>2. CASE k = 1
      BY <1>6, <2>1, <2>2
    <2>3. CASE k # 1
      <3>1. cola[1].modo = "R"
        BY <1>5, <2>3
      <3>2. \E j \in DOMAIN cola : Entran(cola)[k] = cola[j] /\ cola[j].modo = "R"
        BY <1>1, <2>3
      <3> QED BY <2>1, <3>1, <3>2
    <2> QED BY <2>2, <2>3
  <1>8. ASSUME cola[1].modo = "R" PROVE Los(cola, "W") = <<>>
    <2>1. \A i \in 1 .. m : cola[i].modo = "R"
      BY <1>0, <1>7, <1>8
    <2> DEFINE l == Los(cola, "W")
    <2>2. l \in Seq(Espera) /\ \E w : Lugares(w, l, cola, "W")
      BY LosTipo
    <2> HIDE DEF l
    <2>3. PICK w : Lugares(w, l, cola, "W")
      BY <2>2
    <2>4. \A i \in 1 .. Len(l) : w[i] \in 1 .. m /\ cola[w[i]].modo = "W"
      BY <2>3 DEF Lugares
    <2>5. \A i \in 1 .. Len(l) : FALSE
      BY <2>1, <2>4
    <2>6. l = <<>>
      BY <2>2, <2>5
    <2> QED BY <2>6 DEF l
  <1>9. ASSUME cola[1].modo = "W" PROVE Tail(cola) = <<>>
    <2>1. \A i \in DOMAIN cola : cola[i] = cola[1]
      BY <1>7, <1>9
    <2>2. \A i \in DOMAIN cola : i = 1
      BY <1>0, <2>1
    <2>3. m = 1
      BY <1>0, <2>2
    <2>4. Len(Tail(cola)) = 0 /\ Tail(cola) \in Seq(Espera)
      BY <2>3
    <2> QED BY <2>4, EmptySeq
  <1> QED BY <1>1, <1>3, <1>4, <1>7, <1>8, <1>9

\* kf_close hands the file over to those who wait.
LEMMA CerrarEntregaContrato ==
  ASSUME Tipo, Lugar, Cuenta, Exacta, EnContrato, EnContrato', NEW p \in Procesos,
         CerrarEntrega(p), fuera \subseteq fuera'
  PROVE  Exacta' /\ PasoDeCerrojo
  <1> DEFINE g == exec.g
             e == Soltada(globales[g], archivos_abiertos[p])
             cola == globales[g].colabloqueado
             n == Len(globales)
             resto == RemoveFirst(lista_archivos_abiertos, g)
  <1>1. DeCierre(p, g, e, cola, n, resto)
    BY DEF DeCierre
  <1>2. cola = globales[g].colabloqueado /\ n = Len(globales) /\ g = exec.g
    OBVIOUS
  <1>3. Suelta(p, Abren(cola))
    BY <1>1, EntregaEs
  <1> HIDE DEF g, e, cola, n, resto
  <1>4. Limpio'
    BY DEF EnContrato, Limpio
  <1>5. /\ cola # <<>> /\ cola \in Seq(Espera) /\ Escritores(cola) = <<>>
        /\ cola[1].modo = "W" => Lectores(cola) = <<>>
        /\ Cuentan = {p} /\ lista_archivos_abiertos = <<g>>
        /\ lista_archivos_abiertos' = <<n + 1>>
        /\ globales'[n + 1].contador = Len(Lectores(cola)) + 1
        /\ globales'[n + 1].colabloqueado = <<>>
        /\ globales'[n + 1].lock = cola[1].modo
        /\ p \notin Quienes(cola) /\ Quienes(cola) \subseteq Procesos
        /\ \A q \in Quienes(cola) : abierto'[q] = cola[1].modo
        /\ Cuentan' = Quienes(cola)
        /\ Cardinality(Quienes(cola)) = Len(Lectores(cola)) + 1
        /\ salida' = salida
    BY <1>1, <1>4, EntregaLimpia
  <1>6. \A q \in Procesos :
          /\ archivos_abiertos'[q] <=> q # p /\ (archivos_abiertos[q] \/ q \in Quienes(cola))
          /\ abierto'[q] = IF q = p THEN "no"
                           ELSE IF q \in Quienes(cola) THEN Abren(cola)[q] ELSE abierto[q]
          /\ estado'[q] = IF q \in Quienes(cola) THEN "ready" ELSE estado[q]
    BY <1>1, <1>4, EntregaLimpia
  <1>7. Regla(g)
    <2>1. (\A h : <<h>> = <<g>> => h = g) /\ <<>> # <<g>>
      OBVIOUS
    <2> QED BY <1>5, <2>1, EnRegla DEF Regla, Vacia
  <1>8. /\ estado[p] = "exec" /\ abierto[p] # "no" /\ salida.proceso # p /\ n \in Nat
    <2>1. exec.proceso = p /\ exec.paso = "cerrar"
      BY DEF CerrarEntrega, EnPaso
    <2> QED BY <1>2, <2>1, EnManos, LenTipo, NadieNoEsProceso DEF Lugar, LugarExec, Tipo
  <1>9. \A q \in Procesos : q # p => abierto[q] = "no"
    BY <1>5, <1>7 DEF Regla
  <1>10. /\ cola \in Seq(Espera)
         /\ \A i, j \in DOMAIN cola : cola[i].proceso = cola[j].proceso => i = j
         /\ \A i \in DOMAIN cola : estado[cola[i].proceso] = "archivo"
    <2>1. g \in DOMAIN globales
      BY <1>7 DEF Regla
    <2>2. cola = globales[g].colabloqueado
      BY <1>2
    <2> QED BY <2>1, <2>2, ColaDeEntrada
  <1>11. EnTabla' = globales'[n + 1] /\ Esperando' = <<>> /\ Esperando = cola
    <2>1. buscarArchivoGlobal' = n + 1 /\ n + 1 # NULL
      BY <1>5, <1>8 DEF buscarArchivoGlobal, NULL
    <2>2. EnTabla' = globales'[n + 1]
      BY <1>5 DEF EnTabla
    <2> QED BY <1>2, <1>5, <1>7, <2>1, <2>2 DEF Esperando, Regla
  <1>12. /\ \A q : q \in Quienes(cola) <=> \E i \in DOMAIN cola : cola[i].proceso = q
         /\ \A i \in DOMAIN cola :
              cola[i] = cola[1] \/ (cola[1].modo = "R" /\ cola[i].modo = "R")
         /\ cola[1].modo = "R" => Los(cola, "W") = <<>>
         /\ cola[1].modo = "W" => Tail(cola) = <<>>
         /\ Head(cola) = cola[1] /\ cola[1].modo \in Modos
    BY <1>5, <1>10, TodosEntran
  <1>13. Exacta'
    <2>1. Cardinality(Cuentan') = EnTabla'.contador
      BY <1>5, <1>11
    <2>2. EnTabla'.lock = "W" => \E q \in Procesos : abierto'[q] = "W"
      <3>1. cola[1].proceso \in Quienes(cola)
        BY <1>5, <1>12
      <3> QED BY <1>5, <1>11, <3>1
    <2>3. \A q \in Procesos : estado'[q] = "exit" => abierto'[q] = "no"
      BY <1>6, <1>8, <1>9
    <2>4. salida'.proceso # Nadie => abierto'[salida'.proceso] = "no"
      <3>1. salida.proceso # Nadie => salida.proceso \in Procesos /\ estado[salida.proceso] = "exit"
        BY DEF Tipo, TipoHilos, DeSalida, Lugar, LugarSalida
      <3>2. \A q \in Quienes(cola) : estado'[q] # "exit"
        BY <1>5, <1>6
      <3>3. salida.proceso # Nadie => salida.proceso \notin Quienes(cola)
        <4>1. \A i \in DOMAIN cola : estado[cola[i].proceso] = "archivo"
          BY <1>10
        <4> QED BY <1>12, <3>1, <4>1
      <3> QED BY <1>5, <1>6, <1>8, <1>9, <3>1, <3>3
    <2> QED BY <2>1, <2>2, <2>3, <2>4 DEF Exacta
  <1>14. Contrato!Entregar(p)
    <2>1. Contrato!Duenos = {p}
      BY <1>8, <1>9 DEF Contrato!Duenos
    <2>2. Contrato!Los(cola, "W") = Los(cola, "W")
      BY DEF Contrato!Los, Los
    <2> DEFINE nuevos == {c \in Contrato!ToSet(cola) :
                 c = Head(cola) \/ (Head(cola).modo = "R" /\ c.modo = "R")}
    <2>3. \A q : (\E c \in nuevos : c.proceso = q) <=> q \in Quienes(cola)
      <3>1. \A c : c \in nuevos <=> \E i \in DOMAIN cola : c = cola[i]
        BY <1>12 DEF Contrato!ToSet
      <3> HIDE DEF nuevos
      <3> QED BY <1>12, <3>1
    <2>4. <<>> = IF Head(cola).modo = "R" THEN Contrato!Los(cola, "W") ELSE Tail(cola)
      BY <1>12, <2>2 DEF Modos
    <2>5. abierto' = [q \in Procesos |->
                        IF q = p THEN "no"
                        ELSE IF \E c \in nuevos : c.proceso = q THEN Head(cola).modo ELSE abierto[q]]
      <3> HIDE DEF nuevos
      <3>1. abierto' = [q \in Procesos |-> abierto'[q]]
        BY <1>3 DEF Suelta
      <3>2. \A q \in Procesos : abierto'[q] =
              IF q = p THEN "no"
              ELSE IF \E c \in nuevos : c.proceso = q THEN Head(cola).modo ELSE abierto[q]
        BY <1>5, <1>6, <1>12, <2>3
      <3> QED BY <3>1, <3>2
    <2> QED BY <1>5, <1>11, <2>1, <2>4, <2>5 DEF Contrato!Entregar
  <1>15. Contrato!Cumplir
    BY <1>14 DEF Contrato!Cumplir
  <1> QED BY <1>13, <1>15 DEF PasoDeCerrojo

\* exit_pcb finds the counter at zero and frees the entry: the lock is free, if it was not yet.
LEMMA LiberarContrato ==
  ASSUME Tipo, Lugar, Cuenta, Exacta, EnContrato, EnContrato', NEW p \in Procesos,
         LiberarEntrada(p)
  PROVE  Exacta' /\ PasoDeCerrojo
  <1> DEFINE g == salida.g
  <1>1. /\ salida.proceso = p /\ p # Nadie /\ Muere(p) /\ estado[p] = "exit"
        /\ \/ /\ globales[g].contador <= 0
              /\ lista_archivos_abiertos' = RemoveFirst(lista_archivos_abiertos, g)
              /\ globales' = [globales EXCEPT ![g].liberada = TRUE]
              /\ globales[g].colabloqueado = <<>>
           \/ /\ globales[g].contador > 0
              /\ UNCHANGED <<lista_archivos_abiertos, globales>>
    <2>1. "muere_con_espera" \notin fuera'
      BY DEF EnContrato
    <2>2. salida.proceso = p /\ p # Nadie
      BY NadieNoEsProceso DEF LiberarEntrada
    <2>3. estado[p] = "exit"
      BY <2>2 DEF Lugar, LugarSalida
    <2> QED BY <2>1, <2>2, <2>3 DEF LiberarEntrada
  <1>2. globales \in Seq(Entradas) /\ g \in DOMAIN globales /\ globales[g] \in Entradas
    <2>1. g \in 0 .. Len(globales) /\ g # NULL
      BY <1>1 DEF Tipo, TipoHilos, DeSalida, Lugar, LugarSalida
    <2>2. g \in DOMAIN globales
      BY <2>1, LenTipo DEF Tipo, NULL
    <2> QED BY <2>2, EnColaTipo DEF Tipo, TipoTabla
  <1>3. /\ \A q \in Procesos : q # p =>
             /\ estado'[q] = estado[q] /\ abierto'[q] = abierto[q]
             /\ archivos_abiertos'[q] = archivos_abiertos[q]
        /\ abierto'[p] = "no" /\ salida'.proceso = Nadie /\ estado'[p] = "fin"
        /\ abierto' = [abierto EXCEPT ![p] = "no"]
    BY <1>1 DEF Muere, SalidaLibre, Tipo, TipoProcesos
  <1>4. Cuentan' = Cuentan /\ p \notin Cuentan
    <2>1. \A q \in Procesos : q # p => q # salida.proceso
      BY <1>1
    <2>2. p \notin Cuentan /\ p \notin Cuentan'
      BY <1>1, <1>3 DEF Cuentan
    <2>3. \A q \in Procesos : q # Nadie
      BY NadieNoEsProceso
    <2> QED BY <1>3, <2>1, <2>2, <2>3 DEF Cuentan
  <1>5. \A q \in Procesos : estado'[q] = "exit" /\ ~archivos_abiertos'[q] => abierto'[q] = "no"
    BY <1>3 DEF Exacta
  <1>6. \A h \in DOMAIN globales :
          /\ globales'[h].lock = globales[h].lock /\ globales'[h].contador = globales[h].contador
          /\ globales'[h].colabloqueado = globales[h].colabloqueado
    <2>1. CASE globales' = globales
      BY <2>1
    <2>2. CASE globales' = [globales EXCEPT ![g].liberada = TRUE]
      <3> DEFINE e == [globales[g] EXCEPT !.liberada = TRUE]
      <3>1. /\ e \in Entradas /\ e.lock = globales[g].lock
            /\ e.contador = globales[g].contador /\ e.colabloqueado = globales[g].colabloqueado
        BY <1>2 DEF Entradas
      <3>2. globales' = [globales EXCEPT ![g] = e]
        BY <2>2
      <3> HIDE DEF e, g
      <3> QED BY <1>2, <3>1, <3>2
    <2> QED BY <1>1, <2>1, <2>2
  <1> HIDE DEF g
  <1>7. CASE abierto[p] # "no"
    <2>1. Regla(g) /\ Cuentan = {}
      <3>1. ~Vacia
        BY <1>7 DEF Vacia
      <3>2. PICK h \in DOMAIN globales : Regla(h)
        BY <3>1, EnRegla
      <3>3. h = g /\ Cuentan = {}
        BY <1>4, <1>7, <3>2 DEF Regla, g
      <3> QED BY <3>2, <3>3
    <2>2. globales[g].contador = 0
      BY <2>1, FS_EmptySet DEF Regla
    <2>3. lista_archivos_abiertos' = <<>> /\ globales[g].colabloqueado = <<>>
      BY <1>1, <2>1, <2>2, RemoveFirstUna DEF Regla
    <2>4. Esperando = <<>> /\ Esperando' = <<>>
      BY <2>1, <2>3 DEF Regla, Esperando, buscarArchivoGlobal
    <2>5. Exacta'
      BY <1>3, <1>5, <2>3 DEF Exacta
    <2>6. Contrato!Entregar(p)
      <3>1. Contrato!Duenos = {p}
        BY <1>1, <1>7, <2>1 DEF Contrato!Duenos, Regla
      <3> QED BY <1>3, <2>4, <3>1 DEF Contrato!Entregar
    <2>7. Contrato!Cumplir
      BY <2>6 DEF Contrato!Cumplir
    <2> QED BY <2>5, <2>7 DEF PasoDeCerrojo
  <1>8. CASE abierto[p] = "no"
    <2>1. abierto' = abierto
      BY <1>3, <1>8 DEF Tipo, TipoProcesos
    <2>2. CASE Vacia
      <3>1. lista_archivos_abiertos' = <<>>
        BY <1>1, <2>2, RemoveFirstUna DEF Vacia
      <3>2. Esperando' = <<>>
        BY <3>1 DEF Esperando, buscarArchivoGlobal
      <3>3. Exacta'
        BY <1>3, <1>5, <3>1 DEF Exacta
      <3> QED BY <2>1, <2>2, <3>2, <3>3 DEF PasoDeCerrojo, Vacia
    <2>3. ASSUME NEW h \in DOMAIN globales, Regla(h) PROVE Exacta' /\ PasoDeCerrojo
      <3>1. CASE lista_archivos_abiertos' = <<h>>
        <4>1. buscarArchivoGlobal' = h /\ EnTabla' = globales'[h] /\ h # NULL
          BY <2>3, <3>1 DEF buscarArchivoGlobal, EnTabla, Regla
        <4>2. Esperando' = Esperando
          BY <1>6, <2>3, <4>1 DEF Esperando, Regla
        <4>3. Exacta'
          <5>1. Cardinality(Cuentan') = EnTabla'.contador
            BY <1>4, <1>6, <2>3, <4>1 DEF Regla
          <5>2. EnTabla'.lock = "W" => \E q \in Procesos : abierto'[q] = "W"
            BY <1>6, <2>1, <2>3, <4>1 DEF Regla
          <5> QED BY <1>3, <1>5, <5>1, <5>2 DEF Exacta
        <4> QED BY <2>1, <4>2, <4>3 DEF PasoDeCerrojo
      <3>2. CASE lista_archivos_abiertos' # <<h>>
        <4>1. lista_archivos_abiertos = <<h>> /\ Esperando = globales[h].colabloqueado
          BY <2>3 DEF Regla
        <4>2. h = g /\ lista_archivos_abiertos' = <<>> /\ globales[g].colabloqueado = <<>>
          BY <1>1, <3>2, <4>1, RemoveFirstUna
        <4>3. Esperando' = Esperando
          BY <4>1, <4>2 DEF Esperando, buscarArchivoGlobal
        <4>4. Exacta'
          BY <1>3, <1>5, <4>2 DEF Exacta
        <4> QED BY <2>1, <4>3, <4>4 DEF PasoDeCerrojo
      <3> QED BY <3>1, <3>2
    <2> QED BY <2>2, <2>3, EnRegla
  <1> QED BY <1>3, <1>7, <1>8

-----------------------------------------------------------------------------

\* Within the contract each step is one of the lock, or none that it can see.
LEMMA PasoContrato ==
  ASSUME Tipo, Lugar, Cuenta, Exacta, [Next]_vars, EnContrato'
  PROVE  Exacta' /\ PasoDeCerrojo
  <1>0. EnContrato /\ fuera \subseteq fuera'
    BY EnContratoAntes, FueraCrece
  <1>1. CASE UNCHANGED vars
    <2>1. UNCHANGED <<abierto, Esperando>>
      BY <1>1 DEF vars, Esperando, buscarArchivoGlobal
    <2>2. Exacta'
      BY <1>1 DEF vars, Exacta, EnContrato, EnTabla, Cuentan
    <2> QED BY <2>1, <2>2 DEF PasoDeCerrojo
  <1>2. ASSUME NEW p \in Procesos, Ejecutar(p) PROVE Exacta' /\ PasoDeCerrojo
    <2>1. CASE Elegir(p) \/ Desalojar(p) \/ Terminar(p) \/ Cerrar(p) \/ CerrarRoto(p)
               \/ (\E bloquea \in BOOLEAN : Usar(p, bloquea))
               \/ (\E modo \in Modos : Abrir(p, modo)) \/ Escribir(p)
      BY <1>0, <2>1, QuietoContrato
    <2>2. CASE AbrirNuevo(p) \/ AbrirCompartido(p)
      BY <1>0, <2>2, AbrirNuevoContrato, AbrirCompartidoContrato
    <2>3. CASE CerrarDeVarios(p)
      BY <2>3 DEF CerrarDeVarios, EnContrato
    <2>4. CASE CerrarEntrega(p) \/ CerrarFin(p)
      BY <1>0, <2>4, CerrarEntregaContrato, CerrarFinContrato
    <2> QED BY <1>2, <2>1, <2>2, <2>3, <2>4 DEF Ejecutar
  <1>3. ASSUME NEW p \in Procesos, RecibirOpFS(p) \/ Salida(p) PROVE Exacta' /\ PasoDeCerrojo
    BY <1>0, <1>3, QuietoContrato, DestruirContrato, LiberarContrato DEF Salida
  <1> QED BY <1>1, <1>2, <1>3 DEF Next

\* While the use keeps to the contract the table is a lock of one writer or many readers:
\* what kf_open, kf_close and pcb_destroy do to it is what Cerrojo allows.
THEOREM LaTablaEsUnCerrojo == Spec => EsUnCerrojo
  <1>1. Init => Exacta /\ Contrato!Init
    <2> SUFFICES ASSUME Init PROVE Exacta /\ Contrato!Init
      OBVIOUS
    <2>1. Esperando = <<>> /\ EnContrato
      BY DEF Init, Esperando, buscarArchivoGlobal, EnContrato
    <2>2. Exacta
      BY DEF Init, Exacta, SalidaLibre
    <2> QED BY <2>1, <2>2 DEF Init, Contrato!Init
  <1>2. Tipo /\ Lugar /\ Cuenta /\ Exacta /\ [Next]_vars => Exacta'
    <2>1. ~EnContrato' => Exacta'
      BY DEF Exacta
    <2> QED BY <2>1, PasoContrato
  <1>3. Tipo /\ Lugar /\ Cuenta /\ Exacta /\ [Next]_vars => [Contrato!Next]_(Contrato!cerrojoVars)
    <2> SUFFICES ASSUME Tipo, Lugar, Cuenta, Exacta, [Next]_vars
                 PROVE  [Contrato!Next]_(Contrato!cerrojoVars)
      OBVIOUS
    <2>1. CASE ~EnContrato'
      BY <2>1 DEF Contrato!Next
    <2>2. CASE EnContrato'
      <3>1. EnContrato /\ PasoDeCerrojo
        BY <2>2, EnContratoAntes, PasoContrato
      <3>2. CASE Contrato!Cumplir
        BY <2>2, <3>1, <3>2 DEF Contrato!Next
      <3>3. CASE UNCHANGED <<abierto, Esperando>>
        <4>1. EnContrato' = EnContrato
          BY <2>2, <3>1 DEF EnContrato
        <4> QED BY <3>3, <4>1 DEF Contrato!cerrojoVars
      <3> QED BY <3>1, <3>2, <3>3 DEF PasoDeCerrojo
    <2> QED BY <2>1, <2>2
  <1> QED BY <1>1, <1>2, <1>3, SiempreCuenta, PTL DEF Spec, EsUnCerrojo, Contrato!Spec

=============================================================================
