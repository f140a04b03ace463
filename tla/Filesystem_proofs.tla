-------------------------- MODULE Filesystem_proofs --------------------------
(***************************************************************************)
(* Proofs about Filesystem for any processes, files, sizes and disk: types, *)
(* one FCB per name, and the stream of answers of memoria.                 *)
(***************************************************************************)
EXTENDS Filesystem, Lemas

-----------------------------------------------------------------------------
(* The inductive invariant: types *)

OpsMem  == {"F_WRITE", "F_READ"}
OpsAbre == {"F_OPEN", "F_CREATE"}
Fcbs    == [nombre : Archivos, tam : 0 .. MaxBloques, ini : Posicion]
Pedidos == [op : OpsAbre \cup OpsMem \cup {"F_TRUNCATE"}, archivo : Archivos, arg : 0 .. MaxBloques]
Hilos   == [paso : Pasos, bloque : Posicion, cuenta : 0 .. MaxBloques, valor : Palabras \cup Posicion]
Envios  == [op : OpsMem, proceso : Procesos, dato : Palabras]
Fichas  == [tipo : {"codigo"}, valor : OpsMem] \cup [tipo : {"buffer"}, valor : Palabras]

TipoDisco ==
  /\ lista_fcb \in Seq(Fcbs) /\ restos \in BOOLEAN
  /\ fat \in [Posicion -> Posicion \cup {SinLeer}] /\ bloques \in [Posicion -> Palabras]

TipoHilos ==
  /\ hilo \in [Procesos -> Hilos]
  /\ hecho \in [Procesos -> {"no", "existe", "no existe", "error"}]
  /\ caido \in {"no", "corrido", "fcb_basura"}

TipoKernel ==
  /\ pedido \in [Procesos -> Pedidos \cup {SinPedido}]
  /\ kernel \in [proceso : Procesos \cup {Nadie}, archivo : Archivos \cup {Nadie}, falta : BOOLEAN]
  /\ abiertos \subseteq Procesos \X Archivos /\ pedidos \in 0 .. MaxPedidos

TipoMemoria ==
  /\ pagina \in [Procesos -> Palabras]
  /\ pedidos_mem \in Seq(Envios) /\ respuestas_mem \in Seq(Fichas)

Tipo == TipoDisco /\ TipoHilos /\ TipoKernel /\ TipoMemoria

-----------------------------------------------------------------------------
(* The inductive invariant: where each thread is *)

PasosTruncar == {"truncar", "inicial", "libre", "anotar", "seguir", "quitar", "fijar"}

\* The steps of the thread of each request, and what it holds at them.
Orden(p) ==
  /\ hilo[p].paso = "ninguno" <=> pedido[p] = SinPedido
  /\ hilo[p].paso = "buscar" => pedido[p].op = "F_OPEN"
  /\ hilo[p].paso = "crear" => pedido[p].op = "F_CREATE"
  /\ hilo[p].paso \in PasosTruncar => pedido[p].op = "F_TRUNCATE"
  /\ hilo[p].paso = "pedir" => pedido[p].op = "F_WRITE"
  /\ hilo[p].paso \in {"codigo", "buffer", "ubicar", "caminar"} => pedido[p].op \in OpsMem
  /\ hilo[p].paso \in {"inicial", "libre", "anotar", "seguir", "quitar"} => hilo[p].cuenta >= 1
  /\ hilo[p].paso = "anotar" => hilo[p].valor \in Posicion
  /\ hilo[p].paso \in {"ubicar", "caminar"} /\ pedido[p].op = "F_WRITE" => hilo[p].valor \in Palabras

Existe(f) == \E k \in DOMAIN lista_fcb : lista_fcb[k].nombre = f

\* Only the process inside kf_open has an F_OPEN or an F_CREATE, and what its F_OPEN did not
\* find is still missing at its F_CREATE.
Apertura ==
  /\ \A p \in Procesos : pedido[p].op \in OpsAbre =>
       kernel.proceso = p /\ ~kernel.falta /\ pedido[p].archivo = kernel.archivo
  /\ \A p \in Procesos : pedido[p].op \in OpsAbre /\ hilo[p].paso = "responder" =>
       IF hecho[p] = "existe" THEN Existe(pedido[p].archivo)
       ELSE IF pedido[p].op = "F_OPEN" THEN ~Existe(pedido[p].archivo)
       ELSE hecho[p] = "error"
  /\ \A p \in Procesos : hilo[p].paso = "crear" => ~Existe(pedido[p].archivo)
  /\ kernel.falta => kernel.archivo \in Archivos /\ ~Existe(kernel.archivo)

\* A process asks for what it opened, and what was opened exists.
Abiertos ==
  /\ \A v \in abiertos : Existe(v[2])
  /\ \A p \in Procesos : pedido[p].op \in OpsMem \cup {"F_TRUNCATE"} => Existe(pedido[p].archivo)

Lugar == (\A p \in Procesos : Orden(p)) /\ Apertura /\ Abiertos /\ NombresUnicos

IInv == Tipo /\ Lugar

-----------------------------------------------------------------------------
(* The inductive invariant: the socket to memoria *)

\* The socket to memoria while nobody crossed: who waits for the code has its request or the
\* two tokens of its answer on the way, who waits for the buffer has the buffer.
EsperaCodigo(p) ==
  \/ /\ Len(pedidos_mem) = 1 /\ pedidos_mem[1].op = pedido[p].op /\ respuestas_mem = <<>>
  \/ /\ pedidos_mem = <<>> /\ Len(respuestas_mem) = 2
     /\ respuestas_mem[1] = [tipo |-> "codigo", valor |-> pedido[p].op]
     /\ respuestas_mem[2].tipo = "buffer"

EsperaBuffer ==
  pedidos_mem = <<>> /\ Len(respuestas_mem) = 1 /\ respuestas_mem[1].tipo = "buffer"

UnoPorMemoria == \A p, q \in EnCurso(OpsMem) : p = q

Correo ==
  /\ \A p \in Procesos : hilo[p].paso = "codigo" => EsperaCodigo(p)
  /\ \A p \in Procesos : hilo[p].paso = "buffer" => EsperaBuffer
  /\ (\A p \in Procesos : hilo[p].paso \notin {"codigo", "buffer"}) =>
       pedidos_mem = <<>> /\ respuestas_mem = <<>>
  /\ caido # "corrido"

Socket == "memoria" \notin fuera => UnoPorMemoria /\ Correo

-----------------------------------------------------------------------------
(* The constants, and the operators on the FCBs, the FAT and the threads *)

\* MaxBloques bounds the sizes, and the positions are what they look like.
LEMMA Medidas ==
  /\ MaxBloques \in Nat /\ Tamanios \subseteq 0 .. MaxBloques
  /\ TamanioFat \in Nat /\ TamanioFat >= 2
  /\ 0 \in Posicion /\ -1 \in Posicion /\ TamanioFat - 1 \in Posicion
  /\ Posicion \subseteq Int /\ SinLeer \notin Posicion
  <1>1. Max(Tamanios) \in Tamanios /\ \A m \in Tamanios : m <= Max(Tamanios)
    BY FilesystemSupuestos, MaxMin
  <1>2. MaxBloques \in Nat /\ Tamanios \subseteq 0 .. MaxBloques
    <2> DEFINE M == Max(Tamanios)
    <2>1. M \in Nat /\ \A m \in Tamanios : m \in Nat /\ m <= M
      BY <1>1, FilesystemSupuestos
    <2> HIDE DEF M
    <2>2. M \in Nat /\ Tamanios \subseteq 0 .. M
      BY <2>1
    <2> QED BY <2>2 DEF M, MaxBloques
  <1>3. TamanioFat \in Nat /\ TamanioFat >= 2
    BY FilesystemSupuestos
  <1> QED BY <1>2, <1>3 DEF Posicion, SinLeer

LEMMA NadieFuera == Nadie \notin Procesos /\ Basura \in Palabras /\ Procesos \subseteq Palabras
  BY FilesystemSupuestos DEF Palabras

\* conseguir_id_fcb: the place of a name that exists, 0 for any other.
LEMMA IdFcb ==
  ASSUME lista_fcb \in Seq(Fcbs), NEW f
  PROVE  /\ Existe(f) => /\ conseguir_id_fcb(f) \in DOMAIN lista_fcb
                         /\ lista_fcb[conseguir_id_fcb(f)].nombre = f
         /\ ~Existe(f) => conseguir_id_fcb(f) = 0
  <1> DEFINE con == {k \in DOMAIN lista_fcb : lista_fcb[k].nombre = f}
  <1>1. CASE con = {}
    BY <1>1 DEF conseguir_id_fcb, Existe
  <1>2. CASE con # {}
    <2>1. con \in SUBSET Nat
      OBVIOUS
    <2>2. Min(con) \in con
      <3> HIDE DEF con
      <3> QED BY <1>2, <2>1, MaxMin
    <2>3. conseguir_id_fcb(f) = Min(con)
      BY <1>2 DEF conseguir_id_fcb
    <2> QED BY <1>2, <2>2, <2>3 DEF Existe
  <1> QED BY <1>1, <1>2

\* The same, after a step.
LEMMA IdFcbLuego ==
  ASSUME lista_fcb' \in Seq(Fcbs), NEW f
  PROVE  /\ Existe(f)' => /\ conseguir_id_fcb(f)' \in DOMAIN lista_fcb'
                          /\ lista_fcb'[conseguir_id_fcb(f)'].nombre = f
         /\ ~Existe(f)' => conseguir_id_fcb(f)' = 0
  <1> DEFINE con == {k \in DOMAIN lista_fcb' : lista_fcb'[k].nombre = f}
  <1>1. CASE con = {}
    BY <1>1 DEF conseguir_id_fcb, Existe
  <1>2. CASE con # {}
    <2>1. con \in SUBSET Nat
      OBVIOUS
    <2>2. Min(con) \in con
      <3> HIDE DEF con
      <3> QED BY <1>2, <2>1, MaxMin
    <2>3. conseguir_id_fcb(f)' = Min(con)
      BY <1>2 DEF conseguir_id_fcb
    <2> QED BY <1>2, <2>2, <2>3 DEF Existe
  <1> QED BY <1>1, <1>2

\* A field of one FCB is written.
LEMMA FcbCambia ==
  ASSUME lista_fcb \in Seq(Fcbs), NEW k \in DOMAIN lista_fcb, NEW r \in Fcbs,
         r.nombre = lista_fcb[k].nombre, lista_fcb' = [lista_fcb EXCEPT ![k] = r]
  PROVE  /\ lista_fcb' \in Seq(Fcbs) /\ DOMAIN lista_fcb' = DOMAIN lista_fcb
         /\ lista_fcb'[k] = r
         /\ \A j \in DOMAIN lista_fcb : j # k => lista_fcb'[j] = lista_fcb[j]
         /\ \A j \in DOMAIN lista_fcb : lista_fcb'[j].nombre = lista_fcb[j].nombre
  OBVIOUS

\* crear_fcb adds one at the end.
LEMMA FcbCrece ==
  ASSUME lista_fcb \in Seq(Fcbs), NEW r \in Fcbs, lista_fcb' = Append(lista_fcb, r)
  PROVE  /\ lista_fcb' \in Seq(Fcbs) /\ DOMAIN lista_fcb' = 1 .. Len(lista_fcb) + 1
         /\ DOMAIN lista_fcb = 1 .. Len(lista_fcb)
         /\ lista_fcb'[Len(lista_fcb) + 1] = r
         /\ \A j \in DOMAIN lista_fcb : lista_fcb'[j] = lista_fcb[j]
  OBVIOUS

LEMMA FcbTipo ==
  ASSUME lista_fcb \in Seq(Fcbs), NEW k \in DOMAIN lista_fcb
  PROVE  /\ lista_fcb[k] \in Fcbs /\ lista_fcb[k].nombre \in Archivos
         /\ lista_fcb[k].tam \in 0 .. MaxBloques /\ lista_fcb[k].ini \in Posicion
  <1>1. lista_fcb[k] \in Fcbs
    OBVIOUS
  <1> QED BY <1>1 DEF Fcbs

\* What is read from the FAT is a position, and so is the block that is found free.
LEMMA LeeFat ==
  ASSUME Tipo, NEW b \in Posicion
  PROVE  /\ posicion_en_fat(b) \subseteq Posicion
         /\ fat[b] # SinLeer => posicion_en_fat(b) = {fat[b]}
         /\ fat[b] \in Posicion \cup {SinLeer}
  BY DEF Tipo, TipoDisco, posicion_en_fat

LEMMA PrimerLibre ==
  ASSUME Tipo
  PROVE  /\ ~DiscoLleno => Min(Libres) \in Libres /\ obtener_primer_bloque_libre = {Min(Libres)}
         /\ Libres \subseteq Posicion \cap 1 .. TamanioFat - 1
         /\ obtener_primer_bloque_libre \subseteq Posicion
  <1>1. Libres \subseteq Posicion \cap 1 .. TamanioFat - 1
    BY Medidas DEF Libres, Posicion
  <1>2. ~DiscoLleno => Min(Libres) \in Libres
    <2>1. Libres \in SUBSET Nat
      BY <1>1
    <2> QED BY <2>1, MaxMin DEF DiscoLleno
  <1> QED BY <1>1, <1>2, Medidas DEF obtener_primer_bloque_libre

LEMMA EscribeFat ==
  ASSUME Tipo, NEW b \in Posicion, NEW v \in Posicion, modificar_en_fat(b, v)
  PROVE  /\ fat' \in [Posicion -> Posicion \cup {SinLeer}] /\ fat'[b] = v
         /\ b # -1 => \A k \in Posicion : k # b => fat'[k] = fat[k]
         /\ \A k \in Posicion : k # b => fat'[k] \in {fat[k], 0}
  BY Medidas DEF Tipo, TipoDisco, modificar_en_fat

\* The thread of p moves and the others do not.
LEMMA HiloPone ==
  ASSUME hilo \in [Procesos -> Hilos], NEW p \in Procesos, NEW h \in Hilos, Ir(p, h)
  PROVE  /\ hilo' \in [Procesos -> Hilos] /\ hilo'[p] = h
         /\ \A q \in Procesos : q # p => hilo'[q] = hilo[q]
  BY DEF Ir

-----------------------------------------------------------------------------
(* What each step of a thread does to it *)

\* The thread of p is left in this state and the others in theirs.
Queda(p, s, b, c, v) ==
  /\ hilo' \in [Procesos -> Hilos]
  /\ hilo'[p].paso = s /\ hilo'[p].bloque = b /\ hilo'[p].cuenta = c /\ hilo'[p].valor = v
  /\ \A q \in Procesos : q # p => hilo'[q] = hilo[q]

LEMMA HiloCampos ==
  ASSUME Tipo, NEW p \in Procesos
  PROVE  /\ hilo[p] \in Hilos /\ hilo[p].paso \in Pasos /\ hilo[p].bloque \in Posicion
         /\ hilo[p].cuenta \in 0 .. MaxBloques /\ hilo[p].valor \in Palabras \cup Posicion
  <1>1. hilo[p] \in Hilos
    BY DEF Tipo, TipoHilos
  <1> QED BY <1>1 DEF Hilos

LEMMA QuedaEn ==
  ASSUME Tipo, NEW p \in Procesos, NEW h \in Hilos, Ir(p, h)
  PROVE  Queda(p, h.paso, h.bloque, h.cuenta, h.valor)
  BY HiloPone DEF Queda, Tipo, TipoHilos

LEMMA PasoQueda ==
  ASSUME Tipo, NEW p \in Procesos, NEW s \in Pasos, Paso(p, s)
  PROVE  Queda(p, s, hilo[p].bloque, hilo[p].cuenta, hilo[p].valor)
  <1> DEFINE h == hilo[p]
             r == [h EXCEPT !.paso = s]
  <1>1. h \in Hilos
    BY HiloCampos
  <1>2. Ir(p, r)
    BY DEF Paso
  <1> HIDE DEF h
  <1>3. r \in Hilos /\ r.paso = s /\ r.bloque = h.bloque /\ r.cuenta = h.cuenta /\ r.valor = h.valor
    BY <1>1 DEF Hilos
  <1> HIDE DEF r
  <1>4. Queda(p, s, h.bloque, h.cuenta, h.valor)
    BY <1>2, <1>3, QuedaEn
  <1> QED BY <1>4 DEF h

\* A request that arrives, or is answered, leaves the thread as new.
LEMMA LibreQueda ==
  ASSUME Tipo, NEW p \in Procesos, NEW s \in Pasos, hilo' = [hilo EXCEPT ![p] = HiloEn(s)]
  PROVE  Queda(p, s, 0, 0, Basura)
  <1> DEFINE r == HiloEn(s)
  <1>1. r \in Hilos /\ r.paso = s /\ r.bloque = 0 /\ r.cuenta = 0 /\ r.valor = Basura
    BY Medidas, NadieFuera DEF HiloEn, HiloLibre, Hilos
  <1>2. Ir(p, r)
    BY DEF Ir
  <1> HIDE DEF r
  <1> QED BY <1>1, <1>2, QuedaEn

LEMMA LibreEs == HiloLibre = HiloEn("ninguno")
  BY DEF HiloEn, HiloLibre

LEMMA PedidoCampos ==
  ASSUME Tipo, NEW p \in Procesos, pedido[p] # SinPedido
  PROVE  /\ pedido[p] \in Pedidos /\ pedido[p].archivo \in Archivos
         /\ pedido[p].arg \in 0 .. MaxBloques
  <1>1. pedido[p] \in Pedidos
    BY DEF Tipo, TipoKernel
  <1> QED BY <1>1 DEF Pedidos

\* A thread at a step of an F_TRUNCATE or of an access works on an FCB that exists.
LEMMA FcbDelHilo ==
  ASSUME IInv, NEW p \in Procesos, pedido[p].op \in OpsMem \cup {"F_TRUNCATE"}
  PROVE  /\ Fcb(p) \in DOMAIN lista_fcb /\ lista_fcb[Fcb(p)].nombre = pedido[p].archivo
         /\ lista_fcb[Fcb(p)] \in Fcbs
         /\ lista_fcb[Fcb(p)].tam \in 0 .. MaxBloques /\ lista_fcb[Fcb(p)].ini \in Posicion
         /\ pedido[p] \in Pedidos /\ pedido[p].arg \in 0 .. MaxBloques
  <1>1. pedido[p] # SinPedido
    BY DEF SinPedido, OpsMem
  <1>2. Existe(pedido[p].archivo)
    BY DEF IInv, Lugar, Abiertos
  <1>3. lista_fcb \in Seq(Fcbs)
    BY DEF IInv, Tipo, TipoDisco
  <1>4. Fcb(p) \in DOMAIN lista_fcb /\ lista_fcb[Fcb(p)].nombre = pedido[p].archivo
    BY <1>2, <1>3, IdFcb DEF Fcb
  <1> HIDE DEF Fcb
  <1> QED BY <1>1, <1>3, <1>4, FcbTipo, PedidoCampos DEF IInv

\* The name is unique, so the place of an FCB is known by its name.
LEMMA FcbUnico ==
  ASSUME IInv, NEW k \in DOMAIN lista_fcb
  PROVE  conseguir_id_fcb(lista_fcb[k].nombre) = k
  <1> DEFINE f == lista_fcb[k].nombre
  <1>1. Existe(f)
    BY DEF Existe
  <1>2. conseguir_id_fcb(f) \in DOMAIN lista_fcb /\ lista_fcb[conseguir_id_fcb(f)].nombre = f
    BY <1>1, IdFcb DEF IInv, Tipo, TipoDisco
  <1> QED BY <1>2 DEF IInv, Lugar, NombresUnicos

-----------------------------------------------------------------------------
(* F_TRUNCATE *)

LEMMA TruncarHace ==
  ASSUME IInv, NEW p \in Procesos, Truncar(p)
  PROVE  LET fcb == lista_fcb[Fcb(p)]  n == pedido[p].arg  h == hilo[p] IN
         /\ h.paso = "truncar" /\ pedido[p].op = "F_TRUNCATE"
         /\ \/ n > fcb.tam /\ fcb.ini = 0 /\ Queda(p, "inicial", 0, n - fcb.tam, h.valor)
            \/ n > fcb.tam /\ fcb.ini # 0 /\ Queda(p, "libre", fcb.ini, n - fcb.tam, h.valor)
            \/ n < fcb.tam /\ n > 0 /\ fcb.ini # -1 /\ Queda(p, "quitar", h.bloque, n, h.valor)
            \/ /\ n <= fcb.tam /\ ~(n < fcb.tam /\ n > 0 /\ fcb.ini # -1)
               /\ Queda(p, "fijar", h.bloque, h.cuenta, h.valor)
  <1> DEFINE fcb == lista_fcb[Fcb(p)]
             n == pedido[p].arg
             h == hilo[p]
             en == IF fcb.ini = 0 THEN "inicial" ELSE "libre"
  <1>1. h.paso = "truncar"
    BY DEF Truncar, En
  <1>2. pedido[p].op = "F_TRUNCATE"
    BY <1>1 DEF IInv, Lugar, Orden, PasosTruncar
  <1>3. fcb.tam \in 0 .. MaxBloques /\ fcb.ini \in Posicion /\ n \in 0 .. MaxBloques
    BY <1>2, FcbDelHilo
  <1>4. /\ h \in Hilos
        /\ h.bloque \in Posicion /\ h.cuenta \in 0 .. MaxBloques /\ h.valor \in Palabras \cup Posicion
    BY HiloCampos DEF IInv
  <1>5. Ir(p, IF n > fcb.tam
              THEN [h EXCEPT !.paso = en, !.bloque = fcb.ini, !.cuenta = n - fcb.tam]
              ELSE IF n < fcb.tam /\ n > 0 /\ fcb.ini # -1
              THEN [h EXCEPT !.paso = "quitar", !.cuenta = n]
              ELSE [h EXCEPT !.paso = "fijar"])
    BY DEF Truncar
  <1>6. en \in Pasos /\ "quitar" \in Pasos /\ "fijar" \in Pasos
    BY DEF Pasos
  <1> HIDE DEF fcb, n, h, en
  <1>7. CASE n > fcb.tam
    <2> DEFINE r == [h EXCEPT !.paso = en, !.bloque = fcb.ini, !.cuenta = n - fcb.tam]
    <2>1. n - fcb.tam \in 0 .. MaxBloques
      BY <1>3, <1>7, Medidas
    <2>2. /\ r \in Hilos /\ r.paso = en /\ r.bloque = fcb.ini /\ r.cuenta = n - fcb.tam
          /\ r.valor = h.valor
      BY <1>3, <1>4, <1>6, <2>1 DEF Hilos
    <2>3. Ir(p, r)
      BY <1>5, <1>7
    <2> HIDE DEF r
    <2>4. Queda(p, en, fcb.ini, n - fcb.tam, h.valor)
      BY <2>2, <2>3, QuedaEn DEF IInv
    <2> QED BY <1>1, <1>2, <1>7, <2>4 DEF h, n, fcb, en
  <1>8. CASE ~(n > fcb.tam) /\ n < fcb.tam /\ n > 0 /\ fcb.ini # -1
    <2> DEFINE r == [h EXCEPT !.paso = "quitar", !.cuenta = n]
    <2>1. /\ r \in Hilos /\ r.paso = "quitar" /\ r.bloque = h.bloque /\ r.cuenta = n
          /\ r.valor = h.valor
      BY <1>3, <1>4, <1>6 DEF Hilos
    <2>2. Ir(p, r)
      BY <1>5, <1>8
    <2> HIDE DEF r
    <2>3. Queda(p, "quitar", h.bloque, n, h.valor)
      BY <2>1, <2>2, QuedaEn DEF IInv
    <2> QED BY <1>1, <1>2, <1>8, <2>3 DEF h, n, fcb
  <1>9. CASE ~(n > fcb.tam) /\ ~(n < fcb.tam /\ n > 0 /\ fcb.ini # -1)
    <2>1. Paso(p, "fijar")
      BY <1>5, <1>9 DEF Paso, h
    <2>2. Queda(p, "fijar", h.bloque, h.cuenta, h.valor)
      BY <1>6, <2>1, PasoQueda DEF IInv, h
    <2>3. n <= fcb.tam
      BY <1>3, <1>9, Medidas
    <2> QED BY <1>1, <1>2, <1>9, <2>2, <2>3 DEF h, n, fcb
  <1> QED BY <1>7, <1>8, <1>9

LEMMA BloqueInicialHace ==
  ASSUME IInv, NEW p \in Procesos, BloqueInicial(p)
  PROVE  /\ hilo[p].paso = "inicial" /\ pedido[p].op = "F_TRUNCATE"
         /\ \E b \in obtener_primer_bloque_libre :
              /\ lista_fcb' = [lista_fcb EXCEPT ![Fcb(p)].ini = b]
              /\ Queda(p, "libre", b, hilo[p].cuenta, hilo[p].valor)
         /\ fuera' = fuera \cup AvisoDiscoLleno
  <1> DEFINE h == hilo[p]
  <1>1. h.paso = "inicial" /\ pedido[p].op = "F_TRUNCATE"
    BY DEF BloqueInicial, En, IInv, Lugar, Orden, PasosTruncar
  <1>2. PICK b \in obtener_primer_bloque_libre :
          /\ lista_fcb' = [lista_fcb EXCEPT ![Fcb(p)].ini = b]
          /\ Ir(p, [h EXCEPT !.paso = "libre", !.bloque = b])
    BY DEF BloqueInicial
  <1> DEFINE r == [h EXCEPT !.paso = "libre", !.bloque = b]
  <1>3. h \in Hilos /\ b \in Posicion /\ "libre" \in Pasos
    BY HiloCampos, PrimerLibre DEF IInv, Pasos
  <1>4. Ir(p, r)
    BY <1>2
  <1> HIDE DEF h
  <1>5. /\ r \in Hilos /\ r.paso = "libre" /\ r.bloque = b /\ r.cuenta = h.cuenta
        /\ r.valor = h.valor
    BY <1>3 DEF Hilos
  <1> HIDE DEF r
  <1>6. Queda(p, "libre", b, h.cuenta, h.valor)
    BY <1>4, <1>5, QuedaEn DEF IInv
  <1> QED BY <1>1, <1>2, <1>6 DEF h, BloqueInicial

LEMMA BuscarLibreHace ==
  ASSUME IInv, NEW p \in Procesos, BuscarLibre(p)
  PROVE  /\ hilo[p].paso = "libre" /\ pedido[p].op = "F_TRUNCATE"
         /\ \E b \in obtener_primer_bloque_libre :
              Queda(p, "anotar", hilo[p].bloque, hilo[p].cuenta, b)
         /\ fuera' = fuera \cup AvisoDiscoLleno
  <1> DEFINE h == hilo[p]
  <1>1. h.paso = "libre" /\ pedido[p].op = "F_TRUNCATE"
    BY DEF BuscarLibre, En, IInv, Lugar, Orden, PasosTruncar
  <1>2. PICK b \in obtener_primer_bloque_libre :
          Ir(p, [h EXCEPT !.paso = "anotar", !.valor = b])
    BY DEF BuscarLibre
  <1> DEFINE r == [h EXCEPT !.paso = "anotar", !.valor = b]
  <1>3. h \in Hilos /\ b \in Posicion /\ "anotar" \in Pasos
    BY HiloCampos, PrimerLibre DEF IInv, Pasos
  <1>4. Ir(p, r)
    BY <1>2
  <1> HIDE DEF h
  <1>5. /\ r \in Hilos /\ r.paso = "anotar" /\ r.bloque = h.bloque /\ r.cuenta = h.cuenta
        /\ r.valor = b
    BY <1>3 DEF Hilos
  <1> HIDE DEF r
  <1>6. Queda(p, "anotar", h.bloque, h.cuenta, b)
    BY <1>4, <1>5, QuedaEn DEF IInv
  <1> QED BY <1>1, <1>2, <1>6 DEF h, BuscarLibre

LEMMA AnotarHace ==
  ASSUME IInv, NEW p \in Procesos, Anotar(p)
  PROVE  /\ hilo[p].paso = "anotar" /\ pedido[p].op = "F_TRUNCATE" /\ hilo[p].valor \in Posicion
         /\ modificar_en_fat(hilo[p].bloque, hilo[p].valor)
         /\ Queda(p, "seguir", hilo[p].bloque, hilo[p].cuenta, hilo[p].valor)
         /\ fuera' = fuera \cup FueraDeLaFat(hilo[p].bloque)
  <1>1. hilo[p].paso = "anotar" /\ "seguir" \in Pasos
    BY DEF Anotar, En, Pasos
  <1>2. pedido[p].op = "F_TRUNCATE" /\ hilo[p].valor \in Posicion
    BY <1>1 DEF IInv, Lugar, Orden, PasosTruncar
  <1> QED BY <1>1, <1>2, PasoQueda DEF Anotar, IInv

LEMMA SeguirHace ==
  ASSUME IInv, NEW p \in Procesos, Seguir(p)
  PROVE  /\ hilo[p].paso = "seguir" /\ pedido[p].op = "F_TRUNCATE"
         /\ \E b \in posicion_en_fat(hilo[p].bloque) :
              \/ /\ hilo[p].cuenta = 1 \/ b = 0
                 /\ Queda(p, "fijar", b, hilo[p].cuenta - 1, Basura)
              \/ /\ hilo[p].cuenta > 1 /\ b # 0
                 /\ Queda(p, "libre", b, hilo[p].cuenta - 1, Basura)
  <1> DEFINE h == hilo[p]
  <1>1. h.paso = "seguir"
    BY DEF Seguir, En
  <1>2. pedido[p].op = "F_TRUNCATE" /\ h.cuenta >= 1 /\ h.cuenta \in 0 .. MaxBloques
    BY <1>1, HiloCampos DEF IInv, Lugar, Orden, PasosTruncar
  <1>3. PICK b \in posicion_en_fat(h.bloque) :
          Ir(p, [paso   |-> IF h.cuenta = 1 \/ b = 0 THEN "fijar" ELSE "libre",
                 bloque |-> b, cuenta |-> h.cuenta - 1, valor |-> Basura])
    BY DEF Seguir
  <1> DEFINE s == IF h.cuenta = 1 \/ b = 0 THEN "fijar" ELSE "libre"
             r == [paso |-> s, bloque |-> b, cuenta |-> h.cuenta - 1, valor |-> Basura]
  <1>4. s \in Pasos /\ b \in Posicion /\ Basura \in Palabras
    BY HiloCampos, LeeFat, NadieFuera DEF IInv, Pasos
  <1>5. h.cuenta - 1 \in 0 .. MaxBloques
    BY <1>2, Medidas
  <1>6. Ir(p, r)
    BY <1>3
  <1> HIDE DEF h, s
  <1>7. /\ r \in Hilos /\ r.paso = s /\ r.bloque = b /\ r.cuenta = h.cuenta - 1 /\ r.valor = Basura
    BY <1>4, <1>5 DEF Hilos
  <1> HIDE DEF r
  <1>8. Queda(p, s, b, h.cuenta - 1, Basura)
    BY <1>6, <1>7, QuedaEn DEF IInv
  <1>9. h.cuenta = 1 \/ h.cuenta > 1
    BY <1>2, Medidas
  <1> QED BY <1>1, <1>2, <1>3, <1>8, <1>9 DEF h, s

LEMMA QuitarHace ==
  ASSUME IInv, NEW p \in Procesos, Quitar(p)
  PROVE  LET ini == lista_fcb[Fcb(p)].ini IN
         /\ hilo[p].paso = "quitar" /\ pedido[p].op = "F_TRUNCATE"
         /\ \E sig \in posicion_en_fat(ini) :
              /\ lista_fcb' = [lista_fcb EXCEPT ![Fcb(p)].ini = sig]
              /\ \/ Queda(p, "fijar", hilo[p].bloque, hilo[p].cuenta - 1, hilo[p].valor)
                 \/ /\ hilo[p].cuenta > 1
                    /\ Queda(p, "quitar", hilo[p].bloque, hilo[p].cuenta - 1, hilo[p].valor)
         /\ modificar_en_fat(ini, -1)
         /\ fuera' = fuera \cup FueraDeLaFat(ini)
  <1> DEFINE h == hilo[p]
             ini == lista_fcb[Fcb(p)].ini
  <1>1. h.paso = "quitar"
    BY DEF Quitar, En
  <1>2. pedido[p].op = "F_TRUNCATE" /\ h.cuenta >= 1 /\ h \in Hilos /\ h.cuenta \in 0 .. MaxBloques
    BY <1>1, HiloCampos DEF IInv, Lugar, Orden, PasosTruncar
  <1>3. PICK sig \in posicion_en_fat(ini) :
          /\ lista_fcb' = [lista_fcb EXCEPT ![Fcb(p)].ini = sig]
          /\ Ir(p, [h EXCEPT !.cuenta = @ - 1,
                      !.paso = IF h.cuenta = 1 \/ sig = -1 THEN "fijar" ELSE @])
    BY DEF Quitar
  <1> DEFINE s == IF h.cuenta = 1 \/ sig = -1 THEN "fijar" ELSE "quitar"
             r == [h EXCEPT !.cuenta = @ - 1,
                     !.paso = IF h.cuenta = 1 \/ sig = -1 THEN "fijar" ELSE @]
  <1>4. s \in Pasos /\ h.cuenta - 1 \in 0 .. MaxBloques
    BY <1>2, Medidas DEF Pasos
  <1>5. Ir(p, r)
    BY <1>3
  <1>6. modificar_en_fat(ini, -1) /\ fuera' = fuera \cup FueraDeLaFat(ini)
    BY DEF Quitar
  <1> HIDE DEF h, ini
  <1>7. /\ r \in Hilos /\ r.paso = s /\ r.bloque = h.bloque /\ r.cuenta = h.cuenta - 1
        /\ r.valor = h.valor
    BY <1>1, <1>2, <1>4 DEF Hilos
  <1> HIDE DEF r
  <1>8. Queda(p, s, h.bloque, h.cuenta - 1, h.valor)
    BY <1>5, <1>7, QuedaEn DEF IInv
  <1>9. h.cuenta = 1 \/ h.cuenta > 1
    BY <1>2, Medidas
  <1>10. \/ Queda(p, "fijar", h.bloque, h.cuenta - 1, h.valor)
         \/ h.cuenta > 1 /\ Queda(p, "quitar", h.bloque, h.cuenta - 1, h.valor)
    BY <1>8, <1>9
  <1> QED BY <1>1, <1>2, <1>3, <1>6, <1>10 DEF h, ini

LEMMA FijarHace ==
  ASSUME IInv, NEW p \in Procesos, Fijar(p)
  PROVE  /\ hilo[p].paso = "fijar" /\ pedido[p].op = "F_TRUNCATE"
         /\ lista_fcb' = [lista_fcb EXCEPT ![Fcb(p)].tam = pedido[p].arg]
         /\ Queda(p, "responder", hilo[p].bloque, hilo[p].cuenta, hilo[p].valor)
  <1>1. hilo[p].paso = "fijar" /\ "responder" \in Pasos
    BY DEF Fijar, En, Pasos
  <1>2. pedido[p].op = "F_TRUNCATE"
    BY <1>1 DEF IInv, Lugar, Orden, PasosTruncar
  <1> QED BY <1>1, <1>2, PasoQueda DEF Fijar, IInv

-----------------------------------------------------------------------------
(* The accesses *)

LEMMA PedirMemoriaHace ==
  ASSUME IInv, NEW p \in Procesos, PedirMemoria(p)
  PROVE  /\ hilo[p].paso = "pedir" /\ pedido[p].op = "F_WRITE"
         /\ Queda(p, "codigo", hilo[p].bloque, hilo[p].cuenta, hilo[p].valor)
  <1>1. hilo[p].paso = "pedir" /\ "codigo" \in Pasos
    BY DEF PedirMemoria, En, Pasos
  <1>2. pedido[p].op = "F_WRITE"
    BY <1>1 DEF IInv, Lugar, Orden
  <1> QED BY <1>1, <1>2, PasoQueda DEF PedirMemoria, IInv

\* The token at the head of the answers.
LEMMA FichaTipo ==
  ASSUME Tipo, respuestas_mem # <<>>
  PROVE  /\ Head(respuestas_mem) \in Fichas /\ Head(respuestas_mem).tipo \in {"codigo", "buffer"}
         /\ Head(respuestas_mem).tipo = "buffer" => Head(respuestas_mem).valor \in Palabras
         /\ Tail(respuestas_mem) \in Seq(Fichas)
  <1>1. respuestas_mem \in Seq(Fichas)
    BY DEF Tipo, TipoMemoria
  <1>2. Head(respuestas_mem) \in Fichas /\ Tail(respuestas_mem) \in Seq(Fichas)
    BY <1>1
  <1>3. \A t \in Fichas : t.tipo \in {"codigo", "buffer"} /\ (t.tipo = "buffer" => t.valor \in Palabras)
    BY DEF Fichas
  <1> QED BY <1>2, <1>3

LEMMA RecibirCodigoHace ==
  ASSUME IInv, NEW p \in Procesos, RecibirCodigo(p)
  PROVE  LET t == Head(respuestas_mem)  h == hilo[p] IN
         /\ h.paso = "codigo" /\ pedido[p].op \in OpsMem
         /\ \/ t.tipo = "buffer" /\ caido' = "corrido" /\ UNCHANGED <<hilo, hecho>>
            \/ /\ t.tipo = "codigo" /\ t.valor = pedido[p].op /\ UNCHANGED <<hecho, caido>>
               /\ Queda(p, "buffer", h.bloque, h.cuenta, h.valor)
            \/ /\ t.tipo = "codigo" /\ t.valor # pedido[p].op /\ UNCHANGED caido
               /\ Hace(p, "existe") /\ Queda(p, "responder", h.bloque, h.cuenta, h.valor)
  <1> DEFINE t == Head(respuestas_mem)
  <1>1. hilo[p].paso = "codigo" /\ "buffer" \in Pasos /\ "responder" \in Pasos
    BY DEF RecibirCodigo, En, Pasos
  <1>2. pedido[p].op \in OpsMem
    BY <1>1 DEF IInv, Lugar, Orden
  <1>3. \/ t.tipo = "buffer" /\ caido' = "corrido" /\ UNCHANGED <<hilo, hecho>>
        \/ /\ t.tipo = "codigo" /\ t.valor = pedido[p].op /\ UNCHANGED <<hecho, caido>>
           /\ Paso(p, "buffer")
        \/ /\ t.tipo = "codigo" /\ t.valor # pedido[p].op /\ UNCHANGED caido
           /\ Hace(p, "existe") /\ Paso(p, "responder")
    BY DEF RecibirCodigo
  <1> HIDE DEF t
  <1> QED BY <1>1, <1>2, <1>3, PasoQueda DEF IInv, t

LEMMA RecibirBufferHace ==
  ASSUME IInv, NEW p \in Procesos, RecibirBuffer(p)
  PROVE  LET t == Head(respuestas_mem)  h == hilo[p] IN
         /\ h.paso = "buffer" /\ pedido[p].op \in OpsMem
         /\ \/ t.tipo = "codigo" /\ caido' = "corrido" /\ UNCHANGED hilo
            \/ /\ t.tipo = "buffer" /\ UNCHANGED caido /\ t.valor \in Palabras
               /\ \/ pedido[p].op = "F_WRITE" /\ Queda(p, "ubicar", h.bloque, h.cuenta, t.valor)
                  \/ pedido[p].op = "F_READ" /\ Queda(p, "responder", h.bloque, h.cuenta, t.valor)
  <1> DEFINE t == Head(respuestas_mem)
             h == hilo[p]
             s == IF pedido[p].op = "F_WRITE" THEN "ubicar" ELSE "responder"
  <1>1. h.paso = "buffer" /\ s \in Pasos /\ respuestas_mem # <<>>
    BY DEF RecibirBuffer, En, Pasos
  <1>2. pedido[p].op \in OpsMem
    BY <1>1 DEF IInv, Lugar, Orden
  <1>3. \/ t.tipo = "codigo" /\ caido' = "corrido" /\ UNCHANGED hilo
        \/ /\ t.tipo = "buffer" /\ UNCHANGED caido
           /\ Ir(p, [h EXCEPT !.valor = t.valor, !.paso = s])
    BY DEF RecibirBuffer
  <1>4. t.tipo = "buffer" => t.valor \in Palabras
    BY <1>1, FichaTipo DEF IInv
  <1>5. h \in Hilos
    BY HiloCampos DEF IInv
  <1> HIDE DEF h, t, s
  <1>6. ASSUME t.tipo = "buffer", Ir(p, [h EXCEPT !.valor = t.valor, !.paso = s])
        PROVE  Queda(p, s, h.bloque, h.cuenta, t.valor)
    <2> DEFINE r == [h EXCEPT !.valor = t.valor, !.paso = s]
    <2>1. Ir(p, r)
      BY <1>6
    <2>2. /\ r \in Hilos /\ r.paso = s /\ r.bloque = h.bloque /\ r.cuenta = h.cuenta
          /\ r.valor = t.valor
      BY <1>1, <1>4, <1>5, <1>6 DEF Hilos
    <2> HIDE DEF r
    <2> QED BY <2>1, <2>2, QuedaEn DEF IInv
  <1>7. \/ pedido[p].op = "F_WRITE" /\ s = "ubicar"
        \/ pedido[p].op = "F_READ" /\ s = "responder"
    BY <1>2 DEF OpsMem, s
  <1> QED BY <1>1, <1>2, <1>3, <1>4, <1>6, <1>7 DEF h, t

LEMMA UbicarHace ==
  ASSUME IInv, NEW p \in Procesos, Ubicar(p)
  PROVE  /\ hilo[p].paso = "ubicar" /\ pedido[p].op \in OpsMem
         /\ Queda(p, "caminar", lista_fcb[Fcb(p)].ini, pedido[p].arg, hilo[p].valor)
  <1> DEFINE h == hilo[p]
             n == pedido[p].arg
             ini == lista_fcb[Fcb(p)].ini
             r == [h EXCEPT !.paso = "caminar", !.cuenta = n, !.bloque = ini]
  <1>1. h.paso = "ubicar" /\ "caminar" \in Pasos
    BY DEF Ubicar, En, Pasos
  <1>2. pedido[p].op \in OpsMem
    BY <1>1 DEF IInv, Lugar, Orden
  <1>3. n \in 0 .. MaxBloques /\ ini \in Posicion /\ h \in Hilos
    BY <1>2, FcbDelHilo, HiloCampos DEF IInv
  <1>4. Ir(p, r)
    BY DEF Ubicar
  <1> HIDE DEF h, n, ini
  <1>5. r \in Hilos /\ r.paso = "caminar" /\ r.bloque = ini /\ r.cuenta = n /\ r.valor = h.valor
    BY <1>1, <1>3 DEF Hilos
  <1> HIDE DEF r
  <1>6. Queda(p, "caminar", ini, n, h.valor)
    BY <1>4, <1>5, QuedaEn DEF IInv
  <1> QED BY <1>1, <1>2, <1>6 DEF h, n, ini

LEMMA CaminarHace ==
  ASSUME IInv, NEW p \in Procesos, Caminar(p)
  PROVE  /\ hilo[p].paso = "caminar" /\ pedido[p].op \in OpsMem
         /\ \E b \in posicion_en_fat(hilo[p].bloque) :
              Queda(p, "caminar", b, hilo[p].cuenta - 1, hilo[p].valor)
         /\ fuera' = fuera \cup FueraDeLaFat(hilo[p].bloque)
  <1> DEFINE h == hilo[p]
  <1>1. h.paso = "caminar" /\ h.cuenta > 0
    BY DEF Caminar, En
  <1>2. pedido[p].op \in OpsMem
    BY <1>1 DEF IInv, Lugar, Orden
  <1>3. PICK b \in posicion_en_fat(h.bloque) :
          Ir(p, [h EXCEPT !.bloque = b, !.cuenta = @ - 1])
    BY DEF Caminar
  <1> DEFINE r == [h EXCEPT !.bloque = b, !.cuenta = @ - 1]
  <1>4. h \in Hilos /\ b \in Posicion /\ h.cuenta \in 0 .. MaxBloques
    BY HiloCampos, LeeFat DEF IInv
  <1>5. h.cuenta - 1 \in 0 .. MaxBloques
    BY <1>1, <1>4, Medidas
  <1>6. Ir(p, r)
    BY <1>3
  <1> HIDE DEF h
  <1>7. /\ r \in Hilos /\ r.paso = "caminar" /\ r.bloque = b /\ r.cuenta = h.cuenta - 1
        /\ r.valor = h.valor
    BY <1>1, <1>4, <1>5 DEF Hilos
  <1> HIDE DEF r
  <1>8. Queda(p, "caminar", b, h.cuenta - 1, h.valor)
    BY <1>6, <1>7, QuedaEn DEF IInv
  <1> QED BY <1>1, <1>2, <1>3, <1>8 DEF h, Caminar

LEMMA EscribirHace ==
  ASSUME IInv, NEW p \in Procesos, Escribir(p)
  PROVE  /\ hilo[p].paso = "caminar" /\ pedido[p].op = "F_WRITE" /\ hilo[p].valor \in Palabras
         /\ bloques' = [bloques EXCEPT ![hilo[p].bloque] = hilo[p].valor]
         /\ Queda(p, "responder", hilo[p].bloque, hilo[p].cuenta, hilo[p].valor)
  <1>1. hilo[p].paso = "caminar" /\ pedido[p].op = "F_WRITE" /\ "responder" \in Pasos
    BY DEF Escribir, En, Pasos
  <1>2. hilo[p].valor \in Palabras
    BY <1>1 DEF IInv, Lugar, Orden
  <1> QED BY <1>1, <1>2, PasoQueda DEF Escribir, IInv

LEMMA LeerHace ==
  ASSUME IInv, NEW p \in Procesos, Leer(p)
  PROVE  /\ hilo[p].paso = "caminar" /\ pedido[p].op = "F_READ"
         /\ Queda(p, "codigo", hilo[p].bloque, hilo[p].cuenta, hilo[p].valor)
  <1>1. hilo[p].paso = "caminar" /\ pedido[p].op = "F_READ" /\ "codigo" \in Pasos
    BY DEF Leer, En, Pasos
  <1> QED BY <1>1, PasoQueda DEF Leer, IInv

-----------------------------------------------------------------------------
(* F_OPEN, F_CREATE, the requests and the answers *)

LEMMA AbrirHace ==
  ASSUME IInv, NEW p \in Procesos, Abrir(p)
  PROVE  /\ hilo[p].paso = "buscar" /\ pedido[p].op = "F_OPEN"
         /\ \/ caido' = "fcb_basura" /\ UNCHANGED <<hilo, hecho>>
            \/ /\ UNCHANGED caido
               /\ Queda(p, "responder", hilo[p].bloque, hilo[p].cuenta, hilo[p].valor)
               /\ Hace(p, IF Existe(pedido[p].archivo) THEN "existe" ELSE "no existe")
  <1>1. hilo[p].paso = "buscar" /\ "responder" \in Pasos
    BY DEF Abrir, En, Pasos
  <1>2. pedido[p].op = "F_OPEN"
    BY <1>1 DEF IInv, Lugar, Orden
  <1>3. (Fcb(p) = 0) = ~Existe(pedido[p].archivo)
    <2>1. 0 \notin DOMAIN lista_fcb
      BY DEF IInv, Tipo, TipoDisco
    <2> QED BY <2>1, IdFcb DEF IInv, Tipo, TipoDisco, Fcb
  <1> DEFINE f == pedido[p].archivo
  <1>4. \/ caido' = "fcb_basura" /\ UNCHANGED <<hilo, hecho>>
        \/ /\ UNCHANGED caido /\ Paso(p, "responder")
           /\ Hace(p, IF Existe(f) THEN "existe" ELSE "no existe")
    <2>1. \/ caido' = "fcb_basura" /\ UNCHANGED <<hilo, hecho>>
          \/ /\ UNCHANGED caido /\ Paso(p, "responder")
             /\ Hace(p, IF Fcb(p) = 0 THEN "no existe" ELSE "existe")
      BY DEF Abrir
    <2>2. (IF Fcb(p) = 0 THEN "no existe" ELSE "existe") =
            IF Existe(f) THEN "existe" ELSE "no existe"
      BY <1>3
    <2> QED BY <2>1, <2>2
  <1> QED BY <1>1, <1>2, <1>4, PasoQueda DEF IInv

\* The name that hilo_f_create is given has no FCB.
LEMMA CrearHace ==
  ASSUME IInv, NEW p \in Procesos, Crear(p)
  PROVE  /\ hilo[p].paso = "crear" /\ pedido[p].op = "F_CREATE" /\ ~Existe(pedido[p].archivo)
         /\ lista_fcb' = Append(lista_fcb, FcbNuevo(pedido[p].archivo))
         /\ FcbNuevo(pedido[p].archivo) \in Fcbs
         /\ Hace(p, "existe")
         /\ Queda(p, "responder", hilo[p].bloque, hilo[p].cuenta, hilo[p].valor)
  <1>1. hilo[p].paso = "crear" /\ "responder" \in Pasos
    BY DEF Crear, En, Pasos
  <1>2. pedido[p].op = "F_CREATE" /\ ~Existe(pedido[p].archivo)
    BY <1>1 DEF IInv, Lugar, Orden, Apertura
  <1>3. Fcb(p) = 0
    BY <1>2, IdFcb DEF IInv, Tipo, TipoDisco, Fcb
  <1>4. /\ lista_fcb' = Append(lista_fcb, FcbNuevo(pedido[p].archivo)) /\ Hace(p, "existe")
        /\ Paso(p, "responder")
    BY <1>3 DEF Crear
  <1>5. FcbNuevo(pedido[p].archivo) \in Fcbs
    <2>1. pedido[p].archivo \in Archivos
      BY <1>2, PedidoCampos DEF IInv, SinPedido
    <2>2. 0 \in 0 .. MaxBloques
      BY Medidas
    <2> QED BY <2>1, <2>2, Medidas DEF FcbNuevo, Fcbs
  <1> QED BY <1>1, <1>2, <1>4, <1>5, PasoQueda DEF IInv

LEMMA LlegaHace ==
  ASSUME IInv, NEW p \in Procesos, NEW op, NEW f, NEW n, NEW s \in Pasos, Llega(p, op, f, n, s)
  PROVE  /\ pedido[p] = SinPedido
         /\ pedido'[p].op = op /\ pedido'[p].archivo = f /\ pedido'[p].arg = n
         /\ pedido'[p] = [op |-> op, archivo |-> f, arg |-> n]
         /\ \A q \in Procesos : q # p => pedido'[q] = pedido[q]
         /\ Queda(p, s, 0, 0, Basura)
  <1>1. Queda(p, s, 0, 0, Basura)
    BY LibreQueda DEF Llega, IInv
  <1> QED BY <1>1 DEF Llega, IInv, Tipo, TipoKernel

LEMMA ResponderHace ==
  ASSUME IInv, NEW p \in Procesos, Responder(p)
  PROVE  /\ hilo[p].paso = "responder" /\ pedido[p] # SinPedido
         /\ pedido'[p] = SinPedido /\ \A q \in Procesos : q # p => pedido'[q] = pedido[q]
         /\ Queda(p, "ninguno", 0, 0, Basura)
  <1>1. hilo[p].paso = "responder" /\ "ninguno" \in Pasos
    BY DEF Responder, Pasos
  <1>2. pedido[p] # SinPedido
    BY <1>1 DEF IInv, Lugar, Orden
  <1>3. Queda(p, "ninguno", 0, 0, Basura)
    BY <1>1, LibreEs, LibreQueda DEF Responder, IInv
  <1> QED BY <1>1, <1>2, <1>3 DEF Responder, IInv, Tipo, TipoKernel

\* The requests of the programs.
LEMMA PedirAbrirHace ==
  ASSUME IInv, NEW p \in Procesos, NEW f, PedirAbrir(p, f)
  PROVE  /\ kernel.proceso = Nadie
         /\ Llega(p, "F_OPEN", f, 0, "buscar") /\ Queda(p, "buscar", 0, 0, Basura)
  BY LlegaHace DEF PedirAbrir, PuedePedir, Pasos

LEMMA PedirCrearHace ==
  ASSUME IInv, NEW p \in Procesos, PedirCrear(p)
  PROVE  /\ kernel.proceso = p /\ kernel.falta
         /\ Llega(p, "F_CREATE", kernel.archivo, 0, "crear") /\ Queda(p, "crear", 0, 0, Basura)
  BY LlegaHace DEF PedirCrear, Pasos

LEMMA PedirHace ==
  ASSUME IInv, NEW p \in Procesos, NEW op \in OpsMem \cup {"F_TRUNCATE"}, NEW f, NEW n, Pedir(p, op, f, n)
  PROVE  /\ kernel.proceso = Nadie
         /\ \/ op = "F_TRUNCATE" /\ Llega(p, op, f, n, "truncar") /\ Queda(p, "truncar", 0, 0, Basura)
            \/ op = "F_WRITE" /\ Llega(p, op, f, n, "pedir") /\ Queda(p, "pedir", 0, 0, Basura)
            \/ op = "F_READ" /\ Llega(p, op, f, n, "ubicar") /\ Queda(p, "ubicar", 0, 0, Basura)
  <1>1. CASE op = "F_TRUNCATE"
    <2>1. Llega(p, op, f, n, "truncar")
      BY <1>1 DEF Pedir
    <2> QED BY <1>1, <2>1, LlegaHace DEF Pedir, PuedePedir, Pasos
  <1>2. CASE op = "F_WRITE"
    <2>1. Llega(p, op, f, n, "pedir")
      BY <1>2 DEF Pedir
    <2> QED BY <1>2, <2>1, LlegaHace DEF Pedir, PuedePedir, Pasos
  <1>3. CASE op = "F_READ"
    <2>1. Llega(p, op, f, n, "ubicar")
      BY <1>3 DEF Pedir
    <2> QED BY <1>3, <2>1, LlegaHace DEF Pedir, PuedePedir, Pasos
  <1> QED BY <1>1, <1>2, <1>3 DEF OpsMem

-----------------------------------------------------------------------------
(* The types are kept *)

\* crear_fcb aside, an FCB changes its first block or its size.
LEMMA IniCambia ==
  ASSUME Tipo, NEW k \in DOMAIN lista_fcb, NEW b \in Posicion,
         lista_fcb' = [lista_fcb EXCEPT ![k].ini = b]
  PROVE  /\ lista_fcb' \in Seq(Fcbs) /\ DOMAIN lista_fcb' = DOMAIN lista_fcb
         /\ lista_fcb'[k].ini = b /\ lista_fcb'[k].tam = lista_fcb[k].tam
         /\ \A j \in DOMAIN lista_fcb : j # k => lista_fcb'[j] = lista_fcb[j]
         /\ \A j \in DOMAIN lista_fcb : lista_fcb'[j].nombre = lista_fcb[j].nombre
  <1> DEFINE fcb == lista_fcb[k]
             r == [fcb EXCEPT !.ini = b]
  <1>1. fcb \in Fcbs
    BY FcbTipo DEF Tipo, TipoDisco
  <1>2. lista_fcb' = [lista_fcb EXCEPT ![k] = r]
    OBVIOUS
  <1> HIDE DEF fcb
  <1>3. r \in Fcbs /\ r.nombre = fcb.nombre /\ r.ini = b /\ r.tam = fcb.tam
    BY <1>1 DEF Fcbs
  <1> HIDE DEF r
  <1>4. lista_fcb \in Seq(Fcbs) /\ r.nombre = lista_fcb[k].nombre /\ r.tam = lista_fcb[k].tam
    BY <1>3 DEF Tipo, TipoDisco, fcb
  <1> QED BY <1>2, <1>3, <1>4, FcbCambia

LEMMA TamCambia ==
  ASSUME Tipo, NEW k \in DOMAIN lista_fcb, NEW n \in 0 .. MaxBloques,
         lista_fcb' = [lista_fcb EXCEPT ![k].tam = n]
  PROVE  /\ lista_fcb' \in Seq(Fcbs) /\ DOMAIN lista_fcb' = DOMAIN lista_fcb
         /\ lista_fcb'[k].tam = n /\ lista_fcb'[k].ini = lista_fcb[k].ini
         /\ \A j \in DOMAIN lista_fcb : j # k => lista_fcb'[j] = lista_fcb[j]
         /\ \A j \in DOMAIN lista_fcb : lista_fcb'[j].nombre = lista_fcb[j].nombre
  <1> DEFINE fcb == lista_fcb[k]
             r == [fcb EXCEPT !.tam = n]
  <1>1. fcb \in Fcbs
    BY FcbTipo DEF Tipo, TipoDisco
  <1>2. lista_fcb' = [lista_fcb EXCEPT ![k] = r]
    OBVIOUS
  <1> HIDE DEF fcb
  <1>3. r \in Fcbs /\ r.nombre = fcb.nombre /\ r.tam = n /\ r.ini = fcb.ini
    BY <1>1 DEF Fcbs
  <1> HIDE DEF r
  <1>4. lista_fcb \in Seq(Fcbs) /\ r.nombre = lista_fcb[k].nombre /\ r.ini = lista_fcb[k].ini
    BY <1>3 DEF Tipo, TipoDisco, fcb
  <1> QED BY <1>2, <1>3, <1>4, FcbCambia

\* The steps of the threads that write FCBs, FAT or blocks.
EnDisco(p) == Crear(p) \/ BloqueInicial(p) \/ Anotar(p) \/ Quitar(p) \/ Fijar(p) \/ Escribir(p)

LEMMA DiscoQuieto ==
  ASSUME Next, \A p \in Procesos : ~EnDisco(p)
  PROVE  UNCHANGED discoVars
  <1>1. CASE Programas
    BY <1>1 DEF Programas, PedirAbrir, Pedir, Llega
  <1>2. CASE Servir
    BY <1>2 DEF Servir
  <1>3. CASE \E p \in Procesos : Hilo(p)
    <2>1. PICK p \in Procesos : Hilo(p)
      BY <1>3
    <2>2. CASE Abrir(p) \/ Truncar(p) \/ BuscarLibre(p) \/ Seguir(p) \/ Ubicar(p) \/ Caminar(p)
      BY <2>2 DEF Abrir, Truncar, BuscarLibre, Seguir, Ubicar, Caminar
    <2>3. CASE PedirMemoria(p) \/ RecibirCodigo(p) \/ RecibirBuffer(p) \/ Leer(p)
      BY <2>3 DEF PedirMemoria, RecibirCodigo, RecibirBuffer, Leer
    <2>4. CASE Responder(p) \/ PedirCrear(p)
      BY <2>4 DEF Responder, PedirCrear, Llega
    <2> QED BY <2>1, <2>2, <2>3, <2>4 DEF Hilo, EnDisco
  <1> QED BY <1>1, <1>2, <1>3 DEF Next

LEMMA DiscoTipo ==
  ASSUME IInv, Next
  PROVE  TipoDisco'
  <1>0. Tipo /\ TipoDisco
    BY DEF IInv, Tipo
  <1>1. CASE \A p \in Procesos : ~EnDisco(p)
    BY <1>0, <1>1, DiscoQuieto DEF discoVars, TipoDisco
  <1>2. ASSUME NEW p \in Procesos, EnDisco(p) PROVE TipoDisco'
    <2>1. CASE Crear(p)
      <3>1. lista_fcb' \in Seq(Fcbs)
        <4>1. lista_fcb \in Seq(Fcbs) /\ FcbNuevo(pedido[p].archivo) \in Fcbs
              /\ lista_fcb' = Append(lista_fcb, FcbNuevo(pedido[p].archivo))
          BY <1>0, <2>1, CrearHace DEF TipoDisco
        <4> QED BY <4>1, FcbCrece
      <3> QED BY <1>0, <2>1, <3>1 DEF Crear, TipoDisco
    <2>2. CASE BloqueInicial(p)
      <3>1. PICK b \in obtener_primer_bloque_libre : lista_fcb' = [lista_fcb EXCEPT ![Fcb(p)].ini = b]
        BY <2>2 DEF BloqueInicial
      <3>2. b \in Posicion /\ Fcb(p) \in DOMAIN lista_fcb
        BY <1>0, <2>2, BloqueInicialHace, FcbDelHilo, PrimerLibre
      <3>3. lista_fcb' \in Seq(Fcbs)
        BY <1>0, <3>1, <3>2, IniCambia
      <3> QED BY <1>0, <2>2, <3>3 DEF BloqueInicial, TipoDisco
    <2>3. CASE Anotar(p)
      <3>1. fat' \in [Posicion -> Posicion \cup {SinLeer}]
        BY <1>0, <2>3, AnotarHace, HiloCampos, EscribeFat
      <3> QED BY <1>0, <2>3, <3>1 DEF Anotar, TipoDisco
    <2>4. CASE Quitar(p)
      <3>1. PICK sig \in posicion_en_fat(lista_fcb[Fcb(p)].ini) :
              lista_fcb' = [lista_fcb EXCEPT ![Fcb(p)].ini = sig]
        BY <2>4 DEF Quitar
      <3>2. Fcb(p) \in DOMAIN lista_fcb /\ lista_fcb[Fcb(p)].ini \in Posicion
        BY <2>4, QuitarHace, FcbDelHilo
      <3>3. lista_fcb' \in Seq(Fcbs)
        BY <1>0, <3>1, <3>2, LeeFat, IniCambia
      <3>4. fat' \in [Posicion -> Posicion \cup {SinLeer}]
        BY <1>0, <2>4, <3>2, QuitarHace, EscribeFat, Medidas
      <3> QED BY <1>0, <2>4, <3>3, <3>4 DEF Quitar, TipoDisco
    <2>5. CASE Fijar(p)
      <3>1. lista_fcb' \in Seq(Fcbs)
        BY <1>0, <2>5, FijarHace, FcbDelHilo, TamCambia
      <3> QED BY <1>0, <2>5, <3>1 DEF Fijar, TipoDisco
    <2>6. CASE Escribir(p)
      <3>1. bloques' \in [Posicion -> Palabras]
        BY <1>0, <2>6, EscribirHace DEF TipoDisco
      <3> QED BY <1>0, <2>6, <3>1 DEF Escribir, TipoDisco
    <2> QED BY <1>2, <2>1, <2>2, <2>3, <2>4, <2>5, <2>6 DEF EnDisco
  <1> QED BY <1>1, <1>2

LEMMA ProgramasSon ==
  ASSUME Programas
  PROVE  \E p \in Procesos, f \in Archivos :
           \/ PedirAbrir(p, f)
           \/ \E op \in OpsMem \cup {"F_TRUNCATE"}, n \in 0 .. MaxBloques : Pedir(p, op, f, n)
  BY Medidas DEF Programas, OpsMem

\* What a thread says of its request when it stops.
Resultados == {"no", "existe", "no existe", "error"}

LEMMA HilosTipo ==
  ASSUME IInv, Next
  PROVE  TipoHilos'
  <1>0. /\ hilo \in [Procesos -> Hilos] /\ hecho \in [Procesos -> Resultados]
        /\ caido \in {"no", "corrido", "fcb_basura"}
    BY DEF IInv, Tipo, TipoHilos, Resultados
  <1>1. ASSUME hilo' \in [Procesos -> Hilos], hecho' \in [Procesos -> Resultados],
               caido' \in {"no", "corrido", "fcb_basura"}
        PROVE  TipoHilos'
    BY <1>1 DEF TipoHilos, Resultados
  <1> DEFINE Bien == /\ hilo' \in [Procesos -> Hilos] /\ hecho' \in [Procesos -> Resultados]
                     /\ caido' \in {"no", "corrido", "fcb_basura"}
  <1>2. ASSUME NEW p \in Procesos, Hilo(p) PROVE Bien
    <2>1. CASE Abrir(p)
      BY <1>0, <2>1, AbrirHace DEF Queda, Hace, Resultados
    <2>2. CASE Crear(p)
      BY <1>0, <2>2, CrearHace DEF Queda, Hace, Resultados, Crear
    <2>3. CASE Truncar(p)
      BY <1>0, <2>3, TruncarHace DEF Queda, Truncar
    <2>4. CASE BloqueInicial(p)
      BY <1>0, <2>4, BloqueInicialHace DEF Queda, BloqueInicial
    <2>5. CASE BuscarLibre(p)
      BY <1>0, <2>5, BuscarLibreHace DEF Queda, BuscarLibre
    <2>6. CASE Anotar(p)
      BY <1>0, <2>6, AnotarHace DEF Queda, Anotar
    <2>7. CASE Seguir(p)
      BY <1>0, <2>7, SeguirHace DEF Queda, Seguir
    <2>8. CASE Quitar(p)
      BY <1>0, <2>8, QuitarHace DEF Queda, Quitar
    <2>9. CASE Fijar(p)
      BY <1>0, <2>9, FijarHace DEF Queda, Fijar, Hace, Resultados
    <2>10. CASE PedirMemoria(p)
      BY <1>0, <2>10, PedirMemoriaHace DEF Queda, PedirMemoria
    <2>11. CASE RecibirCodigo(p)
      BY <1>0, <2>11, RecibirCodigoHace DEF Queda, RecibirCodigo, Hace, Resultados
    <2>12. CASE RecibirBuffer(p)
      BY <1>0, <2>12, RecibirBufferHace DEF Queda, RecibirBuffer
    <2>13. CASE Ubicar(p)
      BY <1>0, <2>13, UbicarHace DEF Queda, Ubicar
    <2>14. CASE Caminar(p)
      BY <1>0, <2>14, CaminarHace DEF Queda, Caminar
    <2>15. CASE Escribir(p)
      BY <1>0, <2>15, EscribirHace DEF Queda, Escribir, Hace, Resultados
    <2>16. CASE Leer(p)
      BY <1>0, <2>16, LeerHace DEF Queda, Leer
    <2>17. CASE Responder(p)
      BY <1>0, <2>17, ResponderHace DEF Queda, Responder, Resultados
    <2>18. CASE PedirCrear(p)
      BY <1>0, <2>18, PedirCrearHace DEF Queda, PedirCrear, Llega
    <2> QED BY <1>2, <2>1, <2>2, <2>3, <2>4, <2>5, <2>6, <2>7, <2>8, <2>9, <2>10, <2>11, <2>12, <2>13,
               <2>14, <2>15, <2>16, <2>17, <2>18 DEF Hilo
  <1>3. ASSUME Programas PROVE Bien
    <2>1. PICK p \in Procesos, f \in Archivos :
            \/ PedirAbrir(p, f)
            \/ \E op \in OpsMem \cup {"F_TRUNCATE"}, n \in 0 .. MaxBloques : Pedir(p, op, f, n)
      BY <1>3, ProgramasSon
    <2>2. CASE PedirAbrir(p, f)
      BY <1>0, <2>2, PedirAbrirHace DEF Queda, PedirAbrir, Llega
    <2>3. ASSUME NEW op \in OpsMem \cup {"F_TRUNCATE"}, NEW n, Pedir(p, op, f, n) PROVE Bien
      BY <1>0, <2>3, PedirHace DEF Queda, Pedir, Llega
    <2> QED BY <2>1, <2>2, <2>3
  <1>4. ASSUME Servir PROVE Bien
    BY <1>0, <1>4 DEF Servir, Resultados
  <1>5. Bien
    BY <1>2, <1>3, <1>4 DEF Next
  <1> QED BY <1>1, <1>5

LEMMA KernelTipo ==
  ASSUME IInv, Next
  PROVE  TipoKernel'
  <1>0. /\ pedido \in [Procesos -> Pedidos \cup {SinPedido}]
        /\ kernel \in [proceso : Procesos \cup {Nadie}, archivo : Archivos \cup {Nadie}, falta : BOOLEAN]
        /\ abiertos \subseteq Procesos \X Archivos /\ pedidos \in 0 .. MaxPedidos
    BY DEF IInv, Tipo, TipoKernel
  <1>1. ASSUME NEW p \in Procesos, NEW op \in OpsAbre \cup OpsMem \cup {"F_TRUNCATE"}, NEW f \in Archivos,
               NEW n \in 0 .. MaxBloques, NEW s, Llega(p, op, f, n, s)
        PROVE  pedido' \in [Procesos -> Pedidos \cup {SinPedido}] /\ abiertos' \subseteq Procesos \X Archivos
    <2>1. [op |-> op, archivo |-> f, arg |-> n] \in Pedidos
      BY DEF Pedidos
    <2> QED BY <1>0, <1>1, <2>1 DEF Llega
  <1>2. PuedePedir => pedidos + 1 \in 0 .. MaxPedidos
    BY <1>0, FilesystemSupuestos DEF PuedePedir
  <1>3. 0 \in 0 .. MaxBloques
    BY Medidas
  <1>4. ASSUME Programas PROVE TipoKernel'
    <2>1. PICK p \in Procesos, f \in Archivos :
            \/ PedirAbrir(p, f)
            \/ \E op \in OpsMem \cup {"F_TRUNCATE"}, n \in 0 .. MaxBloques : Pedir(p, op, f, n)
      BY <1>4, ProgramasSon
    <2>2. CASE PedirAbrir(p, f)
      <3>1. pedido' \in [Procesos -> Pedidos \cup {SinPedido}] /\ abiertos' \subseteq Procesos \X Archivos
        BY <1>1, <1>3, <2>2, PedirAbrirHace DEF OpsAbre
      <3>2. pedidos' \in 0 .. MaxPedidos /\ kernel' = [proceso |-> p, archivo |-> f, falta |-> FALSE]
        BY <1>2, <2>2 DEF PedirAbrir
      <3> QED BY <3>1, <3>2 DEF TipoKernel
    <2>3. ASSUME NEW op \in OpsMem \cup {"F_TRUNCATE"}, NEW n \in 0 .. MaxBloques, Pedir(p, op, f, n)
          PROVE  TipoKernel'
      <3>1. pedido' \in [Procesos -> Pedidos \cup {SinPedido}] /\ abiertos' \subseteq Procesos \X Archivos
        BY <1>1, <2>3, PedirHace
      <3>2. pedidos' \in 0 .. MaxPedidos /\ kernel' = kernel
        BY <1>2, <2>3 DEF Pedir
      <3> QED BY <1>0, <3>1, <3>2 DEF TipoKernel
    <2> QED BY <2>1, <2>2, <2>3
  <1>5. ASSUME NEW p \in Procesos, PedirCrear(p) PROVE TipoKernel'
    <2>1. kernel.archivo \in Archivos
      BY <1>5 DEF PedirCrear, IInv, Lugar, Apertura
    <2>2. pedido' \in [Procesos -> Pedidos \cup {SinPedido}] /\ abiertos' \subseteq Procesos \X Archivos
      BY <1>1, <1>3, <1>5, <2>1, PedirCrearHace DEF OpsAbre
    <2>3. pedidos' = pedidos /\ kernel' = [kernel EXCEPT !.falta = FALSE]
      BY <1>5 DEF PedirCrear
    <2> QED BY <1>0, <2>2, <2>3 DEF TipoKernel
  <1>6. ASSUME NEW p \in Procesos, Responder(p) PROVE TipoKernel'
    <2>1. pedido[p].archivo \in Archivos
      BY <1>6, ResponderHace, PedidoCampos DEF IInv
    <2>2. abiertos' \subseteq Procesos \X Archivos /\ pedidos' = pedidos
      BY <1>0, <1>6, <2>1 DEF Responder
    <2>3. pedido' \in [Procesos -> Pedidos \cup {SinPedido}]
      BY <1>0, <1>6 DEF Responder
    <2>4. kernel' = kernel \/ kernel' = [kernel EXCEPT !.proceso = Nadie] \/ kernel' = [kernel EXCEPT !.falta = TRUE]
      BY <1>6 DEF Responder
    <2> QED BY <1>0, <2>2, <2>3, <2>4 DEF TipoKernel
  <1>7. ASSUME UNCHANGED kernelVars PROVE TipoKernel'
    BY <1>0, <1>7 DEF kernelVars, TipoKernel
  <1>8. ASSUME NEW p \in Procesos, Hilo(p), ~PedirCrear(p), ~Responder(p) PROVE UNCHANGED kernelVars
    BY <1>8 DEF Hilo, Abrir, Crear, Truncar, BloqueInicial, BuscarLibre, Anotar, Seguir, Quitar, Fijar,
                PedirMemoria, RecibirCodigo, RecibirBuffer, Ubicar, Caminar, Escribir, Leer, En
  <1>9. Servir => UNCHANGED kernelVars
    BY DEF Servir
  <1> QED BY <1>4, <1>5, <1>6, <1>7, <1>8, <1>9 DEF Next

\* The request at the head of the socket to memoria.
LEMMA EnvioTipo ==
  ASSUME Tipo, pedidos_mem # <<>>
  PROVE  LET m == Head(pedidos_mem) IN
         m \in Envios /\ m.op \in OpsMem /\ m.proceso \in Procesos /\ m.dato \in Palabras
  <1>1. Head(pedidos_mem) \in Envios
    BY DEF Tipo, TipoMemoria
  <1> QED BY <1>1 DEF Envios

\* The answer to it.
Respuesta(op, v) == <<[tipo |-> "codigo", valor |-> op], [tipo |-> "buffer", valor |-> v]>>

LEMMA RespuestaTipo ==
  ASSUME NEW op \in OpsMem, NEW v \in Palabras
  PROVE  Respuesta(op, v) \in Seq(Fichas)
  <1>1. [tipo |-> "codigo", valor |-> op] \in Fichas /\ [tipo |-> "buffer", valor |-> v] \in Fichas
    BY DEF Fichas
  <1> QED BY <1>1 DEF Respuesta

LEMMA ServirHace ==
  ASSUME IInv, Servir
  PROVE  LET m == Head(pedidos_mem) IN
         /\ pedidos_mem # <<>> /\ pedidos_mem' = Tail(pedidos_mem)
         /\ \E v \in Palabras : respuestas_mem' = respuestas_mem \o Respuesta(m.op, v)
         /\ pagina' \in [Procesos -> Palabras]
         /\ \A q \in Procesos : hecho'[q] # hecho[q] => pedido[q].op = "F_READ" /\ hecho'[q] = "existe"
         /\ UNCHANGED <<discoVars, kernelVars, hilo, fuera, caido>>
  <1> DEFINE m == Head(pedidos_mem)
  <1>1. m.op \in OpsMem /\ m.proceso \in Procesos /\ m.dato \in Palabras
    BY EnvioTipo DEF Servir, IInv
  <1>2. pagina \in [Procesos -> Palabras] /\ hecho \in [Procesos -> Resultados]
    BY DEF IInv, Tipo, TipoMemoria, TipoHilos, Resultados
  <1>3. \/ /\ m.op = "F_WRITE" /\ respuestas_mem' = respuestas_mem \o Respuesta(m.op, pagina[m.proceso])
           /\ UNCHANGED <<pagina, hecho>>
        \/ /\ respuestas_mem' = respuestas_mem \o Respuesta(m.op, Basura)
           /\ pagina' = [pagina EXCEPT ![m.proceso] = m.dato]
           /\ hecho' = IF pedido[m.proceso].op = "F_READ" THEN [hecho EXCEPT ![m.proceso] = "existe"]
                       ELSE hecho
    BY DEF Servir, Respuesta
  <1>4. /\ pedidos_mem # <<>> /\ pedidos_mem' = Tail(pedidos_mem)
        /\ UNCHANGED <<discoVars, kernelVars, hilo, fuera, caido>>
    BY DEF Servir
  <1> HIDE DEF m
  <1>5. \E v \in Palabras : respuestas_mem' = respuestas_mem \o Respuesta(m.op, v)
    BY <1>1, <1>2, <1>3, NadieFuera
  <1>6. pagina' \in [Procesos -> Palabras]
    BY <1>1, <1>2, <1>3
  <1>7. \A q \in Procesos : hecho'[q] # hecho[q] => pedido[q].op = "F_READ" /\ hecho'[q] = "existe"
    BY <1>1, <1>2, <1>3
  <1> QED BY <1>4, <1>5, <1>6, <1>7 DEF m

LEMMA MemoriaTipo ==
  ASSUME IInv, Next
  PROVE  TipoMemoria'
  <1>0. /\ pagina \in [Procesos -> Palabras]
        /\ pedidos_mem \in Seq(Envios) /\ respuestas_mem \in Seq(Fichas)
    BY DEF IInv, Tipo, TipoMemoria
  <1>1. ASSUME Servir PROVE TipoMemoria'
    <2>1. PICK v \in Palabras : respuestas_mem' = respuestas_mem \o Respuesta(Head(pedidos_mem).op, v)
      BY <1>1, ServirHace
    <2>2. Respuesta(Head(pedidos_mem).op, v) \in Seq(Fichas)
      BY <1>1, EnvioTipo, RespuestaTipo DEF Servir, IInv
    <2>3. respuestas_mem' \in Seq(Fichas)
      BY <1>0, <2>1, <2>2
    <2>4. pedidos_mem' \in Seq(Envios) /\ pagina' \in [Procesos -> Palabras]
      <3>1. pedidos_mem # <<>> /\ pedidos_mem' = Tail(pedidos_mem) /\ pagina' \in [Procesos -> Palabras]
        BY <1>1, ServirHace
      <3> QED BY <1>0, <3>1
    <2> QED BY <2>3, <2>4 DEF TipoMemoria
  <1>2. ASSUME Programas PROVE TipoMemoria'
    <2>1. PICK p \in Procesos, f \in Archivos :
            \/ PedirAbrir(p, f)
            \/ \E op \in OpsMem \cup {"F_TRUNCATE"}, n \in 0 .. MaxBloques : Pedir(p, op, f, n)
      BY <1>2, ProgramasSon
    <2>2. UNCHANGED <<pedidos_mem, respuestas_mem>> /\ (pagina' = pagina \/ pagina' = [pagina EXCEPT ![p] = p])
      BY <2>1 DEF PedirAbrir, Pedir, Llega
    <2>3. pagina' \in [Procesos -> Palabras]
      BY <1>0, <2>2, NadieFuera
    <2> QED BY <1>0, <2>2, <2>3 DEF TipoMemoria
  <1>3. ASSUME NEW p \in Procesos, Hilo(p) PROVE TipoMemoria'
    <2>1. CASE PedirMemoria(p)
      <3>1. [op |-> "F_WRITE", proceso |-> p, dato |-> Basura] \in Envios
        BY NadieFuera DEF Envios, OpsMem
      <3> QED BY <1>0, <2>1, <3>1 DEF PedirMemoria, TipoMemoria
    <2>2. CASE Leer(p)
      <3>1. leer_bloque(hilo[p].bloque) \in Palabras
        BY HiloCampos DEF IInv, Tipo, TipoDisco, leer_bloque
      <3>2. [op |-> "F_READ", proceso |-> p, dato |-> leer_bloque(hilo[p].bloque)] \in Envios
        BY <3>1 DEF Envios, OpsMem
      <3> QED BY <1>0, <2>2, <3>2 DEF Leer, TipoMemoria
    <2>3. CASE RecibirCodigo(p) \/ RecibirBuffer(p)
      <3>1. /\ respuestas_mem # <<>> /\ respuestas_mem' = Tail(respuestas_mem)
            /\ UNCHANGED <<pagina, pedidos_mem>>
        BY <2>3 DEF RecibirCodigo, RecibirBuffer
      <3> QED BY <1>0, <3>1 DEF TipoMemoria
    <2>4. CASE ~(PedirMemoria(p) \/ Leer(p) \/ RecibirCodigo(p) \/ RecibirBuffer(p))
      <3>1. UNCHANGED memoriaVars
        BY <1>3, <2>4 DEF Hilo, Abrir, Crear, Truncar, BloqueInicial, BuscarLibre, Anotar, Seguir, Quitar,
                          Fijar, Ubicar, Caminar, Escribir, Responder, PedirCrear, Llega, memoriaVars
      <3> QED BY <1>0, <3>1 DEF memoriaVars, TipoMemoria
    <2> QED BY <2>1, <2>2, <2>3, <2>4
  <1> QED BY <1>1, <1>2, <1>3 DEF Next

LEMMA TipoSigue ==
  ASSUME IInv, [Next]_vars
  PROVE  Tipo'
  <1>1. CASE Next
    BY <1>1, DiscoTipo, HilosTipo, KernelTipo, MemoriaTipo DEF Tipo
  <1>2. CASE UNCHANGED vars
    BY <1>2 DEF vars, IInv, Tipo, TipoDisco, TipoHilos, TipoKernel, TipoMemoria
  <1> QED BY <1>1, <1>2

-----------------------------------------------------------------------------
(* Where each thread is is kept *)

\* A step that gives no FCB a name leaves the names as they were.
NombresIguales ==
  /\ DOMAIN lista_fcb' = DOMAIN lista_fcb
  /\ \A j \in DOMAIN lista_fcb : lista_fcb'[j].nombre = lista_fcb[j].nombre

LEMMA NombresQuietos ==
  ASSUME NombresIguales
  PROVE  /\ \A f : Existe(f)' <=> Existe(f)
         /\ \A f : conseguir_id_fcb(f)' = conseguir_id_fcb(f)
         /\ NombresUnicos => NombresUnicos'
  <1>1. ASSUME NEW f PROVE Existe(f)' <=> Existe(f)
    BY DEF NombresIguales, Existe
  <1>2. ASSUME NEW f PROVE conseguir_id_fcb(f)' = conseguir_id_fcb(f)
    <2> DEFINE con == {k \in DOMAIN lista_fcb : lista_fcb[k].nombre = f}
               despues == {k \in DOMAIN lista_fcb' : lista_fcb'[k].nombre = f}
    <2>1. con = despues
      BY DEF NombresIguales
    <2> QED BY <2>1 DEF conseguir_id_fcb
  <1>3. NombresUnicos => NombresUnicos'
    BY DEF NombresIguales, NombresUnicos
  <1> QED BY <1>1, <1>2, <1>3

LEMMA NombresSiguen ==
  ASSUME IInv, Next, \A p \in Procesos : ~Crear(p)
  PROVE  NombresIguales
  <1>0. Tipo
    BY DEF IInv
  <1>1. CASE \A p \in Procesos : ~EnDisco(p)
    BY <1>1, DiscoQuieto DEF discoVars, NombresIguales
  <1>2. ASSUME NEW p \in Procesos, EnDisco(p) PROVE NombresIguales
    <2>1. CASE BloqueInicial(p)
      <3>1. PICK b \in obtener_primer_bloque_libre : lista_fcb' = [lista_fcb EXCEPT ![Fcb(p)].ini = b]
        BY <2>1 DEF BloqueInicial
      <3>2. b \in Posicion /\ Fcb(p) \in DOMAIN lista_fcb
        BY <1>0, <2>1, BloqueInicialHace, FcbDelHilo, PrimerLibre
      <3> QED BY <1>0, <3>1, <3>2, IniCambia DEF NombresIguales
    <2>2. CASE Quitar(p)
      <3>1. PICK sig \in posicion_en_fat(lista_fcb[Fcb(p)].ini) :
              lista_fcb' = [lista_fcb EXCEPT ![Fcb(p)].ini = sig]
        BY <2>2 DEF Quitar
      <3>2. Fcb(p) \in DOMAIN lista_fcb /\ lista_fcb[Fcb(p)].ini \in Posicion
        BY <2>2, QuitarHace, FcbDelHilo
      <3> QED BY <1>0, <3>1, <3>2, LeeFat, IniCambia DEF NombresIguales
    <2>3. CASE Fijar(p)
      BY <1>0, <2>3, FijarHace, FcbDelHilo, TamCambia DEF NombresIguales
    <2>4. CASE Anotar(p) \/ Escribir(p)
      BY <2>4 DEF Anotar, Escribir, NombresIguales
    <2> QED BY <1>2, <2>1, <2>2, <2>3, <2>4 DEF EnDisco
  <1> QED BY <1>1, <1>2

\* What p's F_OPEN or F_CREATE found.
Encontrado(p, r) ==
  IF r = "existe" THEN Existe(pedido[p].archivo)
  ELSE IF pedido[p].op = "F_OPEN" THEN ~Existe(pedido[p].archivo) ELSE r = "error"

\* A step that moves threads: what has to be shown of it.
LEMMA MoverLugar ==
  ASSUME IInv, NombresIguales, UNCHANGED kernelVars,
         \A q \in Procesos : Orden(q)',
         \A q \in Procesos : hilo'[q].paso = "crear" => hilo[q].paso = "crear",
         \A q \in Procesos :
           pedido[q].op \in OpsAbre /\ hilo'[q].paso = "responder" => Encontrado(q, hecho'[q])
  PROVE  Lugar'
  <1>0. Lugar /\ \A f : Existe(f)' <=> Existe(f)
    BY NombresQuietos DEF IInv
  <1>1. /\ UNCHANGED <<pedido, kernel, abiertos>>
        /\ \A q \in Procesos : Existe(pedido[q].archivo)' <=> Existe(pedido[q].archivo)
        /\ Existe(kernel.archivo)' <=> Existe(kernel.archivo)
    <2>1. UNCHANGED <<pedido, kernel, abiertos>>
      BY DEF kernelVars
    <2> QED BY <2>1 DEF NombresIguales, Existe
  <1>2. Apertura'
    <2>1. \A q \in Procesos : pedido'[q].op \in OpsAbre =>
            kernel'.proceso = q /\ ~kernel'.falta /\ pedido'[q].archivo = kernel'.archivo
      BY <1>0, <1>1 DEF Lugar, Apertura
    <2>2. ASSUME NEW q \in Procesos, pedido'[q].op \in OpsAbre, hilo'[q].paso = "responder"
          PROVE  IF hecho'[q] = "existe" THEN Existe(pedido[q].archivo)'
                 ELSE IF pedido'[q].op = "F_OPEN" THEN ~Existe(pedido[q].archivo)'
                 ELSE hecho'[q] = "error"
      <3>1. Encontrado(q, hecho'[q])
        BY <1>1, <2>2
      <3> QED BY <1>1, <3>1 DEF Encontrado
    <2>3. ASSUME NEW q \in Procesos, hilo'[q].paso = "crear" PROVE ~Existe(pedido[q].archivo)'
      <3>1. hilo[q].paso = "crear" /\ ~Existe(pedido[q].archivo)
        BY <1>0, <2>3 DEF Lugar, Apertura
      <3> QED BY <1>1, <3>1
    <2>4. kernel'.falta => kernel'.archivo \in Archivos /\ ~Existe(kernel.archivo)'
      BY <1>0, <1>1 DEF Lugar, Apertura
    <2> QED BY <2>1, <2>2, <2>3, <2>4 DEF Apertura
  <1>3. Abiertos'
    <2>1. ASSUME NEW v \in abiertos' PROVE Existe(v[2])'
      BY <1>0, <1>1, <2>1 DEF Lugar, Abiertos
    <2>2. ASSUME NEW q \in Procesos, pedido'[q].op \in OpsMem \cup {"F_TRUNCATE"}
          PROVE  Existe(pedido[q].archivo)'
      BY <1>0, <1>1, <2>2 DEF Lugar, Abiertos
    <2> QED BY <2>1, <2>2 DEF Abiertos
  <1>4. NombresUnicos'
    BY <1>0, NombresQuietos DEF Lugar
  <1> QED BY <1>2, <1>3, <1>4 DEF Lugar

\* The same for a step of the thread of p.
LEMMA HiloLugar ==
  ASSUME IInv, NEW p \in Procesos, NombresIguales, UNCHANGED kernelVars,
         \A q \in Procesos : q # p => hilo'[q] = hilo[q] /\ hecho'[q] = hecho[q],
         Orden(p)', hilo'[p].paso # "crear",
         pedido[p].op \in OpsAbre /\ hilo'[p].paso = "responder" => Encontrado(p, hecho'[p])
  PROVE  Lugar'
  <1>0. Lugar /\ UNCHANGED pedido
    BY DEF IInv, kernelVars
  <1>1. ASSUME NEW q \in Procesos, q # p PROVE Orden(q)'
    BY <1>0, <1>1 DEF Lugar, Orden
  <1>2. ASSUME NEW q \in Procesos, q # p, pedido[q].op \in OpsAbre, hilo'[q].paso = "responder"
        PROVE  Encontrado(q, hecho'[q])
    BY <1>0, <1>2 DEF Lugar, Apertura, Encontrado
  <1> QED BY <1>1, <1>2, MoverLugar

\* And for one that moves none, and may say that an F_READ is done.
LEMMA QuietosLugar ==
  ASSUME IInv, NombresIguales, UNCHANGED kernelVars, UNCHANGED hilo,
         \A q \in Procesos : hecho'[q] # hecho[q] => pedido[q].op = "F_READ"
  PROVE  Lugar'
  <1>0. Lugar /\ UNCHANGED pedido
    BY DEF IInv, kernelVars
  <1>1. ASSUME NEW q \in Procesos PROVE Orden(q)'
    BY <1>0 DEF Lugar, Orden
  <1>2. ASSUME NEW q \in Procesos, pedido[q].op \in OpsAbre, hilo'[q].paso = "responder"
        PROVE  Encontrado(q, hecho'[q])
    BY <1>0, <1>2 DEF Lugar, Apertura, Encontrado, OpsAbre
  <1> QED BY <1>1, <1>2, MoverLugar

\* The thread of p goes from a step of its request to another one.
LEMMA OrdenSigue ==
  ASSUME IInv, NEW p \in Procesos, UNCHANGED pedido, NEW s, NEW b, NEW c, NEW v, Queda(p, s, b, c, v),
         hilo[p].paso # "ninguno", s # "ninguno", s # "buscar", s # "crear", s # "pedir",
         s \in PasosTruncar => pedido[p].op = "F_TRUNCATE",
         s \in {"codigo", "buffer", "ubicar", "caminar"} => pedido[p].op \in OpsMem,
         s \in {"inicial", "libre", "anotar", "seguir", "quitar"} => c >= 1,
         s = "anotar" => v \in Posicion,
         s \in {"ubicar", "caminar"} /\ pedido[p].op = "F_WRITE" => v \in Palabras
  PROVE  Orden(p)' /\ hilo'[p].paso # "crear" /\ hilo'[p].paso = s
  <1>1. pedido[p] # SinPedido
    BY DEF IInv, Lugar, Orden
  <1> QED BY <1>1 DEF Queda, Orden

LEMMA Avanza ==
  ASSUME IInv, NEW p \in Procesos, NombresIguales, UNCHANGED kernelVars,
         \A q \in Procesos : q # p => hecho'[q] = hecho[q],
         NEW s, NEW b, NEW c, NEW v, Queda(p, s, b, c, v),
         hilo[p].paso # "ninguno", pedido[p].op \in OpsMem \cup {"F_TRUNCATE"},
         s # "ninguno", s # "buscar", s # "crear", s # "pedir",
         s \in PasosTruncar => pedido[p].op = "F_TRUNCATE",
         s \in {"codigo", "buffer", "ubicar", "caminar"} => pedido[p].op \in OpsMem,
         s \in {"inicial", "libre", "anotar", "seguir", "quitar"} => c >= 1,
         s = "anotar" => v \in Posicion,
         s \in {"ubicar", "caminar"} /\ pedido[p].op = "F_WRITE" => v \in Palabras
  PROVE  Lugar'
  <1>1. Orden(p)' /\ hilo'[p].paso # "crear"
    BY OrdenSigue DEF kernelVars
  <1>2. \A q \in Procesos : q # p => hilo'[q] = hilo[q]
    BY DEF Queda
  <1> QED BY <1>1, <1>2, HiloLugar DEF OpsAbre, OpsMem

LEMMA TruncarLugar ==
  ASSUME IInv, NEW p \in Procesos, NombresIguales,
         \/ Truncar(p) \/ BloqueInicial(p) \/ BuscarLibre(p) \/ Anotar(p) \/ Seguir(p)
         \/ Quitar(p) \/ Fijar(p)
  PROVE  Lugar'
  <1> DEFINE h == hilo[p]
             n == pedido[p].arg
             t == lista_fcb[Fcb(p)].tam
  <1>0. UNCHANGED kernelVars /\ \A q \in Procesos : q # p => hecho'[q] = hecho[q]
    BY DEF Truncar, BloqueInicial, BuscarLibre, Anotar, Seguir, Quitar, Fijar, En, Hace, IInv, Tipo, TipoHilos
  <1>1. h.cuenta \in Int /\ (h.paso \in {"inicial", "libre", "anotar", "seguir", "quitar"} => h.cuenta >= 1)
    BY HiloCampos DEF IInv, Lugar, Orden
  <1>2. h.paso \in PasosTruncar
    BY DEF Truncar, BloqueInicial, BuscarLibre, Anotar, Seguir, Quitar, Fijar, En, PasosTruncar
  <1>3. h.paso # "ninguno" /\ pedido[p].op = "F_TRUNCATE"
    BY <1>2 DEF IInv, Lugar, Orden, PasosTruncar
  <1>4. ASSUME NEW s \in {"inicial", "libre", "anotar", "seguir", "quitar", "fijar", "responder"},
               NEW b, NEW c, NEW v, Queda(p, s, b, c, v),
               s \in {"inicial", "libre", "anotar", "seguir", "quitar"} => c >= 1,
               s = "anotar" => v \in Posicion
        PROVE  Lugar'
    BY <1>0, <1>3, <1>4, Avanza
  <1>5. CASE Truncar(p)
    <2>1. t \in 0 .. MaxBloques /\ n \in 0 .. MaxBloques
      BY <1>3, FcbDelHilo
    <2>2. /\ n > t => n - t >= 1
          /\ n > 0 => n >= 1
      BY <2>1, Medidas
    <2>3. \/ n > t /\ Queda(p, "inicial", 0, n - t, h.valor)
          \/ n > t /\ Queda(p, "libre", lista_fcb[Fcb(p)].ini, n - t, h.valor)
          \/ n > 0 /\ Queda(p, "quitar", h.bloque, n, h.valor)
          \/ Queda(p, "fijar", h.bloque, h.cuenta, h.valor)
      BY <1>5, TruncarHace
    <2> HIDE DEF n, t
    <2> QED BY <1>4, <2>2, <2>3
  <1>6. CASE BloqueInicial(p)
    <2>1. PICK b : Queda(p, "libre", b, h.cuenta, h.valor)
      BY <1>6, BloqueInicialHace
    <2>2. h.cuenta >= 1
      BY <1>1, <1>6, BloqueInicialHace
    <2> QED BY <1>4, <2>1, <2>2
  <1>7. CASE BuscarLibre(p)
    <2>1. PICK b \in obtener_primer_bloque_libre : Queda(p, "anotar", h.bloque, h.cuenta, b)
      BY <1>7, BuscarLibreHace
    <2>2. b \in Posicion /\ h.cuenta >= 1
      BY <1>1, <1>7, BuscarLibreHace, PrimerLibre DEF IInv
    <2> QED BY <1>4, <2>1, <2>2
  <1>8. CASE Anotar(p)
    <2>1. Queda(p, "seguir", h.bloque, h.cuenta, h.valor) /\ h.cuenta >= 1
      BY <1>1, <1>8, AnotarHace
    <2> QED BY <1>4, <2>1
  <1>9. CASE Seguir(p)
    <2>1. PICK b : \/ Queda(p, "fijar", b, h.cuenta - 1, Basura)
                   \/ h.cuenta > 1 /\ Queda(p, "libre", b, h.cuenta - 1, Basura)
      BY <1>9, SeguirHace
    <2>2. h.cuenta > 1 => h.cuenta - 1 >= 1
      BY <1>1
    <2> HIDE DEF h
    <2> QED BY <1>4, <2>1, <2>2
  <1>10. CASE Quitar(p)
    <2>1. \/ Queda(p, "fijar", h.bloque, h.cuenta - 1, h.valor)
          \/ h.cuenta > 1 /\ Queda(p, "quitar", h.bloque, h.cuenta - 1, h.valor)
      BY <1>10, QuitarHace
    <2>2. h.cuenta > 1 => h.cuenta - 1 >= 1
      BY <1>1
    <2> HIDE DEF h
    <2> QED BY <1>4, <2>1, <2>2
  <1>11. CASE Fijar(p)
    <2>1. Queda(p, "responder", h.bloque, h.cuenta, h.valor)
      BY <1>11, FijarHace
    <2> QED BY <1>4, <2>1
  <1> QED BY <1>5, <1>6, <1>7, <1>8, <1>9, <1>10, <1>11

LEMMA AccesoLugar ==
  ASSUME IInv, NEW p \in Procesos, NombresIguales,
         \/ PedirMemoria(p) \/ RecibirCodigo(p) \/ RecibirBuffer(p)
         \/ Ubicar(p) \/ Caminar(p) \/ Escribir(p) \/ Leer(p)
  PROVE  Lugar'
  <1> DEFINE h == hilo[p]
  <1>0. UNCHANGED kernelVars /\ \A q \in Procesos : q # p => hecho'[q] = hecho[q]
    BY DEF PedirMemoria, RecibirCodigo, RecibirBuffer, Ubicar, Caminar, Escribir, Leer, En, Hace,
           IInv, Tipo, TipoHilos
  <1>1. h.paso \in {"pedir", "codigo", "buffer", "ubicar", "caminar"}
    BY DEF PedirMemoria, RecibirCodigo, RecibirBuffer, Ubicar, Caminar, Escribir, Leer, En
  <1>2. h.paso # "ninguno" /\ pedido[p].op \in OpsMem
    BY <1>1 DEF IInv, Lugar, Orden, OpsMem
  <1>3. ASSUME NEW s \in {"codigo", "buffer", "ubicar", "caminar", "responder"},
               NEW b, NEW c, NEW v, Queda(p, s, b, c, v),
               s \in {"ubicar", "caminar"} /\ pedido[p].op = "F_WRITE" => v \in Palabras
        PROVE  Lugar'
    BY <1>0, <1>2, <1>3, Avanza DEF PasosTruncar
  <1>4. h.paso \in {"ubicar", "caminar"} /\ pedido[p].op = "F_WRITE" => h.valor \in Palabras
    BY DEF IInv, Lugar, Orden
  <1>5. CASE PedirMemoria(p)
    <2>1. Queda(p, "codigo", h.bloque, h.cuenta, h.valor)
      BY <1>5, PedirMemoriaHace
    <2> QED BY <1>3, <2>1
  <1>6. CASE RecibirCodigo(p)
    <2>1. \/ UNCHANGED <<hilo, hecho>>
          \/ Queda(p, "buffer", h.bloque, h.cuenta, h.valor)
          \/ Queda(p, "responder", h.bloque, h.cuenta, h.valor)
      BY <1>6, RecibirCodigoHace
    <2> QED BY <1>0, <1>3, <2>1, QuietosLugar
  <1>7. CASE RecibirBuffer(p)
    <2>1. \/ UNCHANGED hilo
          \/ \E v \in Palabras : \/ Queda(p, "ubicar", h.bloque, h.cuenta, v)
                                 \/ Queda(p, "responder", h.bloque, h.cuenta, v)
      BY <1>7, RecibirBufferHace
    <2>2. UNCHANGED hecho
      BY <1>7 DEF RecibirBuffer
    <2> QED BY <1>0, <1>3, <2>1, <2>2, QuietosLugar
  <1>8. CASE Ubicar(p)
    <2>1. Queda(p, "caminar", lista_fcb[Fcb(p)].ini, pedido[p].arg, h.valor) /\ h.paso = "ubicar"
      BY <1>8, UbicarHace
    <2> QED BY <1>3, <1>4, <2>1
  <1>9. CASE Caminar(p)
    <2>1. PICK b : Queda(p, "caminar", b, h.cuenta - 1, h.valor)
      BY <1>9, CaminarHace
    <2>2. h.paso = "caminar"
      BY <1>9, CaminarHace
    <2> QED BY <1>3, <1>4, <2>1, <2>2
  <1>10. CASE Escribir(p)
    <2>1. Queda(p, "responder", h.bloque, h.cuenta, h.valor)
      BY <1>10, EscribirHace
    <2> QED BY <1>3, <2>1
  <1>11. CASE Leer(p)
    <2>1. Queda(p, "codigo", h.bloque, h.cuenta, h.valor)
      BY <1>11, LeerHace
    <2> QED BY <1>3, <2>1
  <1> QED BY <1>5, <1>6, <1>7, <1>8, <1>9, <1>10, <1>11

\* Who has an F_OPEN or an F_CREATE is the one inside kf_open.
LEMMA UnoAbre ==
  ASSUME IInv, NEW p \in Procesos, pedido[p].op \in OpsAbre
  PROVE  kernel.proceso = p /\ ~kernel.falta /\ pedido[p].archivo = kernel.archivo
  BY DEF IInv, Lugar, Apertura

LEMMA AbrirLugar ==
  ASSUME IInv, NEW p \in Procesos, NombresIguales, Abrir(p)
  PROVE  Lugar'
  <1> DEFINE h == hilo[p]
  <1>0. UNCHANGED kernelVars /\ hecho \in [Procesos -> Resultados]
    BY DEF Abrir, En, IInv, Tipo, TipoHilos, Resultados
  <1>1. CASE UNCHANGED <<hilo, hecho>>
    BY <1>0, <1>1, QuietosLugar
  <1>2. CASE /\ Queda(p, "responder", h.bloque, h.cuenta, h.valor)
             /\ Hace(p, IF Existe(pedido[p].archivo) THEN "existe" ELSE "no existe")
    <2>1. pedido[p].op = "F_OPEN" /\ pedido[p] # SinPedido
      <3>1. pedido[p].op = "F_OPEN"
        BY AbrirHace
      <3> QED BY <3>1 DEF SinPedido
    <2>2. hecho'[p] = IF Existe(pedido[p].archivo) THEN "existe" ELSE "no existe"
      BY <1>0, <1>2 DEF Hace
    <2>3. \A q \in Procesos : q # p => hilo'[q] = hilo[q] /\ hecho'[q] = hecho[q]
      BY <1>0, <1>2 DEF Hace, Queda
    <2>4. hilo'[p].paso = "responder" /\ UNCHANGED pedido
      BY <1>0, <1>2 DEF Queda, kernelVars
    <2>5. Orden(p)'
      BY <2>1, <2>4 DEF Orden, PasosTruncar
    <2>6. Encontrado(p, hecho'[p])
      BY <2>1, <2>2 DEF Encontrado
    <2> QED BY <1>0, <2>3, <2>4, <2>5, <2>6, HiloLugar
  <1> QED BY <1>1, <1>2, AbrirHace

LEMMA CrearLugar ==
  ASSUME IInv, NEW p \in Procesos, Crear(p)
  PROVE  Lugar'
  <1> DEFINE h == hilo[p]
             f == pedido[p].archivo
             k == Len(lista_fcb) + 1
  <1>1. /\ h.paso = "crear" /\ pedido[p].op = "F_CREATE" /\ ~Existe(f)
        /\ Queda(p, "responder", h.bloque, h.cuenta, h.valor) /\ Hace(p, "existe")
    BY CrearHace
  <1>2. UNCHANGED <<pedido, kernel, abiertos>>
    BY DEF Crear, En, kernelVars
  <1>3. hecho'[p] = "existe"
    BY <1>1 DEF Hace, IInv, Tipo, TipoHilos
  <1>4. /\ lista_fcb \in Seq(Fcbs) /\ DOMAIN lista_fcb' = 1 .. k /\ DOMAIN lista_fcb = 1 .. Len(lista_fcb)
        /\ \A j \in DOMAIN lista_fcb : lista_fcb'[j] = lista_fcb[j]
        /\ lista_fcb'[k] = FcbNuevo(f)
    <2>1. lista_fcb \in Seq(Fcbs) /\ FcbNuevo(f) \in Fcbs /\ lista_fcb' = Append(lista_fcb, FcbNuevo(f))
      BY CrearHace DEF IInv, Tipo, TipoDisco
    <2> QED BY <2>1, FcbCrece
  <1>5. lista_fcb'[k].nombre = f /\ k \in DOMAIN lista_fcb' /\ k \notin DOMAIN lista_fcb
    BY <1>4 DEF FcbNuevo
  <1>6. DOMAIN lista_fcb' = DOMAIN lista_fcb \cup {k}
    BY <1>4
  <1> HIDE DEF k
  <1>7. /\ \A g : Existe(g) => Existe(g)'
        /\ \A q \in Procesos : Existe(pedido[q].archivo) => Existe(pedido[q].archivo)'
        /\ Existe(pedido[p].archivo)'
    BY <1>2, <1>4, <1>5, <1>6 DEF Existe
  <1>8. kernel.proceso = p /\ ~kernel.falta
    BY <1>1, UnoAbre DEF OpsAbre
  <1>9. \A q \in Procesos : pedido[q].op \in OpsAbre => q = p
    BY <1>8, UnoAbre
  <1>10. \A q \in Procesos : Orden(q)'
    <2>1. Orden(p)'
      BY <1>1, <1>2 DEF Queda, Orden, PasosTruncar, SinPedido
    <2>2. ASSUME NEW q \in Procesos, q # p PROVE Orden(q)'
      BY <1>1, <1>2, <2>2 DEF Queda, Orden, IInv, Lugar
    <2> QED BY <2>1, <2>2
  <1>11. Apertura'
    <2>1. \A q \in Procesos : pedido'[q].op \in OpsAbre =>
            kernel'.proceso = q /\ ~kernel'.falta /\ pedido'[q].archivo = kernel'.archivo
      BY <1>2, UnoAbre
    <2>2. \A q \in Procesos : pedido'[q].op \in OpsAbre => hecho'[q] = "existe" /\ Existe(pedido[q].archivo)'
      BY <1>2, <1>3, <1>7, <1>9
    <2>3. \A q \in Procesos : hilo'[q].paso # "crear"
      <3>1. hilo'[p].paso # "crear"
        BY <1>1 DEF Queda
      <3>2. ASSUME NEW q \in Procesos, q # p, hilo[q].paso = "crear" PROVE FALSE
        BY <1>9, <3>2 DEF IInv, Lugar, Orden, OpsAbre
      <3> QED BY <1>1, <3>1, <3>2 DEF Queda
    <2>4. ~kernel'.falta
      BY <1>2, <1>8
    <2> QED BY <2>1, <2>2, <2>3, <2>4 DEF Apertura
  <1>12. Abiertos'
    <2>1. \A v \in abiertos' : Existe(v[2])'
      BY <1>2, <1>7 DEF IInv, Lugar, Abiertos
    <2>2. ASSUME NEW q \in Procesos, pedido'[q].op \in OpsMem \cup {"F_TRUNCATE"}
          PROVE  Existe(pedido[q].archivo)'
      BY <1>2, <1>7, <2>2 DEF IInv, Lugar, Abiertos
    <2> QED BY <2>1, <2>2 DEF Abiertos
  <1>13. NombresUnicos'
    <2>1. \A j \in DOMAIN lista_fcb : lista_fcb[j].nombre # f
      BY <1>1 DEF Existe
    <2>2. \A i, j \in DOMAIN lista_fcb : i # j => lista_fcb[i].nombre # lista_fcb[j].nombre
      BY DEF IInv, Lugar, NombresUnicos
    <2>3. \A i, j \in DOMAIN lista_fcb' : i # j => lista_fcb'[i].nombre # lista_fcb'[j].nombre
      <3> SUFFICES ASSUME NEW i \in DOMAIN lista_fcb', NEW j \in DOMAIN lista_fcb', i # j
                   PROVE  lista_fcb'[i].nombre # lista_fcb'[j].nombre
        OBVIOUS
      <3>1. \A m \in DOMAIN lista_fcb : lista_fcb'[m].nombre = lista_fcb[m].nombre
        BY <1>4
      <3>2. i \in DOMAIN lista_fcb \/ i = k
        BY <1>6
      <3>3. j \in DOMAIN lista_fcb \/ j = k
        BY <1>6
      <3> QED BY <1>5, <2>1, <2>2, <3>1, <3>2, <3>3
    <2> QED BY <2>3 DEF NombresUnicos
  <1> QED BY <1>10, <1>11, <1>12, <1>13 DEF Lugar

LEMMA ResponderLugar ==
  ASSUME IInv, NEW p \in Procesos, Responder(p)
  PROVE  Lugar'
  <1> DEFINE f == pedido[p].archivo
  <1>1. /\ hilo[p].paso = "responder" /\ pedido[p] # SinPedido
        /\ pedido'[p] = SinPedido /\ \A q \in Procesos : q # p => pedido'[q] = pedido[q]
        /\ Queda(p, "ninguno", 0, 0, Basura)
    BY ResponderHace
  <1>2. /\ UNCHANGED lista_fcb /\ hecho' = [hecho EXCEPT ![p] = "no"]
        /\ kernel' = IF pedido[p].op \notin OpsAbre \/ hecho[p] = "error" THEN kernel
                     ELSE IF hecho[p] = "existe" THEN [kernel EXCEPT !.proceso = Nadie]
                     ELSE [kernel EXCEPT !.falta = TRUE]
        /\ abiertos' = IF kernel'.proceso # kernel.proceso THEN abiertos \cup {<<p, f>>} ELSE abiertos
    BY DEF Responder, discoVars, OpsAbre
  <1>3. pedido[p].op \in OpsAbre => Encontrado(p, hecho[p]) /\ f = kernel.archivo /\ f \in Archivos
    BY <1>1, UnoAbre, PedidoCampos DEF IInv, Lugar, Apertura, Encontrado
  <1>4. /\ \A g : Existe(g)' <=> Existe(g)
        /\ \A q \in Procesos : q # p => (Existe(pedido[q].archivo)' <=> Existe(pedido[q].archivo))
        /\ kernel'.archivo = kernel.archivo => (Existe(kernel.archivo)' <=> Existe(kernel.archivo))
    BY <1>1, <1>2 DEF Existe
  <1>5. kernel \in [proceso : Procesos \cup {Nadie}, archivo : Archivos \cup {Nadie}, falta : BOOLEAN]
    BY DEF IInv, Tipo, TipoKernel
  <1>6. /\ pedido[p].op \notin OpsAbre => kernel' = kernel
        /\ kernel'.archivo = kernel.archivo
        /\ kernel'.falta => kernel.falta \/ (pedido[p].op \in OpsAbre /\ hecho[p] \notin {"error", "existe"})
        /\ kernel'.proceso # kernel.proceso => pedido[p].op \in OpsAbre /\ hecho[p] = "existe"
    BY <1>2, <1>5
  <1>7. \A q \in Procesos : Orden(q)'
    <2>1. Orden(p)'
      BY <1>1 DEF Queda, Orden, PasosTruncar
    <2>2. ASSUME NEW q \in Procesos, q # p PROVE Orden(q)'
      BY <1>1, <2>2 DEF Queda, Orden, IInv, Lugar
    <2> QED BY <2>1, <2>2
  <1>8. Apertura'
    <2>1. ASSUME NEW q \in Procesos, pedido'[q].op \in OpsAbre
          PROVE  q # p /\ pedido'[q] = pedido[q] /\ kernel' = kernel
      <3>1. q # p
        BY <1>1, <2>1 DEF SinPedido, OpsAbre
      <3>2. kernel.proceso = q
        BY <1>1, <2>1, <3>1, UnoAbre
      <3>3. pedido[p].op \notin OpsAbre
        BY <3>1, <3>2, UnoAbre
      <3> QED BY <1>1, <1>6, <3>1, <3>3
    <2>2. \A q \in Procesos : pedido'[q].op \in OpsAbre =>
            kernel'.proceso = q /\ ~kernel'.falta /\ pedido'[q].archivo = kernel'.archivo
      BY <2>1, UnoAbre
    <2>3. ASSUME NEW q \in Procesos, pedido'[q].op \in OpsAbre, hilo'[q].paso = "responder"
          PROVE  IF hecho'[q] = "existe" THEN Existe(pedido[q].archivo)'
                 ELSE IF pedido'[q].op = "F_OPEN" THEN ~Existe(pedido[q].archivo)'
                 ELSE hecho'[q] = "error"
      <3>1. q # p /\ pedido'[q] = pedido[q] /\ hilo'[q] = hilo[q]
        BY <1>1, <2>1, <2>3 DEF Queda
      <3>2. hecho'[q] = hecho[q]
        BY <1>2, <3>1 DEF IInv, Tipo, TipoHilos
      <3>3. Encontrado(q, hecho[q])
        BY <2>3, <3>1 DEF IInv, Lugar, Apertura, Encontrado
      <3> QED BY <1>4, <3>1, <3>2, <3>3 DEF Encontrado
    <2>4. ASSUME NEW q \in Procesos, hilo'[q].paso = "crear" PROVE ~Existe(pedido[q].archivo)'
      <3>1. q # p
        BY <1>1, <2>4 DEF Queda
      <3>2. hilo[q].paso = "crear"
        BY <1>1, <2>4, <3>1 DEF Queda
      <3> QED BY <1>4, <3>1, <3>2 DEF IInv, Lugar, Apertura
    <2>5. kernel'.falta => kernel'.archivo \in Archivos /\ ~Existe(kernel.archivo)'
      <3>1. kernel'.falta => kernel.archivo \in Archivos /\ ~Existe(kernel.archivo)
        <4>1. CASE kernel.falta
          BY <4>1 DEF IInv, Lugar, Apertura
        <4>2. CASE pedido[p].op \in OpsAbre /\ hecho[p] \notin {"error", "existe"}
          BY <1>3, <4>2 DEF Encontrado
        <4> QED BY <1>6, <4>1, <4>2
      <3> QED BY <1>4, <1>6, <3>1
    <2> QED BY <2>2, <2>3, <2>4, <2>5 DEF Apertura
  <1>9. Abiertos'
    <2>1. ASSUME NEW v \in abiertos' PROVE Existe(v[2])'
      <3>1. CASE v \in abiertos
        BY <1>4, <3>1 DEF IInv, Lugar, Abiertos
      <3>2. CASE v \notin abiertos
        <4>1. v = <<p, f>> /\ kernel'.proceso # kernel.proceso
          BY <1>2, <2>1, <3>2
        <4>2. v[2] = f /\ Existe(f)
          BY <1>3, <1>6, <4>1 DEF Encontrado
        <4>3. \A g : g = f => Existe(g)'
          BY <1>4, <4>2
        <4> QED BY <4>2, <4>3
      <3> QED BY <3>1, <3>2
    <2>2. ASSUME NEW q \in Procesos, pedido'[q].op \in OpsMem \cup {"F_TRUNCATE"}
          PROVE  Existe(pedido[q].archivo)'
      <3>1. q # p
        BY <1>1, <2>2 DEF SinPedido, OpsMem
      <3> QED BY <1>1, <1>4, <2>2, <3>1 DEF IInv, Lugar, Abiertos
    <2> QED BY <2>1, <2>2 DEF Abiertos
  <1>10. NombresUnicos'
    BY <1>2 DEF NombresUnicos, IInv, Lugar
  <1> QED BY <1>7, <1>8, <1>9, <1>10 DEF Lugar

\* A request that arrives: what has to be shown of it and of kf_open.
LEMMA LlegaLugar ==
  ASSUME IInv, NEW p \in Procesos, NEW op \in OpsAbre \cup OpsMem \cup {"F_TRUNCATE"}, NEW f, NEW n, NEW s,
         Llega(p, op, f, n, s), Queda(p, s, 0, 0, Basura),
         s = CASE op = "F_OPEN" -> "buscar" [] op = "F_CREATE" -> "crear" [] op = "F_TRUNCATE" -> "truncar"
               [] op = "F_WRITE" -> "pedir" [] op = "F_READ" -> "ubicar",
         \A q \in Procesos : q # p => pedido[q].op \notin OpsAbre,
         op \in OpsAbre => kernel'.proceso = p /\ ~kernel'.falta /\ kernel'.archivo = f,
         op \notin OpsAbre => UNCHANGED kernel /\ Existe(f),
         op = "F_CREATE" => ~Existe(f)
  PROVE  Lugar'
  <1>1. /\ pedido'[p].op = op /\ pedido'[p].archivo = f
        /\ \A q \in Procesos : q # p => pedido'[q] = pedido[q]
    BY DEF Llega, IInv, Tipo, TipoKernel
  <1>2. UNCHANGED <<lista_fcb, hecho, abiertos>>
    BY DEF Llega, discoVars
  <1>3. /\ \A g : Existe(g)' <=> Existe(g)
        /\ \A q \in Procesos : q # p => (Existe(pedido[q].archivo)' <=> Existe(pedido[q].archivo))
        /\ Existe(pedido[p].archivo)' <=> Existe(f)
        /\ UNCHANGED kernel => (Existe(kernel.archivo)' <=> Existe(kernel.archivo))
    BY <1>1, <1>2 DEF Existe
  <1>0. \/ op = "F_OPEN" /\ s = "buscar"
        \/ op = "F_CREATE" /\ s = "crear"
        \/ op = "F_TRUNCATE" /\ s = "truncar"
        \/ op = "F_WRITE" /\ s = "pedir"
        \/ op = "F_READ" /\ s = "ubicar"
    BY DEF OpsAbre, OpsMem
  <1>4. \A q \in Procesos : Orden(q)'
    <2>1. Orden(p)'
      <3>1. s # "ninguno" /\ pedido'[p] # SinPedido
        BY <1>0, <1>1 DEF SinPedido
      <3>2. hilo'[p].paso = s
        BY DEF Queda
      <3> QED BY <1>0, <1>1, <3>1, <3>2 DEF Orden, PasosTruncar, OpsMem
    <2>2. ASSUME NEW q \in Procesos, q # p PROVE Orden(q)'
      BY <1>1, <2>2 DEF Queda, Orden, IInv, Lugar
    <2> QED BY <2>1, <2>2
  <1>5. Apertura'
    <2>1. ASSUME NEW q \in Procesos, pedido'[q].op \in OpsAbre
          PROVE  q = p /\ op \in OpsAbre
      BY <1>1, <2>1
    <2>2. hilo'[p].paso = s
      BY DEF Queda
    <2>3. \A q \in Procesos : pedido'[q].op \in OpsAbre =>
            kernel'.proceso = q /\ ~kernel'.falta /\ pedido'[q].archivo = kernel'.archivo
      BY <1>1, <2>1
    <2>4. \A q \in Procesos : pedido'[q].op \in OpsAbre => hilo'[q].paso # "responder"
      BY <2>1, <2>2 DEF OpsAbre
    <2>5. ASSUME NEW q \in Procesos, hilo'[q].paso = "crear" PROVE ~Existe(pedido[q].archivo)'
      <3>1. CASE q = p
        <4>1. op = "F_CREATE"
          BY <1>0, <2>2, <2>5, <3>1
        <4> QED BY <1>3, <3>1, <4>1
      <3>2. CASE q # p
        BY <1>3, <2>5, <3>2 DEF Queda, IInv, Lugar, Apertura
      <3> QED BY <3>1, <3>2
    <2>6. kernel'.falta => kernel'.archivo \in Archivos /\ ~Existe(kernel.archivo)'
      BY <1>3 DEF IInv, Lugar, Apertura
    <2> QED BY <2>3, <2>4, <2>5, <2>6 DEF Apertura
  <1>6. Abiertos'
    <2>1. \A v \in abiertos' : Existe(v[2])'
      BY <1>2, <1>3 DEF IInv, Lugar, Abiertos
    <2>2. ASSUME NEW q \in Procesos, pedido'[q].op \in OpsMem \cup {"F_TRUNCATE"}
          PROVE  Existe(pedido[q].archivo)'
      <3>1. CASE q = p
        BY <1>1, <1>3, <2>2, <3>1 DEF OpsAbre, OpsMem
      <3>2. CASE q # p
        BY <1>1, <1>3, <2>2, <3>2 DEF IInv, Lugar, Abiertos
      <3> QED BY <3>1, <3>2
    <2> QED BY <2>1, <2>2 DEF Abiertos
  <1>7. NombresUnicos'
    BY <1>2 DEF NombresUnicos, IInv, Lugar
  <1> QED BY <1>4, <1>5, <1>6, <1>7 DEF Lugar

LEMMA ProgramasLugar ==
  ASSUME IInv, Programas
  PROVE  Lugar'
  <1>1. PICK p \in Procesos, f \in Archivos :
          \/ PedirAbrir(p, f)
          \/ \E op \in OpsMem \cup {"F_TRUNCATE"}, n \in 0 .. MaxBloques : Pedir(p, op, f, n)
    BY ProgramasSon
  <1>2. kernel.proceso = Nadie => \A q \in Procesos : pedido[q].op \notin OpsAbre
    BY UnoAbre, NadieFuera
  <1>3. CASE PedirAbrir(p, f)
    <2>1. /\ kernel.proceso = Nadie
          /\ Llega(p, "F_OPEN", f, 0, "buscar") /\ Queda(p, "buscar", 0, 0, Basura)
      BY <1>3, PedirAbrirHace
    <2>2. kernel' = [proceso |-> p, archivo |-> f, falta |-> FALSE]
      BY <1>3 DEF PedirAbrir
    <2>3. kernel'.proceso = p /\ ~kernel'.falta /\ kernel'.archivo = f
      BY <2>2
    <2>4. "F_OPEN" \in OpsAbre /\ "F_OPEN" \in OpsAbre \cup OpsMem \cup {"F_TRUNCATE"}
      BY DEF OpsAbre
    <2> QED BY <1>2, <2>1, <2>3, <2>4, LlegaLugar
  <1>4. ASSUME NEW op \in OpsMem \cup {"F_TRUNCATE"}, NEW n, Pedir(p, op, f, n) PROVE Lugar'
    <2>1. /\ kernel.proceso = Nadie
          /\ \/ op = "F_TRUNCATE" /\ Llega(p, op, f, n, "truncar") /\ Queda(p, "truncar", 0, 0, Basura)
             \/ op = "F_WRITE" /\ Llega(p, op, f, n, "pedir") /\ Queda(p, "pedir", 0, 0, Basura)
             \/ op = "F_READ" /\ Llega(p, op, f, n, "ubicar") /\ Queda(p, "ubicar", 0, 0, Basura)
      BY <1>4, PedirHace
    <2>2. <<p, f>> \in abiertos /\ UNCHANGED kernel
      BY <1>4 DEF Pedir
    <2>3. Existe(f)
      <3>1. <<p, f>>[2] = f
        OBVIOUS
      <3> QED BY <2>2, <3>1 DEF IInv, Lugar, Abiertos
    <2>4. op \notin OpsAbre
      BY DEF OpsAbre, OpsMem
    <2>5. \A q \in Procesos : q # p => pedido[q].op \notin OpsAbre
      BY <1>2, <2>1
    <2>6. CASE op = "F_TRUNCATE"
      BY <2>1, <2>2, <2>3, <2>4, <2>5, <2>6, LlegaLugar
    <2>7. CASE op = "F_WRITE"
      BY <2>1, <2>2, <2>3, <2>4, <2>5, <2>7, LlegaLugar
    <2>8. CASE op = "F_READ"
      BY <2>1, <2>2, <2>3, <2>4, <2>5, <2>8, LlegaLugar
    <2> QED BY <2>6, <2>7, <2>8 DEF OpsMem
  <1> QED BY <1>1, <1>3, <1>4

LEMMA PedirCrearLugar ==
  ASSUME IInv, NEW p \in Procesos, PedirCrear(p)
  PROVE  Lugar'
  <1> DEFINE f == kernel.archivo
  <1>1. /\ kernel.proceso = p /\ kernel.falta
        /\ Llega(p, "F_CREATE", f, 0, "crear") /\ Queda(p, "crear", 0, 0, Basura)
    BY PedirCrearHace
  <1>2. ~Existe(f)
    BY <1>1 DEF IInv, Lugar, Apertura
  <1>3. kernel'.proceso = p /\ ~kernel'.falta /\ kernel'.archivo = f
    BY <1>1 DEF PedirCrear, IInv, Tipo, TipoKernel
  <1>4. \A q \in Procesos : q # p => pedido[q].op \notin OpsAbre
    BY <1>1, UnoAbre
  <1> HIDE DEF f
  <1>5. "F_CREATE" \in OpsAbre /\ "F_CREATE" \in OpsAbre \cup OpsMem \cup {"F_TRUNCATE"}
    BY DEF OpsAbre
  <1> QED BY <1>1, <1>2, <1>3, <1>4, <1>5, LlegaLugar

LEMMA PasoIInv ==
  ASSUME IInv, [Next]_vars
  PROVE  IInv'
  <1>0. Tipo'
    BY TipoSigue
  <1>1. ASSUME NEW p \in Procesos, Hilo(p), Next PROVE Lugar'
    <2>1. CASE Crear(p)
      BY <2>1, CrearLugar
    <2>2. CASE ~Crear(p)
      <3>1. CASE \E q \in Procesos : Crear(q)
        BY <3>1, CrearLugar
      <3>2. CASE \A q \in Procesos : ~Crear(q)
        <4>1. NombresIguales
          BY <1>1, <3>2, NombresSiguen
        <4> QED BY <1>1, <2>2, <4>1, AbrirLugar, TruncarLugar, AccesoLugar, ResponderLugar, PedirCrearLugar
                DEF Hilo
      <3> QED BY <3>1, <3>2
    <2> QED BY <2>1, <2>2
  <1>2. ASSUME Servir PROVE Lugar'
    <2>1. UNCHANGED <<discoVars, kernelVars, hilo>>
      BY <1>2 DEF Servir
    <2>2. \A q \in Procesos : hecho'[q] # hecho[q] => pedido[q].op = "F_READ"
      BY <1>2, ServirHace
    <2>3. NombresIguales
      BY <2>1 DEF discoVars, NombresIguales
    <2> QED BY <2>1, <2>2, <2>3, QuietosLugar
  <1>3. CASE UNCHANGED vars
    <2>1. NombresIguales /\ UNCHANGED <<kernelVars, hilo, hecho>>
      BY <1>3 DEF vars, NombresIguales, kernelVars
    <2> QED BY <1>0, <2>1, QuietosLugar DEF IInv
  <1> QED BY <1>0, <1>1, <1>2, <1>3, ProgramasLugar DEF Next, IInv

-----------------------------------------------------------------------------
(* Types and names *)

LEMMA InicioIInv ==
  ASSUME Init
  PROVE  IInv
  <1>1. HiloLibre \in Hilos /\ 0 \in Posicion /\ Basura \in Palabras
    BY Medidas, NadieFuera DEF HiloLibre, Hilos, Pasos
  <1>2. TipoDisco
    <2>1. FatInicial \in [Posicion -> Posicion \cup {SinLeer}]
      BY <1>1 DEF FatInicial
    <2>2. BloquesVacios \in [Posicion -> Palabras]
      BY <1>1 DEF BloquesVacios
    <2> QED BY <2>1, <2>2 DEF Init, TipoDisco, RestosPosibles
  <1>3. TipoHilos /\ TipoMemoria
    BY <1>1 DEF Init, TipoHilos, TipoMemoria
  <1>4. TipoKernel
    BY FilesystemSupuestos DEF Init, TipoKernel
  <1>5. \A p \in Procesos : hilo[p].paso = "ninguno" /\ pedido[p] = SinPedido /\ pedido[p].op = "ninguna"
    BY DEF Init, HiloLibre, SinPedido
  <1>6. ~kernel.falta /\ abiertos = {} /\ lista_fcb = <<>>
    BY DEF Init
  <1>7. \A p \in Procesos : Orden(p)
    BY <1>5 DEF Orden, PasosTruncar
  <1>8. Apertura /\ Abiertos /\ NombresUnicos
    BY <1>5, <1>6 DEF Apertura, Abiertos, NombresUnicos, OpsAbre, OpsMem
  <1> QED BY <1>2, <1>3, <1>4, <1>7, <1>8 DEF IInv, Tipo, Lugar

LEMMA Invariante == Spec => []IInv
  <1>1. Init => IInv
    BY InicioIInv
  <1>2. IInv /\ [Next]_vars => IInv'
    BY PasoIInv
  <1> QED BY <1>1, <1>2, PTL DEF Spec

\* Every variable keeps its type, whatever the program, the files and the disk: no walk or
\* search of the FAT reads outside its positions, no FCB gets a size nobody asked for.
THEOREM TiposDelFilesystem == Spec => []TypeOK
  <1>1. ASSUME IInv PROVE TypeOK
    <2>1. Tipo
      BY <1>1 DEF IInv
    <2>2. ASSUME NEW p \in Procesos
          PROVE  /\ hilo[p].paso \in Pasos /\ hilo[p].bloque \in Posicion
                 /\ hilo[p].cuenta \in 0 .. MaxBloques /\ hilo[p].valor \in Palabras \cup Posicion
                 /\ hecho[p] \in {"no", "existe", "no existe", "error"} /\ pagina[p] \in Palabras
      BY <2>1, HiloCampos DEF Tipo, TipoHilos, TipoMemoria
    <2> QED BY <2>1, <2>2 DEF TypeOK, Tipo, TipoDisco, TipoHilos, TipoKernel, Fcbs
  <1>2. IInv => TypeOK
    BY <1>1
  <1> QED BY <1>2, Invariante, PTL

\* Two FCBs never have the same name, although crear_fcb does not look for one without
\* blocks: kf_open lets nobody in between its F_OPEN and its F_CREATE.
THEOREM NombresSinRepetir == Spec => []NombresUnicos
  <1>1. IInv => NombresUnicos
    BY DEF IInv, Lugar
  <1> QED BY <1>1, Invariante, PTL

-----------------------------------------------------------------------------
(* The socket to memoria *)

\* fuera only grows.
LEMMA FueraCrece ==
  ASSUME Next
  PROVE  fuera \subseteq fuera'
  <1>1. Programas => fuera \subseteq fuera'
    BY DEF Programas, PedirAbrir, Pedir
  <1>2. Servir => fuera \subseteq fuera'
    BY DEF Servir
  <1>3. ASSUME NEW p \in Procesos, Hilo(p) PROVE fuera \subseteq fuera'
    BY <1>3 DEF Hilo, Abrir, Crear, Truncar, BloqueInicial, BuscarLibre, Anotar, Seguir, Quitar, Fijar,
                PedirMemoria, RecibirCodigo, RecibirBuffer, Ubicar, Caminar, Escribir, Leer, Responder,
                PedirCrear
  <1> QED BY <1>1, <1>2, <1>3 DEF Next

\* A second request for the socket is a notice.
LEMMA UnoSigue ==
  ASSUME IInv, Next, UnoPorMemoria, "memoria" \notin fuera'
  PROVE  UnoPorMemoria'
  <1>1. CASE \A q \in Procesos : pedido'[q].op \in OpsMem => pedido[q].op \in OpsMem
    BY <1>1 DEF UnoPorMemoria, EnCurso
  <1>2. ASSUME NEW p \in Procesos, NEW f, NEW n, NEW op \in OpsMem \cup {"F_TRUNCATE"}, Pedir(p, op, f, n)
        PROVE  UnoPorMemoria'
    <2>1. pedido'[p].op = op /\ \A q \in Procesos : q # p => pedido'[q] = pedido[q]
      <3>1. \E s : Llega(p, op, f, n, s)
        BY <1>2, PedirHace
      <3> QED BY <3>1 DEF Llega, IInv, Tipo, TipoKernel
    <2>2. op \in OpsMem => EnCurso(OpsMem) \cap (Procesos \ {p}) = {}
      BY <1>2 DEF Pedir, Avisos, OpsMem
    <2>3. CASE op \in OpsMem
      <3>1. \A q \in Procesos : q # p => pedido'[q].op \notin OpsMem
        BY <2>1, <2>2, <2>3 DEF EnCurso
      <3> QED BY <3>1 DEF UnoPorMemoria, EnCurso
    <2>4. CASE op \notin OpsMem
      BY <2>1, <2>4 DEF UnoPorMemoria, EnCurso
    <2> QED BY <2>3, <2>4
  <1>3. ASSUME NEW p \in Procesos, NEW f, PedirAbrir(p, f) \/ PedirCrear(p)
        PROVE  \A q \in Procesos : pedido'[q].op \in OpsMem => pedido[q].op \in OpsMem
    <2>1. ASSUME NEW op, op \notin OpsMem, NEW g, NEW s, Llega(p, op, g, 0, s)
          PROVE  \A q \in Procesos : pedido'[q].op \in OpsMem => pedido[q].op \in OpsMem
      BY <2>1 DEF Llega, IInv, Tipo, TipoKernel
    <2>2. "F_OPEN" \notin OpsMem /\ "F_CREATE" \notin OpsMem
      BY DEF OpsMem
    <2>3. Llega(p, "F_OPEN", f, 0, "buscar") \/ Llega(p, "F_CREATE", kernel.archivo, 0, "crear")
      BY <1>3 DEF PedirAbrir, PedirCrear
    <2> QED BY <2>1, <2>2, <2>3
  <1>4. ASSUME NEW p \in Procesos, Responder(p)
        PROVE  \A q \in Procesos : pedido'[q].op \in OpsMem => pedido[q].op \in OpsMem
    BY <1>4, ResponderHace DEF SinPedido, OpsMem
  <1>5. ASSUME NEW p \in Procesos, Hilo(p), ~PedirCrear(p), ~Responder(p) PROVE UNCHANGED pedido
    BY <1>5 DEF Hilo, Abrir, Crear, Truncar, BloqueInicial, BuscarLibre, Anotar, Seguir, Quitar, Fijar,
                PedirMemoria, RecibirCodigo, RecibirBuffer, Ubicar, Caminar, Escribir, Leer, En, kernelVars
  <1>6. Servir => UNCHANGED pedido
    BY DEF Servir, kernelVars
  <1>7. ASSUME Programas PROVE UnoPorMemoria'
    <2>1. PICK p \in Procesos, f \in Archivos :
            \/ PedirAbrir(p, f)
            \/ \E op \in OpsMem \cup {"F_TRUNCATE"}, n \in 0 .. MaxBloques : Pedir(p, op, f, n)
      BY <1>7, ProgramasSon
    <2> QED BY <1>1, <1>2, <1>3, <2>1
  <1> QED BY <1>1, <1>3, <1>4, <1>5, <1>6, <1>7 DEF Next

EnSocket(p) == hilo[p].paso \in {"codigo", "buffer"}

\* Whoever is at the socket is the only one.
LEMMA SoloEnSocket ==
  ASSUME IInv, UnoPorMemoria, NEW p \in Procesos, pedido[p].op \in OpsMem, NEW q \in Procesos, q # p
  PROVE  ~EnSocket(q) /\ hilo[q].paso # "codigo" /\ hilo[q].paso # "buffer"
  BY DEF EnSocket, UnoPorMemoria, EnCurso, IInv, Lugar, Orden

\* A step of p that leaves the socket as it was.
LEMMA CorreoQuieto ==
  ASSUME Correo, NEW p \in Procesos, NEW s, NEW b, NEW c, NEW v, Queda(p, s, b, c, v),
         hilo[p].paso \notin {"codigo", "buffer"}, s \notin {"codigo", "buffer"},
         UNCHANGED <<pedidos_mem, respuestas_mem>>, caido' = caido,
         \A q \in Procesos : q # p => pedido'[q] = pedido[q]
  PROVE  Correo'
  BY DEF Queda, Correo, EsperaCodigo, EsperaBuffer

\* A thread that sends its request.
LEMMA CorreoManda ==
  ASSUME IInv, UnoPorMemoria, Correo, NEW p \in Procesos, pedido[p].op \in OpsMem,
         hilo[p].paso \notin {"codigo", "buffer"},
         NEW b, NEW c, NEW v, Queda(p, "codigo", b, c, v),
         NEW m, m.op = pedido[p].op, pedidos_mem' = Append(pedidos_mem, m),
         UNCHANGED <<pedido, respuestas_mem>>, caido' = caido
  PROVE  Correo'
  <1>1. pedidos_mem = <<>> /\ respuestas_mem = <<>>
    BY SoloEnSocket DEF Correo
  <1>2. Len(pedidos_mem') = 1 /\ pedidos_mem'[1] = m
    BY <1>1
  <1>3. EsperaCodigo(p)' /\ hilo'[p].paso = "codigo"
    BY <1>1, <1>2 DEF EsperaCodigo, Queda
  <1>4. ASSUME NEW q \in Procesos, q # p PROVE hilo'[q].paso # "codigo" /\ hilo'[q].paso # "buffer"
    BY <1>4, SoloEnSocket DEF Queda
  <1> QED BY <1>3, <1>4 DEF Correo

LEMMA CorreoRecibe ==
  ASSUME IInv, UnoPorMemoria, Correo, NEW p \in Procesos, RecibirCodigo(p) \/ RecibirBuffer(p)
  PROVE  Correo'
  <1>0. /\ UNCHANGED <<pedidos_mem, pedido>> /\ respuestas_mem # <<>>
        /\ respuestas_mem' = Tail(respuestas_mem) /\ respuestas_mem \in Seq(Fichas)
    BY DEF RecibirCodigo, RecibirBuffer, En, kernelVars, IInv, Tipo, TipoMemoria
  <1>1. pedido[p].op \in OpsMem
    BY RecibirCodigoHace, RecibirBufferHace
  <1>2. ASSUME NEW q \in Procesos, q # p PROVE hilo[q].paso # "codigo" /\ hilo[q].paso # "buffer"
    BY <1>1, <1>2, SoloEnSocket
  <1>3. CASE RecibirCodigo(p)
    <2>1. hilo[p].paso = "codigo"
      BY <1>3, RecibirCodigoHace
    <2>2. /\ pedidos_mem = <<>> /\ Len(respuestas_mem) = 2
          /\ respuestas_mem[1] = [tipo |-> "codigo", valor |-> pedido[p].op]
          /\ respuestas_mem[2].tipo = "buffer"
      BY <1>0, <2>1 DEF Correo, EsperaCodigo
    <2>3. Head(respuestas_mem).tipo = "codigo" /\ Head(respuestas_mem).valor = pedido[p].op
      BY <1>0, <2>2
    <2>4. Queda(p, "buffer", hilo[p].bloque, hilo[p].cuenta, hilo[p].valor) /\ caido' = caido
      BY <1>3, <2>3, RecibirCodigoHace
    <2>5. EsperaBuffer'
      BY <1>0, <2>2 DEF EsperaBuffer
    <2> QED BY <1>2, <2>4, <2>5 DEF Correo, Queda
  <1>4. CASE RecibirBuffer(p)
    <2>1. hilo[p].paso = "buffer"
      BY <1>4, RecibirBufferHace
    <2>2. pedidos_mem = <<>> /\ Len(respuestas_mem) = 1 /\ respuestas_mem[1].tipo = "buffer"
      BY <2>1 DEF Correo, EsperaBuffer
    <2>3. Head(respuestas_mem).tipo = "buffer"
      BY <1>0, <2>2
    <2>4. /\ caido' = caido
          /\ \E s \in {"ubicar", "responder"} : \E v : Queda(p, s, hilo[p].bloque, hilo[p].cuenta, v)
      BY <1>4, <2>3, RecibirBufferHace
    <2>5. pedidos_mem' = <<>> /\ respuestas_mem' = <<>>
      BY <1>0, <2>2
    <2> QED BY <1>2, <2>4, <2>5 DEF Correo, Queda
  <1> QED BY <1>3, <1>4

LEMMA CorreoSirve ==
  ASSUME IInv, UnoPorMemoria, Correo, Servir
  PROVE  Correo'
  <1> DEFINE m == Head(pedidos_mem)
  <1>1. PICK v \in Palabras : respuestas_mem' = respuestas_mem \o Respuesta(m.op, v)
    BY ServirHace
  <1>2. /\ pedidos_mem # <<>> /\ pedidos_mem' = Tail(pedidos_mem)
        /\ UNCHANGED <<hilo, pedido, caido>> /\ pedidos_mem \in Seq(Envios)
    BY DEF Servir, kernelVars, IInv, Tipo, TipoMemoria
  <1>3. PICK p \in Procesos : hilo[p].paso = "codigo"
    BY <1>2 DEF Correo, EsperaBuffer
  <1>4. Len(pedidos_mem) = 1 /\ pedidos_mem[1].op = pedido[p].op /\ respuestas_mem = <<>>
    BY <1>2, <1>3 DEF Correo, EsperaCodigo
  <1>5. pedido[p].op \in OpsMem
    BY <1>3 DEF IInv, Lugar, Orden
  <1>6. m.op = pedido[p].op /\ pedidos_mem' = <<>>
    BY <1>2, <1>4
  <1>7. respuestas_mem' = Respuesta(pedido[p].op, v)
    BY <1>1, <1>4, <1>6 DEF Respuesta
  <1>8. EsperaCodigo(p)'
    BY <1>2, <1>6, <1>7 DEF EsperaCodigo, Respuesta
  <1>9. ASSUME NEW q \in Procesos, q # p PROVE hilo'[q].paso # "codigo" /\ hilo'[q].paso # "buffer"
    BY <1>2, <1>5, <1>9, SoloEnSocket
  <1> QED BY <1>2, <1>3, <1>8, <1>9 DEF Correo

LEMMA CorreoSigue ==
  ASSUME IInv, Next, UnoPorMemoria, Correo
  PROVE  Correo'
  <1>1. ASSUME NEW p \in Procesos, NEW f, NEW n, NEW op \in OpsMem \cup {"F_TRUNCATE"},
               PedirAbrir(p, f) \/ PedirCrear(p) \/ Pedir(p, op, f, n)
        PROVE  Correo'
    <2>1. ASSUME NEW o, NEW g, NEW k, NEW s, s \notin {"codigo", "buffer"},
                 Llega(p, o, g, k, s), Queda(p, s, 0, 0, Basura)
          PROVE  Correo'
      <3>1. /\ UNCHANGED <<pedidos_mem, respuestas_mem>> /\ caido' = caido /\ pedido[p] = SinPedido
            /\ \A q \in Procesos : q # p => pedido'[q] = pedido[q]
        BY <2>1 DEF Llega, IInv, Tipo, TipoKernel
      <3>2. hilo[p].paso = "ninguno"
        BY <3>1 DEF IInv, Lugar, Orden
      <3> QED BY <2>1, <3>1, <3>2, CorreoQuieto
    <2>2. CASE PedirAbrir(p, f)
      <3>1. Llega(p, "F_OPEN", f, 0, "buscar") /\ Queda(p, "buscar", 0, 0, Basura)
        BY <2>2, PedirAbrirHace
      <3> QED BY <2>1, <3>1
    <2>3. CASE PedirCrear(p)
      <3>1. Llega(p, "F_CREATE", kernel.archivo, 0, "crear") /\ Queda(p, "crear", 0, 0, Basura)
        BY <2>3, PedirCrearHace
      <3> QED BY <2>1, <3>1
    <2>4. CASE Pedir(p, op, f, n)
      <3>1. \/ Llega(p, op, f, n, "truncar") /\ Queda(p, "truncar", 0, 0, Basura)
            \/ Llega(p, op, f, n, "pedir") /\ Queda(p, "pedir", 0, 0, Basura)
            \/ Llega(p, op, f, n, "ubicar") /\ Queda(p, "ubicar", 0, 0, Basura)
        BY <2>4, PedirHace
      <3> QED BY <2>1, <3>1
    <2> QED BY <1>1, <2>2, <2>3, <2>4
  <1>2. ASSUME Programas PROVE Correo'
    BY <1>1, <1>2, ProgramasSon
  <1>3. ASSUME NEW p \in Procesos, Hilo(p) PROVE Correo'
    <2> DEFINE h == hilo[p]
               Quieto == /\ UNCHANGED <<pedidos_mem, respuestas_mem>>
                         /\ \A q \in Procesos : q # p => pedido'[q] = pedido[q]
    <2>1. ASSUME NEW s, NEW b, NEW c, NEW v, Queda(p, s, b, c, v), s \notin {"codigo", "buffer"},
                 h.paso \notin {"codigo", "buffer"}, Quieto, caido' = caido
          PROVE  Correo'
      BY <2>1, CorreoQuieto
    <2>2. CASE Abrir(p)
      <3>1. Quieto /\ h.paso = "buscar"
        BY <2>2 DEF Abrir, En, kernelVars, memoriaVars
      <3>2. CASE caido' = "fcb_basura" /\ UNCHANGED hilo
        BY <3>1, <3>2, <2>2 DEF Correo, EsperaCodigo, EsperaBuffer, Abrir, En, kernelVars
      <3>3. CASE Queda(p, "responder", h.bloque, h.cuenta, h.valor) /\ UNCHANGED caido
        BY <2>1, <3>1, <3>3
      <3> QED BY <2>2, <3>2, <3>3, AbrirHace
    <2>3. CASE Crear(p) \/ Fijar(p) \/ Escribir(p)
      <3>1. Quieto /\ caido' = caido
        BY <2>3 DEF Crear, Fijar, Escribir, En, kernelVars, memoriaVars
      <3>2. h.paso \in {"crear", "fijar", "caminar"} /\ Queda(p, "responder", h.bloque, h.cuenta, h.valor)
        BY <2>3, CrearHace, FijarHace, EscribirHace
      <3> QED BY <2>1, <3>1, <3>2
    <2>4. CASE Truncar(p) \/ BloqueInicial(p) \/ BuscarLibre(p) \/ Anotar(p)
      <3>1. Quieto /\ caido' = caido
        BY <2>4 DEF Truncar, BloqueInicial, BuscarLibre, Anotar, En, kernelVars, memoriaVars
      <3>2. /\ h.paso \in {"truncar", "inicial", "libre", "anotar"}
            /\ \E s \in {"inicial", "libre", "quitar", "fijar", "anotar", "seguir"} : \E b, c, v : Queda(p, s, b, c, v)
        BY <2>4, TruncarHace, BloqueInicialHace, BuscarLibreHace, AnotarHace
      <3> QED BY <2>1, <3>1, <3>2
    <2>5. CASE Seguir(p) \/ Quitar(p) \/ Ubicar(p) \/ Caminar(p)
      <3>1. Quieto /\ caido' = caido
        BY <2>5 DEF Seguir, Quitar, Ubicar, Caminar, En, kernelVars, memoriaVars
      <3>2. /\ h.paso \in {"seguir", "quitar", "ubicar", "caminar"}
            /\ \E s \in {"libre", "quitar", "fijar", "caminar"} : \E b, c, v : Queda(p, s, b, c, v)
        BY <2>5, SeguirHace, QuitarHace, UbicarHace, CaminarHace
      <3> QED BY <2>1, <3>1, <3>2
    <2>6. CASE PedirMemoria(p)
      <3> DEFINE m == [op |-> "F_WRITE", proceso |-> p, dato |-> Basura]
      <3>1. pedidos_mem' = Append(pedidos_mem, m) /\ UNCHANGED <<pedido, respuestas_mem>> /\ caido' = caido
        BY <2>6 DEF PedirMemoria, En, kernelVars
      <3>2. h.paso = "pedir" /\ pedido[p].op \in OpsMem /\ m.op = pedido[p].op
            /\ Queda(p, "codigo", h.bloque, h.cuenta, h.valor)
        BY <2>6, PedirMemoriaHace DEF OpsMem
      <3> HIDE DEF m
      <3> QED BY <3>1, <3>2, CorreoManda
    <2>7. CASE Leer(p)
      <3> DEFINE m == [op |-> "F_READ", proceso |-> p, dato |-> leer_bloque(hilo[p].bloque)]
      <3>1. pedidos_mem' = Append(pedidos_mem, m) /\ UNCHANGED <<pedido, respuestas_mem>> /\ caido' = caido
        BY <2>7 DEF Leer, En, kernelVars
      <3>2. h.paso = "caminar" /\ pedido[p].op \in OpsMem /\ m.op = pedido[p].op
            /\ Queda(p, "codigo", h.bloque, h.cuenta, h.valor)
        BY <2>7, LeerHace DEF OpsMem
      <3> HIDE DEF m
      <3> QED BY <3>1, <3>2, CorreoManda
    <2>8. CASE Responder(p)
      <3>1. Quieto /\ caido' = caido
        BY <2>8, ResponderHace DEF Responder, memoriaVars
      <3> QED BY <2>1, <2>8, <3>1, ResponderHace
    <2> QED BY <1>1, <1>3, <2>2, <2>3, <2>4, <2>5, <2>6, <2>7, <2>8, CorreoRecibe DEF Hilo
  <1> QED BY <1>2, <1>3, CorreoSirve DEF Next

LEMMA SocketSiempre == Spec => []Socket
  <1>1. Init => Socket
    <2> SUFFICES ASSUME Init PROVE UnoPorMemoria /\ Correo
      BY DEF Socket
    <2>1. \A p \in Procesos : hilo[p].paso = "ninguno" /\ pedido[p].op = "ninguna"
      BY DEF Init, HiloLibre, SinPedido
    <2> QED BY <2>1 DEF Init, UnoPorMemoria, Correo, EnCurso, OpsMem
  <1>2. IInv /\ Socket /\ [Next]_vars => Socket'
    <2>1. CASE Next
      BY <2>1, FueraCrece, UnoSigue, CorreoSigue DEF Socket
    <2>2. CASE UNCHANGED vars
      BY <2>2 DEF vars, Socket, UnoPorMemoria, EnCurso, Correo, EsperaCodigo, EsperaBuffer
    <2> QED BY <2>1, <2>2
  <1> QED BY <1>1, <1>2, Invariante, PTL DEF Spec

\* The stream of answers of memoria is only misread when two requests that use the socket were
\* served at once.
THEOREM SocketSinCruces == Spec => []SoloDosPorMemoria
  <1>1. Socket => SoloDosPorMemoria
    BY DEF Socket, Correo, SoloDosPorMemoria
  <1> QED BY <1>1, SocketSiempre, PTL
=============================================================================
