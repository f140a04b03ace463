------------------------ MODULE FilesystemDisco_proofs ------------------------
(***************************************************************************)
(* More proofs about Filesystem: the swap block next to the end of the FAT *)
(* is never written, the blocks that are only of one file are not in       *)
(* another one, and inside the contract the filesystem implements Almacen. *)
(***************************************************************************)
EXTENDS Filesystem_proofs, FiniteSetTheorems

-----------------------------------------------------------------------------
(* The inductive invariants *)

Final == TamanioFat - 1

\* The FAT file still ends before its last entry, and no entry leads there.
FatSana ==
  \A b \in Posicion : (fat[b] = SinLeer <=> b \in {-1, Final}) /\ fat[b] # Final

\* Nothing that is followed as a block is the last entry, or -1 where it was just written.
FcbsSanos == \A k \in DOMAIN lista_fcb : lista_fcb[k].ini # Final

HilosSanos ==
  \A p \in Procesos :
    /\ hilo[p].bloque # Final
    /\ hilo[p].paso = "anotar" => hilo[p].valor # Final
    /\ hilo[p].paso = "seguir" => hilo[p].bloque # -1

\* crear_fat leaves the last entry unwritten; while no access has left the file nothing
\* leads to it.
SinFinal ==
  "fin_fat" \notin fuera =>
    FatSana /\ FcbsSanos /\ HilosSanos /\ bloques[Final] = Basura

\* s is a chain of the file k that holds at least its first half.
EsCadena(s, k) ==
  /\ Mitad(lista_fcb[k].tam) <= Len(s)
  /\ s # <<>> => s[1] = lista_fcb[k].ini
  /\ \A i \in 1 .. Len(s) : fat[s[i]] # 0 /\ (i < Len(s) => fat[s[i]] = s[i + 1])

Disjuntas(c) ==
  \A j, k \in DOMAIN c : \A a \in 1 .. Len(c[j]), b \in 1 .. Len(c[k]) :
    c[j][a] = c[k][b] => j = k /\ a = b

\* The blocks that are only of the file k, in the order of its chain, are c[k].
Reparto(c) ==
  /\ c \in [DOMAIN lista_fcb -> Seq(1 .. Final)]
  /\ \A k \in DOMAIN lista_fcb : EsCadena(c[k], k)
  /\ Disjuntas(c)

\* The block that obtener_primer_bloque_libre finds while the disk has room.
Primero(b) == b \in Libres /\ \A m \in Libres : b <= m

\* asignar_bloques after t turns, at block b of the file k, whose blocks so far are s: at the
\* free one where the file now ends, or at the last one it took.
EnObra(s, k, b, t) ==
  \/ /\ 2 * Len(s) = t /\ Primero(b)
     /\ IF s = <<>> THEN lista_fcb[k].ini = b ELSE fat[s[Len(s)]] = b
  \/ 2 * Len(s) = t + 1 /\ s # <<>> /\ b = s[Len(s)]

\* The thread of the only F_TRUNCATE in course.
Obra(p, c) ==
  LET k == Fcb(p)  n == pedido[p].arg  h == hilo[p]
  IN /\ h.paso = "truncar" => (lista_fcb[k].ini # 0 => n \in {0, lista_fcb[k].tam})
     /\ h.paso = "inicial" => h.cuenta = n /\ c[k] = <<>>
     /\ h.paso \in {"libre", "anotar"} => EnObra(c[k], k, h.bloque, n - h.cuenta)
     /\ h.paso = "anotar" => Primero(h.valor)
     /\ h.paso = "seguir" =>
          fat[h.bloque] # 0 /\ EnObra(c[k], k, fat[h.bloque], n - h.cuenta + 1)
     /\ h.paso = "fijar" => Mitad(n) <= Len(c[k])
     /\ h.paso # "quitar"

Truncados == EnCurso({"F_TRUNCATE"})

UnoTrunca == \A p, q \in Truncados : p = q

EnOrden(c) == Reparto(c) /\ \A p \in Truncados : Obra(p, c)

Cadenas ==
  fuera \cap {"truncados", "retruncado", "fin_fat"} = {} => UnoTrunca /\ \E c : EnOrden(c)

-----------------------------------------------------------------------------
(* The last entry of the FAT *)

LEMMA FinalEs == Final \in Posicion /\ Final >= 1 /\ Final \in Int /\ Final # 0 /\ Final # -1
  BY Medidas DEF Final

\* An access that stays in the file reads one value, which is not the last entry.
LEMMA LeeSana ==
  ASSUME IInv, FatSana, NEW b \in Posicion, "fin_fat" \notin FueraDeLaFat(b)
  PROVE  /\ b # -1 /\ b # Final /\ fat[b] \in Posicion /\ fat[b] # Final
         /\ posicion_en_fat(b) = {fat[b]}
  <1>1. fat[b] # SinLeer
    BY DEF FueraDeLaFat
  <1> QED BY <1>1, LeeFat DEF FatSana, IInv

\* A block found free is a position with a zero.
LEMMA LibreSana ==
  ASSUME IInv, FatSana, "fin_fat" \notin AvisoDiscoLleno
  PROVE  /\ ~DiscoLleno /\ obtener_primer_bloque_libre = {Min(Libres)} /\ Min(Libres) \in Libres
         /\ Min(Libres) \in Posicion /\ Min(Libres) # Final /\ Min(Libres) # -1
  <1>1. ~DiscoLleno
    BY DEF AvisoDiscoLleno
  <1>2. Min(Libres) \in Libres /\ Libres \subseteq Posicion /\ obtener_primer_bloque_libre = {Min(Libres)}
    BY <1>1, PrimerLibre DEF IInv
  <1>3. \A b \in Libres : fat[b] = 0 /\ b # -1
    BY DEF Libres
  <1>4. \A b \in Libres : b # Final
    BY <1>3, FinalEs DEF FatSana, SinLeer
  <1> QED BY <1>1, <1>2, <1>3, <1>4

LEMMA EscribeSana ==
  ASSUME IInv, FatSana, NEW b \in Posicion, b # -1, b # Final, NEW v \in Posicion, v # Final,
         modificar_en_fat(b, v)
  PROVE  FatSana'
  <1>1. fat'[b] = v /\ \A k \in Posicion : k # b => fat'[k] = fat[k]
    BY EscribeFat DEF IInv
  <1> QED BY <1>1, Medidas DEF FatSana, Final

LEMMA HilosQuedan ==
  ASSUME HilosSanos, NEW p \in Procesos, NEW s, NEW b, NEW c, NEW v, Queda(p, s, b, c, v),
         b # Final, s = "anotar" => v # Final, s = "seguir" => b # -1
  PROVE  HilosSanos'
  BY DEF Queda, HilosSanos, Final

\* The steps of an F_TRUNCATE.
LEMMA TruncarSano ==
  ASSUME IInv, FatSana, FcbsSanos, HilosSanos, NEW p \in Procesos, "fin_fat" \notin fuera',
         \/ Truncar(p) \/ BloqueInicial(p) \/ BuscarLibre(p) \/ Anotar(p) \/ Seguir(p)
         \/ Quitar(p) \/ Fijar(p)
  PROVE  FatSana' /\ FcbsSanos' /\ HilosSanos'
  <1> DEFINE h == hilo[p]
             k == Fcb(p)
  <1>0. Tipo /\ h.bloque \in Posicion /\ h.bloque # Final /\ 0 # Final
    BY HiloCampos, FinalEs DEF IInv, HilosSanos
  <1>1. pedido[p].op = "F_TRUNCATE"
    BY TruncarHace, BloqueInicialHace, BuscarLibreHace, AnotarHace, SeguirHace, QuitarHace, FijarHace
  <1>2. k \in DOMAIN lista_fcb /\ lista_fcb[k].ini \in Posicion /\ lista_fcb[k].ini # Final
        /\ pedido[p].arg \in 0 .. MaxBloques
    BY <1>1, FcbDelHilo DEF FcbsSanos
  <1>3. ASSUME NEW b \in Posicion, b # Final, lista_fcb' = [lista_fcb EXCEPT ![k].ini = b]
        PROVE  FcbsSanos'
    BY <1>0, <1>2, <1>3, IniCambia DEF FcbsSanos, Final
  <1>4. ASSUME NEW s, NEW b, NEW c, NEW v, Queda(p, s, b, c, v),
               b # Final, s = "anotar" => v # Final, s = "seguir" => b # -1
        PROVE  HilosSanos'
    BY <1>4, HilosQuedan
  <1>5. UNCHANGED lista_fcb => FcbsSanos'
    BY DEF FcbsSanos, Final
  <1>6. UNCHANGED fat => FatSana'
    BY DEF FatSana, Final
  <1>7. CASE Truncar(p)
    <2>1. \E c : \/ Queda(p, "inicial", 0, c, h.valor)
                 \/ Queda(p, "libre", lista_fcb[k].ini, c, h.valor)
                 \/ Queda(p, "quitar", h.bloque, c, h.valor)
                 \/ Queda(p, "fijar", h.bloque, c, h.valor)
      BY <1>7, TruncarHace
    <2>2. UNCHANGED <<lista_fcb, fat>>
      BY <1>7 DEF Truncar, discoVars
    <2> QED BY <1>0, <1>2, <1>4, <1>5, <1>6, <2>1, <2>2
  <1>8. CASE BloqueInicial(p)
    <2>1. PICK b \in obtener_primer_bloque_libre :
            /\ lista_fcb' = [lista_fcb EXCEPT ![k].ini = b]
            /\ Queda(p, "libre", b, h.cuenta, h.valor)
      BY <1>8, BloqueInicialHace
    <2>2. "fin_fat" \notin AvisoDiscoLleno /\ UNCHANGED fat
      BY <1>8 DEF BloqueInicial
    <2>3. b \in Posicion /\ b # Final
      BY <2>1, <2>2, LibreSana
    <2> QED BY <1>3, <1>4, <1>6, <2>1, <2>2, <2>3
  <1>9. CASE BuscarLibre(p)
    <2>1. PICK b \in obtener_primer_bloque_libre : Queda(p, "anotar", h.bloque, h.cuenta, b)
      BY <1>9, BuscarLibreHace
    <2>2. "fin_fat" \notin AvisoDiscoLleno /\ UNCHANGED <<lista_fcb, fat>>
      BY <1>9 DEF BuscarLibre, discoVars
    <2>3. b # Final
      BY <2>1, <2>2, LibreSana
    <2> QED BY <1>0, <1>4, <1>5, <1>6, <2>1, <2>2, <2>3
  <1>10. CASE Anotar(p)
    <2>1. /\ h.paso = "anotar" /\ h.valor \in Posicion /\ modificar_en_fat(h.bloque, h.valor)
          /\ Queda(p, "seguir", h.bloque, h.cuenta, h.valor)
      BY <1>10, AnotarHace
    <2>2. "fin_fat" \notin FueraDeLaFat(h.bloque) /\ UNCHANGED lista_fcb
      BY <1>10 DEF Anotar
    <2>3. h.bloque # -1 /\ h.valor # Final
      BY <1>0, <2>1, <2>2, LeeSana DEF HilosSanos
    <2>4. FatSana'
      BY <1>0, <2>1, <2>3, EscribeSana
    <2> QED BY <1>0, <1>4, <1>5, <2>1, <2>2, <2>3, <2>4
  <1>11. CASE Seguir(p)
    <2>1. PICK b \in posicion_en_fat(h.bloque) :
            \/ Queda(p, "fijar", b, h.cuenta - 1, Basura)
            \/ Queda(p, "libre", b, h.cuenta - 1, Basura)
      BY <1>11, SeguirHace
    <2>2. h.paso = "seguir" /\ UNCHANGED <<lista_fcb, fat>>
      BY <1>11 DEF Seguir, En, discoVars
    <2>3. fat[h.bloque] # SinLeer /\ fat[h.bloque] # Final
      BY <1>0, <2>2 DEF HilosSanos, FatSana
    <2>4. b # Final
      BY <1>0, <2>1, <2>3, LeeFat
    <2> QED BY <1>4, <1>5, <1>6, <2>1, <2>2, <2>4
  <1>12. CASE Quitar(p)
    <2> DEFINE ini == lista_fcb[k].ini
    <2>1. PICK sig \in posicion_en_fat(ini) :
            /\ lista_fcb' = [lista_fcb EXCEPT ![k].ini = sig]
            /\ \/ Queda(p, "fijar", h.bloque, h.cuenta - 1, h.valor)
               \/ Queda(p, "quitar", h.bloque, h.cuenta - 1, h.valor)
      BY <1>12, QuitarHace
    <2>2. modificar_en_fat(ini, -1) /\ "fin_fat" \notin FueraDeLaFat(ini)
      BY <1>12 DEF Quitar
    <2>3. ini # -1 /\ ini # Final /\ sig \in Posicion /\ sig # Final
      BY <1>2, <2>1, <2>2, LeeSana
    <2>4. FatSana'
      BY <1>2, <2>2, <2>3, EscribeSana, Medidas, FinalEs
    <2> QED BY <1>0, <1>3, <1>4, <2>1, <2>3, <2>4
  <1>13. CASE Fijar(p)
    <2>1. lista_fcb' = [lista_fcb EXCEPT ![k].tam = pedido[p].arg] /\ UNCHANGED fat
      BY <1>13 DEF Fijar
    <2>2. FcbsSanos'
      BY <1>0, <1>2, <2>1, TamCambia DEF FcbsSanos, Final
    <2>3. Queda(p, "responder", h.bloque, h.cuenta, h.valor)
      BY <1>13, FijarHace
    <2> QED BY <1>0, <1>4, <1>6, <2>1, <2>2, <2>3
  <1> QED BY <1>7, <1>8, <1>9, <1>10, <1>11, <1>12, <1>13

\* The accesses, F_OPEN, F_CREATE, and the requests and answers of the kernel.
LEMMA AccesoSano ==
  ASSUME IInv, FatSana, FcbsSanos, HilosSanos, NEW p \in Procesos, "fin_fat" \notin fuera',
         \/ Abrir(p) \/ Crear(p) \/ PedirMemoria(p) \/ RecibirCodigo(p) \/ RecibirBuffer(p)
         \/ Ubicar(p) \/ Caminar(p) \/ Escribir(p) \/ Leer(p) \/ Responder(p) \/ PedirCrear(p)
         \/ \E f : PedirAbrir(p, f)
         \/ \E f, n : \E op \in OpsMem \cup {"F_TRUNCATE"} : Pedir(p, op, f, n)
  PROVE  FatSana' /\ FcbsSanos' /\ HilosSanos'
  <1> DEFINE h == hilo[p]
  <1>0. Tipo /\ h.bloque \in Posicion /\ h.bloque # Final /\ 0 # Final
    BY HiloCampos, FinalEs DEF IInv, HilosSanos
  <1>1. FatSana'
    <2>1. UNCHANGED fat
      BY DEF Abrir, Crear, PedirMemoria, RecibirCodigo, RecibirBuffer, Ubicar, Caminar, Escribir, Leer,
             Responder, PedirCrear, PedirAbrir, Pedir, Llega, discoVars
    <2> QED BY <2>1 DEF FatSana, Final
  <1>2. FcbsSanos'
    <2>1. CASE Crear(p)
      <3> DEFINE r == FcbNuevo(pedido[p].archivo)
      <3>1. lista_fcb' = Append(lista_fcb, r) /\ r \in Fcbs /\ r.ini = 0
        BY <2>1, CrearHace DEF FcbNuevo
      <3>2. lista_fcb \in Seq(Fcbs)
        BY <1>0 DEF Tipo, TipoDisco
      <3> HIDE DEF r
      <3>3. /\ DOMAIN lista_fcb' = 1 .. Len(lista_fcb) + 1 /\ DOMAIN lista_fcb = 1 .. Len(lista_fcb)
            /\ lista_fcb'[Len(lista_fcb) + 1] = r
            /\ \A j \in DOMAIN lista_fcb : lista_fcb'[j] = lista_fcb[j]
        BY <3>1, <3>2, FcbCrece
      <3>4. \A j \in DOMAIN lista_fcb' : j \in DOMAIN lista_fcb \/ j = Len(lista_fcb) + 1
        BY <3>2, <3>3
      <3> QED BY <1>0, <3>1, <3>3, <3>4 DEF FcbsSanos, Final
    <2>2. CASE UNCHANGED lista_fcb
      BY <2>2 DEF FcbsSanos, Final
    <2> QED BY <2>1, <2>2 DEF Abrir, PedirMemoria, RecibirCodigo, RecibirBuffer, Ubicar, Caminar, Escribir,
                              Leer, Responder, PedirCrear, PedirAbrir, Pedir, Llega, discoVars
  <1>3. ASSUME NEW s, NEW b, NEW c, NEW v, Queda(p, s, b, c, v), b # Final, s # "anotar", s # "seguir"
        PROVE  HilosSanos'
    BY <1>3, HilosQuedan
  <1>4. UNCHANGED hilo => HilosSanos'
    BY DEF HilosSanos, Final
  <1>5. CASE Abrir(p) \/ Crear(p) \/ PedirMemoria(p) \/ Escribir(p) \/ Leer(p)
    <2>1. \/ UNCHANGED hilo
          \/ Queda(p, "responder", h.bloque, h.cuenta, h.valor)
          \/ Queda(p, "codigo", h.bloque, h.cuenta, h.valor)
      BY <1>5, AbrirHace, CrearHace, PedirMemoriaHace, EscribirHace, LeerHace
    <2> QED BY <1>0, <1>1, <1>2, <1>3, <1>4, <2>1
  <1>6. CASE RecibirCodigo(p)
    <2>1. \/ UNCHANGED hilo
          \/ Queda(p, "buffer", h.bloque, h.cuenta, h.valor)
          \/ Queda(p, "responder", h.bloque, h.cuenta, h.valor)
      BY <1>6, RecibirCodigoHace
    <2> QED BY <1>0, <1>1, <1>2, <1>3, <1>4, <2>1
  <1>7. CASE RecibirBuffer(p)
    <2>1. \/ UNCHANGED hilo
          \/ \E v : \/ Queda(p, "ubicar", h.bloque, h.cuenta, v)
                    \/ Queda(p, "responder", h.bloque, h.cuenta, v)
      BY <1>7, RecibirBufferHace
    <2> QED BY <1>0, <1>1, <1>2, <1>3, <1>4, <2>1
  <1>8. CASE Ubicar(p)
    <2>1. Queda(p, "caminar", lista_fcb[Fcb(p)].ini, pedido[p].arg, h.valor) /\ pedido[p].op \in OpsMem
      BY <1>8, UbicarHace
    <2>2. lista_fcb[Fcb(p)].ini # Final
      BY <2>1, FcbDelHilo DEF FcbsSanos
    <2> QED BY <1>1, <1>2, <1>3, <2>1, <2>2
  <1>9. CASE Caminar(p)
    <2>1. PICK b \in posicion_en_fat(h.bloque) : Queda(p, "caminar", b, h.cuenta - 1, h.valor)
      BY <1>9, CaminarHace
    <2>2. "fin_fat" \notin FueraDeLaFat(h.bloque)
      BY <1>9 DEF Caminar
    <2>3. b # Final
      BY <1>0, <2>1, <2>2, LeeSana
    <2> QED BY <1>1, <1>2, <1>3, <2>1, <2>3
  <1>10. CASE Responder(p)
    <2>1. Queda(p, "ninguno", 0, 0, Basura)
      BY <1>10, ResponderHace
    <2> QED BY <1>0, <1>1, <1>2, <1>3, <2>1
  <1>11. CASE PedirCrear(p)
    <2>1. Queda(p, "crear", 0, 0, Basura)
      BY <1>11, PedirCrearHace
    <2> QED BY <1>0, <1>1, <1>2, <1>3, <2>1
  <1>12. ASSUME NEW f, PedirAbrir(p, f) PROVE HilosSanos'
    <2>1. Queda(p, "buscar", 0, 0, Basura)
      BY <1>12, PedirAbrirHace
    <2> QED BY <1>0, <1>3, <2>1
  <1>13. ASSUME NEW f, NEW n, NEW op \in OpsMem \cup {"F_TRUNCATE"}, Pedir(p, op, f, n) PROVE HilosSanos'
    <2>1. \/ Queda(p, "truncar", 0, 0, Basura)
          \/ Queda(p, "pedir", 0, 0, Basura)
          \/ Queda(p, "ubicar", 0, 0, Basura)
      BY <1>13, PedirHace
    <2> QED BY <1>0, <1>3, <2>1
  <1> QED BY <1>1, <1>2, <1>5, <1>6, <1>7, <1>8, <1>9, <1>10, <1>11, <1>12, <1>13

LEMMA SinFinalSigue ==
  ASSUME IInv, SinFinal, [Next]_vars
  PROVE  SinFinal'
  <1> SUFFICES ASSUME "fin_fat" \notin fuera'
               PROVE  FatSana' /\ FcbsSanos' /\ HilosSanos' /\ bloques'[Final] = Basura
    BY DEF SinFinal, Final
  <1>1. CASE UNCHANGED vars
    BY <1>1 DEF vars, SinFinal, FatSana, FcbsSanos, HilosSanos, Final
  <1>2. CASE Next
    <2>1. FatSana /\ FcbsSanos /\ HilosSanos /\ bloques[Final] = Basura
      BY <1>2, FueraCrece DEF SinFinal
    <2>2. bloques'[Final] = Basura
      <3>1. CASE UNCHANGED bloques
        BY <2>1, <3>1
      <3>2. ASSUME NEW p \in Procesos, Escribir(p) PROVE bloques'[Final] = Basura
        <4>1. bloques' = [bloques EXCEPT ![hilo[p].bloque] = hilo[p].valor] /\ hilo[p].bloque # Final
          BY <2>1, <3>2 DEF Escribir, HilosSanos
        <4>2. bloques \in [Posicion -> Palabras] /\ Final \in Posicion
          BY FinalEs DEF IInv, Tipo, TipoDisco
        <4> QED BY <2>1, <4>1, <4>2
      <3>3. ASSUME \A p \in Procesos : ~Escribir(p) PROVE UNCHANGED bloques
        <4>1. ASSUME NEW p \in Procesos, EnDisco(p) PROVE UNCHANGED bloques
          BY <3>3, <4>1 DEF EnDisco, Crear, BloqueInicial, Anotar, Quitar, Fijar
        <4> QED BY <1>2, <4>1, DiscoQuieto DEF discoVars
      <3> QED BY <3>1, <3>2, <3>3
    <2>3. CASE Servir
      BY <2>1, <2>2, <2>3 DEF Servir, discoVars, FatSana, FcbsSanos, HilosSanos, Final
    <2>4. ASSUME Programas PROVE FatSana' /\ FcbsSanos' /\ HilosSanos'
      <3>1. PICK p \in Procesos, f \in Archivos :
              \/ PedirAbrir(p, f)
              \/ \E op \in OpsMem \cup {"F_TRUNCATE"}, n \in 0 .. MaxBloques : Pedir(p, op, f, n)
        BY <2>4, ProgramasSon
      <3> QED BY <2>1, <3>1, AccesoSano
    <2>5. ASSUME NEW p \in Procesos, Hilo(p) PROVE FatSana' /\ FcbsSanos' /\ HilosSanos'
      BY <2>1, <2>5, TruncarSano, AccesoSano DEF Hilo
    <2> QED BY <1>2, <2>2, <2>3, <2>4, <2>5 DEF Next
  <1> QED BY <1>1, <1>2

LEMMA SinFinalInicio ==
  ASSUME Init
  PROVE  SinFinal
  <1>1. \A b \in Posicion : FatInicial[b] = IF b \in 0 .. TamanioFat - 2 THEN 0 ELSE SinLeer
    BY DEF FatInicial
  <1>2. FatSana
    BY <1>1, Medidas DEF Init, FatSana, Final, Posicion, SinLeer
  <1>3. HilosSanos /\ FcbsSanos
    BY FinalEs DEF Init, HilosSanos, FcbsSanos, HiloLibre
  <1>4. bloques[Final] = Basura
    BY FinalEs DEF Init, BloquesVacios
  <1> QED BY <1>2, <1>3, <1>4 DEF SinFinal

LEMMA SinFinalSiempre == Spec => []SinFinal
  <1>1. Init => SinFinal
    BY SinFinalInicio
  <1>2. IInv /\ SinFinal /\ [Next]_vars => SinFinal'
    BY SinFinalSigue
  <1> QED BY <1>1, <1>2, Invariante, PTL DEF Spec

\* No thread writes the block of the last entry of the FAT, which is the first one of the swap,
\* unless the disk filled up or an access left the FAT file.
THEOREM SwapSinTocar == Spec => []SwapIntacto
  <1>1. SinFinal => SwapIntacto
    BY DEF SinFinal, SwapIntacto, Final
  <1> QED BY <1>1, SinFinalSiempre, PTL

-----------------------------------------------------------------------------
(* The blocks of each file *)

LEMMA MitadEs ==
  ASSUME NEW n \in Nat
  PROVE  /\ Mitad(n) \in Nat /\ (Mitad(n) <= 0 => n = 0) /\ Mitad(0) = 0
         /\ \A m \in Nat : (2 * m = n \/ 2 * m = n + 1) => Mitad(n) <= m
  BY DEF Mitad

\* What a partition is, one file at a time.
LEMMA RepartoTipo ==
  ASSUME IInv, NEW c, Reparto(c), NEW k \in DOMAIN lista_fcb
  PROVE  /\ c[k] \in Seq(1 .. Final) /\ Len(c[k]) \in Nat /\ EsCadena(c[k], k)
         /\ \A i \in 1 .. Len(c[k]) : c[k][i] \in 1 .. Final /\ c[k][i] \in Posicion
         /\ lista_fcb[k].tam \in Nat
  <1>1. c[k] \in Seq(1 .. Final) /\ EsCadena(c[k], k)
    BY DEF Reparto
  <1>2. 1 .. Final \subseteq Posicion
    BY Medidas DEF Final, Posicion
  <1>3. lista_fcb[k].tam \in 0 .. MaxBloques
    BY FcbTipo DEF IInv, Tipo, TipoDisco
  <1>4. lista_fcb[k].tam \in Nat
    BY <1>3, Medidas
  <1>5. ASSUME NEW S, NEW s \in Seq(S) PROVE Len(s) \in Nat /\ \A i \in 1 .. Len(s) : s[i] \in S
    OBVIOUS
  <1>6. Len(c[k]) \in Nat /\ \A i \in 1 .. Len(c[k]) : c[k][i] \in 1 .. Final
    BY <1>1, <1>5
  <1> QED BY <1>1, <1>2, <1>4, <1>6

\* A file without a first block is empty.
LEMMA SinBloques ==
  ASSUME IInv, NEW c, Reparto(c), NEW k \in DOMAIN lista_fcb, lista_fcb[k].ini = 0
  PROVE  c[k] = <<>> /\ lista_fcb[k].tam = 0
  <1>1. /\ c[k] \in Seq(1 .. Final) /\ EsCadena(c[k], k) /\ lista_fcb[k].tam \in Nat
        /\ \A i \in 1 .. Len(c[k]) : c[k][i] \in 1 .. Final
    BY RepartoTipo
  <1>2. c[k] = <<>>
    <2> SUFFICES ASSUME c[k] # <<>> PROVE FALSE
      OBVIOUS
    <2>1. c[k][1] = 0 /\ 1 \in 1 .. Len(c[k])
      BY <1>1 DEF EsCadena
    <2> QED BY <1>1, <2>1, FinalEs
  <1>3. Mitad(lista_fcb[k].tam) <= 0
    BY <1>1, <1>2 DEF EsCadena
  <1> QED BY <1>1, <1>2, <1>3, MitadEs

\* The FAT and the FCBs stay: so does the partition, and who is not p stays where it was.
LEMMA RepartoQuieto ==
  ASSUME UNCHANGED <<lista_fcb, fat>>, NEW c, Reparto(c)
  PROVE  Reparto(c)'
  BY DEF Reparto, EsCadena, Final

LEMMA ObraQuieta ==
  ASSUME UNCHANGED <<lista_fcb, fat>>, NEW c, NEW q \in Procesos, Obra(q, c),
         hilo'[q] = hilo[q], pedido'[q] = pedido[q]
  PROVE  Obra(q, c)'
  <1>1. Fcb(q)' = Fcb(q)
    BY DEF Fcb, conseguir_id_fcb
  <1>2. \A b : Primero(b)' <=> Primero(b)
    BY DEF Primero, Libres
  <1>3. \A s, k, b, t : EnObra(s, k, b, t)' <=> EnObra(s, k, b, t)
    BY <1>2 DEF EnObra
  <1> HIDE DEF Fcb
  <1> QED BY <1>1, <1>2, <1>3 DEF Obra

LEMMA OrdenQuieto ==
  ASSUME UNCHANGED <<lista_fcb, fat>>, NEW c, EnOrden(c), NEW p \in Procesos,
         \A q \in Procesos : q # p => hilo'[q] = hilo[q] /\ pedido'[q] = pedido[q],
         pedido'[p].op = "F_TRUNCATE" => Obra(p, c)'
  PROVE  EnOrden(c)'
  <1>1. Reparto(c)'
    BY RepartoQuieto DEF EnOrden
  <1>2. ASSUME NEW q \in Truncados' PROVE Obra(q, c)'
    <2>1. CASE q = p
      BY <1>2, <2>1 DEF Truncados, EnCurso
    <2>2. CASE q # p
      <3>1. q \in Procesos /\ q \in Truncados /\ hilo'[q] = hilo[q] /\ pedido'[q] = pedido[q]
        BY <1>2, <2>2 DEF Truncados, EnCurso
      <3> QED BY <3>1, ObraQuieta DEF EnOrden
    <2> QED BY <2>1, <2>2
  <1> QED BY <1>1, <1>2 DEF EnOrden

\* While the disk has room the block found is the first one.
LEMMA LibrePrimero ==
  ASSUME IInv, ~DiscoLleno
  PROVE  Primero(Min(Libres))
  <1>1. Libres \in SUBSET Nat /\ Libres # {}
    BY DEF Libres, DiscoLleno
  <1> QED BY <1>1, MaxMin DEF Primero

\* A step of the only thread of an F_TRUNCATE.
LEMMA SoloTrunca ==
  ASSUME UnoTrunca, NEW p \in Truncados, UNCHANGED pedido, NEW d, Reparto(d)', Obra(p, d)'
  PROVE  EnOrden(d)'
  <1>1. ASSUME NEW q \in Truncados' PROVE Obra(q, d)'
    <2>1. q \in Truncados
      BY <1>1 DEF Truncados, EnCurso
    <2>2. q = p
      BY <2>1 DEF UnoTrunca
    <2> QED BY <2>2
  <1> QED BY <1>1 DEF EnOrden

PasoTruncar(p) ==
  \/ Truncar(p) \/ BloqueInicial(p) \/ BuscarLibre(p) \/ Anotar(p) \/ Seguir(p) \/ Quitar(p) \/ Fijar(p)

LEMMA TruncaCuadro ==
  ASSUME IInv, UnoTrunca, NEW c, EnOrden(c), NEW p \in Procesos, NombresIguales, PasoTruncar(p)
  PROVE  /\ p \in Truncados /\ UNCHANGED pedido /\ Reparto(c) /\ Obra(p, c)
         /\ Fcb(p) \in DOMAIN lista_fcb /\ Fcb(p)' = Fcb(p)
         /\ pedido[p].arg \in 0 .. MaxBloques
         /\ lista_fcb[Fcb(p)].tam \in 0 .. MaxBloques /\ lista_fcb[Fcb(p)].ini \in Posicion
         /\ hilo[p].bloque \in Posicion /\ hilo[p].cuenta \in 0 .. MaxBloques
  <1>1. pedido[p].op = "F_TRUNCATE"
    BY TruncarHace, BloqueInicialHace, BuscarLibreHace, AnotarHace, SeguirHace, QuitarHace, FijarHace
       DEF PasoTruncar
  <1>2. p \in Truncados
    BY <1>1 DEF Truncados, EnCurso
  <1>3. UNCHANGED pedido
    BY DEF PasoTruncar, Truncar, BloqueInicial, BuscarLibre, Anotar, Seguir, Quitar, Fijar, En, kernelVars
  <1>4. Fcb(p)' = Fcb(p)
    <2> DEFINE f == pedido[p].archivo
               con == {k \in DOMAIN lista_fcb : lista_fcb[k].nombre = f}
               despues == {k \in DOMAIN lista_fcb' : lista_fcb'[k].nombre = f}
    <2>1. con = despues
      BY DEF NombresIguales
    <2>2. Fcb(p) = (IF con = {} THEN 0 ELSE Min(con)) /\ Fcb(p)' = (IF despues = {} THEN 0 ELSE Min(despues))
      BY <1>3 DEF Fcb, conseguir_id_fcb
    <2> HIDE DEF con, despues
    <2> QED BY <2>1, <2>2
  <1> HIDE DEF Fcb
  <1> QED BY <1>1, <1>2, <1>3, <1>4, FcbDelHilo, HiloCampos DEF EnOrden, IInv

LEMMA TruncarOrden ==
  ASSUME IInv, UnoTrunca, NEW c, EnOrden(c), NEW p \in Procesos, NombresIguales, Truncar(p)
  PROVE  EnOrden(c)'
  <1>0. PasoTruncar(p)
    BY DEF PasoTruncar
  <1>1. PICK k, n, h : k = Fcb(p) /\ n = pedido[p].arg /\ h = hilo[p]
    OBVIOUS
  <1>2. /\ p \in Truncados /\ UNCHANGED pedido /\ Reparto(c) /\ Obra(p, c)
        /\ k \in DOMAIN lista_fcb /\ k = Fcb(p)' /\ n = pedido'[p].arg
        /\ n \in 0 .. MaxBloques /\ lista_fcb[k].tam \in 0 .. MaxBloques
    BY <1>0, <1>1, TruncaCuadro
  <1>3. n \in Nat /\ lista_fcb[k].tam \in Nat
    BY <1>2, Medidas
  <1>4. UNCHANGED <<lista_fcb, fat>>
    BY DEF Truncar, discoVars
  <1>5. lista_fcb[k].ini # 0 => n = 0 \/ n = lista_fcb[k].tam
    <2>1. h.paso = "truncar"
      BY <1>1 DEF Truncar, En
    <2> QED BY <1>1, <1>2, <2>1 DEF Obra
  <1>6. lista_fcb[k].ini = 0 => c[k] = <<>> /\ lista_fcb[k].tam = 0
    BY <1>2, SinBloques
  <1>7. Mitad(lista_fcb[k].tam) <= Len(c[k]) /\ Len(c[k]) \in Nat
    BY <1>2, RepartoTipo DEF EsCadena
  <1>8. \/ n > lista_fcb[k].tam /\ lista_fcb[k].ini = 0 /\ Queda(p, "inicial", 0, n - lista_fcb[k].tam, h.valor)
        \/ n > lista_fcb[k].tam /\ lista_fcb[k].ini # 0
        \/ n < lista_fcb[k].tam /\ n > 0
        \/ n <= lista_fcb[k].tam /\ Queda(p, "fijar", h.bloque, h.cuenta, h.valor)
    BY <1>1, TruncarHace
  <1>9. Reparto(c)'
    BY <1>2, <1>4, RepartoQuieto
  <1>10. CASE lista_fcb[k].ini = 0 /\ Queda(p, "inicial", 0, n - lista_fcb[k].tam, h.valor)
    <2>1. n - lista_fcb[k].tam = n
      BY <1>3, <1>6, <1>10
    <2>2. hilo'[p].paso = "inicial" /\ hilo'[p].cuenta = n
      BY <1>10, <2>1 DEF Queda
    <2>3. Obra(p, c)'
      BY <1>2, <1>6, <1>10, <2>2 DEF Obra
    <2> QED BY <1>2, <1>9, <2>3, SoloTrunca
  <1>11. CASE n <= lista_fcb[k].tam /\ Queda(p, "fijar", h.bloque, h.cuenta, h.valor)
    <2>1. n = 0 \/ n = lista_fcb[k].tam
      BY <1>3, <1>5, <1>6, <1>11
    <2>2. Mitad(n) <= Len(c[k])
      BY <1>7, <2>1, MitadEs
    <2>3. hilo'[p].paso = "fijar"
      BY <1>11 DEF Queda
    <2>4. Obra(p, c)'
      BY <1>2, <2>2, <2>3 DEF Obra
    <2> QED BY <1>2, <1>9, <2>4, SoloTrunca
  <1>12. ~(n > lista_fcb[k].tam /\ lista_fcb[k].ini # 0) /\ ~(n < lista_fcb[k].tam /\ n > 0)
    BY <1>3, <1>5, <1>6
  <1> QED BY <1>8, <1>10, <1>11, <1>12

LEMMA InicialOrden ==
  ASSUME IInv, FatSana, "fin_fat" \notin fuera', UnoTrunca, NEW c, EnOrden(c), NEW p \in Procesos,
         NombresIguales, BloqueInicial(p)
  PROVE  EnOrden(c)'
  <1>0. PasoTruncar(p)
    BY DEF PasoTruncar
  <1>1. PICK k, n, h : k = Fcb(p) /\ n = pedido[p].arg /\ h = hilo[p]
    OBVIOUS
  <1>2. /\ p \in Truncados /\ UNCHANGED pedido /\ Reparto(c) /\ Obra(p, c)
        /\ k \in DOMAIN lista_fcb /\ k = Fcb(p)' /\ n = pedido'[p].arg
        /\ n \in 0 .. MaxBloques
    BY <1>0, <1>1, TruncaCuadro
  <1>3. PICK b \in obtener_primer_bloque_libre :
          /\ lista_fcb' = [lista_fcb EXCEPT ![k].ini = b]
          /\ Queda(p, "libre", b, h.cuenta, h.valor)
    BY <1>1, BloqueInicialHace
  <1>4. "fin_fat" \notin AvisoDiscoLleno /\ UNCHANGED fat /\ h.paso = "inicial"
    BY <1>1 DEF BloqueInicial, En
  <1>5. b \in Posicion /\ Primero(b)
    BY <1>3, <1>4, LibreSana, LibrePrimero
  <1>6. h.cuenta = n /\ c[k] = <<>>
    BY <1>1, <1>2, <1>4 DEF Obra
  <1>7. /\ DOMAIN lista_fcb' = DOMAIN lista_fcb /\ lista_fcb'[k].ini = b
        /\ lista_fcb'[k].tam = lista_fcb[k].tam
        /\ \A j \in DOMAIN lista_fcb : j # k => lista_fcb'[j] = lista_fcb[j]
    BY <1>2, <1>3, <1>5, IniCambia DEF IInv
  <1>8. Reparto(c)'
    <2>1. ASSUME NEW j \in DOMAIN lista_fcb PROVE EsCadena(c[j], j)'
      <3>1. EsCadena(c[j], j)
        BY <1>2 DEF Reparto
      <3> QED BY <1>4, <1>6, <1>7, <3>1 DEF EsCadena
    <2> QED BY <1>2, <1>7, <2>1 DEF Reparto, Final
  <1>9. EnObra(c[k], k, b, n - n)'
    <2>1. Primero(b)'
      BY <1>4, <1>5 DEF Primero, Libres
    <2>2. 2 * Len(c[k]) = n - n
      BY <1>2, <1>6, Medidas
    <2> QED BY <1>6, <1>7, <2>1, <2>2 DEF EnObra
  <1>10. Obra(p, c)'
    <2>1. hilo'[p].paso = "libre" /\ hilo'[p].bloque = b /\ hilo'[p].cuenta = n
      BY <1>3, <1>6 DEF Queda
    <2> QED BY <1>2, <1>9, <2>1 DEF Obra
  <1> QED BY <1>2, <1>8, <1>10, SoloTrunca

LEMMA BuscarOrden ==
  ASSUME IInv, FatSana, "fin_fat" \notin fuera', UnoTrunca, NEW c, EnOrden(c), NEW p \in Procesos,
         NombresIguales, BuscarLibre(p)
  PROVE  EnOrden(c)'
  <1>0. PasoTruncar(p)
    BY DEF PasoTruncar
  <1>1. PICK k, n, h : k = Fcb(p) /\ n = pedido[p].arg /\ h = hilo[p]
    OBVIOUS
  <1>2. /\ p \in Truncados /\ UNCHANGED pedido /\ Reparto(c) /\ Obra(p, c)
        /\ k = Fcb(p)' /\ n = pedido'[p].arg
    BY <1>0, <1>1, TruncaCuadro
  <1>3. PICK b \in obtener_primer_bloque_libre : Queda(p, "anotar", h.bloque, h.cuenta, b)
    BY <1>1, BuscarLibreHace
  <1>4. "fin_fat" \notin AvisoDiscoLleno /\ UNCHANGED <<lista_fcb, fat>> /\ h.paso = "libre"
    BY <1>1 DEF BuscarLibre, En, discoVars
  <1>5. Primero(b) /\ EnObra(c[k], k, h.bloque, n - h.cuenta)
    BY <1>1, <1>2, <1>3, <1>4, LibreSana, LibrePrimero DEF Obra
  <1>6. Primero(b)' /\ EnObra(c[k], k, h.bloque, n - h.cuenta)'
    BY <1>4, <1>5 DEF Primero, Libres, EnObra
  <1>7. Obra(p, c)'
    <2>1. /\ hilo'[p].paso = "anotar" /\ hilo'[p].bloque = h.bloque /\ hilo'[p].cuenta = h.cuenta
          /\ hilo'[p].valor = b
      BY <1>3 DEF Queda
    <2> QED BY <1>2, <1>6, <2>1 DEF Obra
  <1> QED BY <1>2, <1>4, <1>7, RepartoQuieto, SoloTrunca

LEMMA SeguirOrden ==
  ASSUME IInv, FatSana, HilosSanos, UnoTrunca, NEW c, EnOrden(c), NEW p \in Procesos,
         NombresIguales, Seguir(p)
  PROVE  EnOrden(c)'
  <1>0. PasoTruncar(p)
    BY DEF PasoTruncar
  <1>1. PICK k, n, h : k = Fcb(p) /\ n = pedido[p].arg /\ h = hilo[p]
    OBVIOUS
  <1>2. /\ p \in Truncados /\ UNCHANGED pedido /\ Reparto(c) /\ Obra(p, c)
        /\ k \in DOMAIN lista_fcb /\ k = Fcb(p)' /\ n = pedido'[p].arg
        /\ n \in 0 .. MaxBloques /\ h.bloque \in Posicion /\ h.cuenta \in 0 .. MaxBloques
    BY <1>0, <1>1, TruncaCuadro
  <1>3. h.paso = "seguir" /\ UNCHANGED <<lista_fcb, fat>>
    BY <1>1 DEF Seguir, En, discoVars
  <1>4. posicion_en_fat(h.bloque) = {fat[h.bloque]}
    <2>1. h.bloque # -1 /\ h.bloque # Final
      BY <1>1, <1>3 DEF HilosSanos
    <2> QED BY <1>2, <2>1, LeeFat DEF FatSana, IInv
  <1>5. PICK b : b = fat[h.bloque]
    OBVIOUS
  <1>6. b # 0 /\ EnObra(c[k], k, b, n - h.cuenta + 1)
    BY <1>1, <1>2, <1>3, <1>5 DEF Obra
  <1>7. \/ h.cuenta = 1 /\ Queda(p, "fijar", b, h.cuenta - 1, Basura)
        \/ Queda(p, "libre", b, h.cuenta - 1, Basura)
    BY <1>1, <1>4, <1>5, <1>6, SeguirHace
  <1>8. n \in Nat /\ h.cuenta \in Nat /\ Len(c[k]) \in Nat
    BY <1>2, Medidas, RepartoTipo
  <1>9. CASE h.cuenta = 1 /\ Queda(p, "fijar", b, h.cuenta - 1, Basura)
    <2>1. n - h.cuenta + 1 = n
      BY <1>8, <1>9
    <2>2. 2 * Len(c[k]) = n \/ 2 * Len(c[k]) = n + 1
      BY <1>6, <2>1 DEF EnObra
    <2>3. Mitad(n) <= Len(c[k])
      BY <1>8, <2>2, MitadEs
    <2>4. Obra(p, c)'
      BY <1>2, <1>9, <2>3 DEF Obra, Queda
    <2> QED BY <1>2, <1>3, <2>4, RepartoQuieto, SoloTrunca
  <1>10. CASE Queda(p, "libre", b, h.cuenta - 1, Basura)
    <2>1. n - h.cuenta + 1 = n - (h.cuenta - 1)
      BY <1>8
    <2>2. EnObra(c[k], k, b, n - (h.cuenta - 1))'
      BY <1>3, <1>6, <2>1 DEF Primero, Libres, EnObra
    <2>3. hilo'[p].paso = "libre" /\ hilo'[p].bloque = b /\ hilo'[p].cuenta = h.cuenta - 1
      BY <1>10 DEF Queda
    <2>4. Obra(p, c)'
      BY <1>2, <2>2, <2>3 DEF Obra
    <2> QED BY <1>2, <1>3, <2>4, RepartoQuieto, SoloTrunca
  <1> QED BY <1>7, <1>9, <1>10

LEMMA FijarOrden ==
  ASSUME IInv, UnoTrunca, NEW c, EnOrden(c), NEW p \in Procesos, NombresIguales, Fijar(p)
  PROVE  EnOrden(c)'
  <1>0. PasoTruncar(p)
    BY DEF PasoTruncar
  <1>1. PICK k, n : k = Fcb(p) /\ n = pedido[p].arg
    OBVIOUS
  <1>2. /\ p \in Truncados /\ UNCHANGED pedido /\ Reparto(c) /\ Obra(p, c)
        /\ k \in DOMAIN lista_fcb /\ n \in 0 .. MaxBloques
    BY <1>0, <1>1, TruncaCuadro
  <1>3. /\ hilo[p].paso = "fijar" /\ lista_fcb' = [lista_fcb EXCEPT ![k].tam = n] /\ UNCHANGED fat
        /\ hilo'[p].paso = "responder"
    BY <1>1, FijarHace DEF Fijar, Queda
  <1>4. Mitad(n) <= Len(c[k])
    BY <1>1, <1>2, <1>3 DEF Obra
  <1>5. /\ DOMAIN lista_fcb' = DOMAIN lista_fcb /\ lista_fcb'[k].ini = lista_fcb[k].ini
        /\ lista_fcb'[k].tam = n
        /\ \A j \in DOMAIN lista_fcb : j # k => lista_fcb'[j] = lista_fcb[j]
    BY <1>2, <1>3, TamCambia DEF IInv
  <1>6. Reparto(c)'
    <2>1. ASSUME NEW j \in DOMAIN lista_fcb PROVE EsCadena(c[j], j)'
      <3>1. EsCadena(c[j], j)
        BY <1>2 DEF Reparto
      <3> QED BY <1>3, <1>4, <1>5, <3>1 DEF EsCadena
    <2> QED BY <1>2, <1>5, <2>1 DEF Reparto, Final
  <1>7. Obra(p, c)'
    BY <1>3 DEF Obra
  <1> QED BY <1>2, <1>6, <1>7, SoloTrunca

\* What a file had it has, in the same order; what it gained was free.
Crece(c, d) ==
  \A k \in DOMAIN c :
    /\ k \in DOMAIN d /\ Len(c[k]) <= Len(d[k])
    /\ \A i \in 1 .. Len(d[k]) : IF i <= Len(c[k]) THEN d[k][i] = c[k][i] ELSE d[k][i] \in Libres

\* asignar_bloques writes an entry: the free block becomes the last one of the file, or the last
\* one leads to the free block.
LEMMA AnotarOrden ==
  ASSUME IInv, FatSana, HilosSanos, "fin_fat" \notin fuera', UnoTrunca, NEW c, EnOrden(c),
         NEW p \in Procesos, NombresIguales, Anotar(p)
  PROVE  \E e : EnOrden(e)' /\ Crece(c, e)
  <1>0. PasoTruncar(p)
    BY DEF PasoTruncar
  <1>1. PICK k, n, h : k = Fcb(p) /\ n = pedido[p].arg /\ h = hilo[p]
    OBVIOUS
  <1>2. /\ p \in Truncados /\ UNCHANGED pedido /\ Reparto(c) /\ Obra(p, c)
        /\ k \in DOMAIN lista_fcb /\ k = Fcb(p)' /\ n = pedido'[p].arg
        /\ n \in 0 .. MaxBloques /\ h.bloque \in Posicion /\ h.cuenta \in 0 .. MaxBloques
    BY <1>0, <1>1, TruncaCuadro
  <1>3. /\ h.paso = "anotar" /\ h.valor \in Posicion /\ modificar_en_fat(h.bloque, h.valor)
        /\ Queda(p, "seguir", h.bloque, h.cuenta, h.valor)
    BY <1>1, AnotarHace
  <1>4. "fin_fat" \notin FueraDeLaFat(h.bloque) /\ UNCHANGED lista_fcb
    BY <1>1 DEF Anotar
  <1>5. PICK v, b, s : v = h.valor /\ b = h.bloque /\ s = c[k]
    OBVIOUS
  <1>6. Primero(v) /\ EnObra(s, k, b, n - h.cuenta)
    BY <1>1, <1>2, <1>3, <1>5 DEF Obra
  <1>7. b # -1
    BY <1>2, <1>4, <1>5, LeeSana
  <1>8. fat'[b] = v /\ \A i \in Posicion : i # b => fat'[i] = fat[i]
    BY <1>2, <1>3, <1>5, <1>7, EscribeFat DEF IInv
  <1>9. v \in 1 .. Final /\ fat[v] = 0 /\ v # 0
    BY <1>6 DEF Primero, Libres, Final
  <1>10. /\ s \in Seq(1 .. Final) /\ Len(s) \in Nat /\ EsCadena(s, k)
         /\ \A i \in 1 .. Len(s) : s[i] \in 1 .. Final /\ s[i] \in Posicion
    BY <1>2, <1>5, RepartoTipo
  <1>11. ASSUME NEW j \in DOMAIN lista_fcb, \A i \in 1 .. Len(c[j]) : c[j][i] # b
         PROVE  EsCadena(c[j], j)'
    <2>1. EsCadena(c[j], j) /\ \A i \in 1 .. Len(c[j]) : c[j][i] \in Posicion
      BY <1>2, RepartoTipo
    <2> QED BY <1>4, <1>8, <1>11, <2>1 DEF EsCadena
  <1>12. ASSUME NEW d, Crece(c, d), Reparto(d)', EnObra(d[k], k, v, n - h.cuenta + 1)'
         PROVE  \E e : EnOrden(e)' /\ Crece(c, e)
    <2>1. hilo'[p].paso = "seguir" /\ hilo'[p].bloque = b /\ hilo'[p].cuenta = h.cuenta
      BY <1>3, <1>5 DEF Queda
    <2>2. Obra(p, d)'
      BY <1>2, <1>8, <1>9, <1>12, <2>1 DEF Obra
    <2> QED BY <1>2, <1>12, <2>2, SoloTrunca
  <1>13. n \in Nat /\ h.cuenta \in Nat
    BY <1>2, Medidas
  <1>14. CASE /\ 2 * Len(s) = n - h.cuenta /\ Primero(b)
              /\ IF s = <<>> THEN lista_fcb[k].ini = b ELSE fat[s[Len(s)]] = b
    <2>1. b = v
      BY <1>6, <1>14 DEF Primero, Libres
    <2> DEFINE r == Append(s, v)
               d == [c EXCEPT ![k] = r]
    <2>2. \A j \in DOMAIN lista_fcb : \A i \in 1 .. Len(c[j]) : c[j][i] # b
      <3>1. ASSUME NEW j \in DOMAIN lista_fcb, NEW i \in 1 .. Len(c[j]) PROVE fat[c[j][i]] # 0
        <4>1. EsCadena(c[j], j)
          BY <1>2 DEF Reparto
        <4> QED BY <4>1 DEF EsCadena
      <3> QED BY <1>9, <2>1, <3>1
    <2>3. /\ r \in Seq(1 .. Final) /\ Len(r) = Len(s) + 1 /\ r[Len(s) + 1] = v
          /\ \A i \in 1 .. Len(s) : r[i] = s[i]
      <3>1. ASSUME NEW S, NEW e \in S, NEW q \in Seq(S)
            PROVE  /\ Append(q, e) \in Seq(S) /\ Len(Append(q, e)) = Len(q) + 1
                   /\ Append(q, e)[Len(q) + 1] = e
                   /\ \A i \in 1 .. Len(q) : Append(q, e)[i] = q[i]
        OBVIOUS
      <3> QED BY <1>9, <1>10, <3>1
    <2> HIDE DEF r
    <2>4. d \in [DOMAIN lista_fcb -> Seq(1 .. Final)] /\ DOMAIN c = DOMAIN lista_fcb
      BY <1>2, <2>3 DEF Reparto
    <2>5. d[k] = r /\ \A j \in DOMAIN lista_fcb : j # k => d[j] = c[j]
      BY <1>2, <2>4
    <2> HIDE DEF d
    <2>6. EsCadena(r, k)'
      <3>1. Mitad(lista_fcb'[k].tam) <= Len(r)
        <4>1. Mitad(lista_fcb[k].tam) <= Len(s) /\ Mitad(lista_fcb[k].tam) \in Int
          <5>1. lista_fcb[k].tam \in Nat
            BY <1>2, RepartoTipo
          <5> QED BY <1>10, <5>1, MitadEs DEF EsCadena
        <4> QED BY <1>4, <1>10, <2>3, <4>1
      <3>2. r[1] = lista_fcb'[k].ini
        <4>1. CASE s = <<>>
          BY <1>4, <1>14, <2>1, <2>3, <4>1
        <4>2. CASE s # <<>>
          <5>1. s[1] = lista_fcb[k].ini /\ 1 \in 1 .. Len(s)
            BY <1>10, <4>2 DEF EsCadena
          <5> QED BY <1>4, <2>3, <5>1
        <4> QED BY <4>1, <4>2
      <3>3. ASSUME NEW i \in 1 .. Len(r) PROVE fat'[r[i]] # 0 /\ (i < Len(r) => fat'[r[i]] = r[i + 1])
        <4>1. CASE i = Len(s) + 1
          BY <1>8, <1>9, <1>10, <2>1, <2>3, <4>1
        <4>2. CASE i \in 1 .. Len(s)
          <5>1. r[i] = s[i] /\ s[i] \in Posicion /\ s[i] # b
            BY <1>2, <1>5, <1>10, <2>2, <2>3, <4>2
          <5>2. fat'[r[i]] = fat[s[i]]
            BY <1>8, <5>1
          <5>3. fat[s[i]] # 0 /\ (i < Len(s) => fat[s[i]] = s[i + 1])
            BY <1>10, <4>2 DEF EsCadena
          <5>4. i < Len(s) => r[i + 1] = s[i + 1]
            BY <1>10, <2>3, <4>2
          <5>5. i = Len(s) => fat[s[i]] = v /\ r[i + 1] = v
            BY <1>10, <1>14, <2>1, <2>3, <4>2
          <5> QED BY <1>10, <4>2, <5>2, <5>3, <5>4, <5>5
        <4> QED BY <1>10, <2>3, <4>1, <4>2
      <3> QED BY <3>1, <3>2, <3>3 DEF EsCadena
    <2>7. Disjuntas(d)
      <3>1. Disjuntas(c) /\ DOMAIN d = DOMAIN lista_fcb /\ DOMAIN c = DOMAIN lista_fcb
        BY <1>2, <2>4 DEF Reparto
      <3>2. ASSUME NEW j \in DOMAIN d, NEW i \in 1 .. Len(d[j])
            PROVE  \/ j = k /\ i = Len(s) + 1 /\ d[j][i] = v
                   \/ i \in 1 .. Len(c[j]) /\ d[j][i] = c[j][i] /\ d[j][i] # v
        BY <1>5, <1>10, <2>1, <2>2, <2>3, <2>5, <3>1
      <3>3. ASSUME NEW j \in DOMAIN d, NEW l \in DOMAIN d, NEW a \in 1 .. Len(d[j]), NEW i \in 1 .. Len(d[l]),
                   d[j][a] = d[l][i]
            PROVE  j = l /\ a = i
        <4>1. \/ j = k /\ a = Len(s) + 1 /\ d[j][a] = v
              \/ a \in 1 .. Len(c[j]) /\ d[j][a] = c[j][a] /\ d[j][a] # v
          BY <3>2
        <4>2. \/ l = k /\ i = Len(s) + 1 /\ d[l][i] = v
              \/ i \in 1 .. Len(c[l]) /\ d[l][i] = c[l][i] /\ d[l][i] # v
          BY <3>2
        <4>3. CASE d[j][a] = v
          BY <3>3, <4>1, <4>2, <4>3
        <4>4. CASE d[j][a] # v
          <5>1. /\ a \in 1 .. Len(c[j]) /\ i \in 1 .. Len(c[l]) /\ c[j][a] = c[l][i]
            BY <3>3, <4>1, <4>2, <4>4
          <5>2. j \in DOMAIN c /\ l \in DOMAIN c
            BY <3>1
          <5> QED BY <3>1, <5>1, <5>2 DEF Disjuntas
        <4> QED BY <4>3, <4>4
      <3> QED BY <3>3 DEF Disjuntas
    <2>8. Reparto(d)'
      <3>1. ASSUME NEW j \in DOMAIN lista_fcb PROVE EsCadena(d[j], j)'
        <4>1. CASE j = k
          BY <2>5, <2>6, <4>1
        <4>2. CASE j # k
          <5>1. EsCadena(c[j], j)' /\ d[j] = c[j]
            BY <1>11, <2>2, <2>5, <4>2
          <5> QED BY <5>1
        <4> QED BY <4>1, <4>2
      <3> QED BY <1>4, <2>4, <2>7, <3>1 DEF Reparto, Final
    <2>9. EnObra(r, k, v, n - h.cuenta + 1)'
      <3>1. 2 * Len(r) = n - h.cuenta + 1 + 1 /\ r # <<>> /\ r[Len(r)] = v
        BY <1>10, <1>13, <1>14, <2>3
      <3> QED BY <3>1 DEF EnObra
    <2>10. Crece(c, d)
      <3>1. DOMAIN c = DOMAIN lista_fcb /\ DOMAIN d = DOMAIN lista_fcb
        BY <1>2, <2>4 DEF Reparto
      <3>2. v \in Libres
        BY <1>6 DEF Primero
      <3>3. \A i \in 1 .. Len(r) : IF i <= Len(s) THEN r[i] = s[i] ELSE r[i] \in Libres
        BY <1>10, <2>3, <3>2
      <3>4. ASSUME NEW j \in DOMAIN lista_fcb, j # k PROVE Len(c[j]) \in Nat
        BY <1>2, <3>4, RepartoTipo
      <3>5. k \in DOMAIN d /\ Len(c[k]) <= Len(d[k])
            /\ \A i \in 1 .. Len(d[k]) : IF i <= Len(c[k]) THEN d[k][i] = c[k][i] ELSE d[k][i] \in Libres
        <4>1. c[k] = s /\ d[k] = r /\ k \in DOMAIN d
          BY <1>5, <1>2, <2>5, <3>1
        <4>2. Len(s) <= Len(r)
          BY <1>10, <2>3
        <4> QED BY ONLY <3>3, <4>1, <4>2
      <3>6. ASSUME NEW j \in DOMAIN c, j # k
            PROVE  /\ j \in DOMAIN d /\ Len(c[j]) <= Len(d[j])
                   /\ \A i \in 1 .. Len(d[j]) : IF i <= Len(c[j]) THEN d[j][i] = c[j][i] ELSE d[j][i] \in Libres
        BY <2>5, <3>1, <3>4, <3>6
      <3> QED BY <3>5, <3>6 DEF Crece
    <2> QED BY <1>12, <2>5, <2>8, <2>9, <2>10
  <1>15. CASE 2 * Len(s) = n - h.cuenta + 1 /\ s # <<>> /\ b = s[Len(s)]
    <2>0. Len(s) \in 1 .. Len(s) /\ fat[b] # 0
      BY <1>10, <1>15 DEF EsCadena
    <2>1. Primero(v)'
      <3>1. Libres' = Libres
        <4>1. \A i \in 1 .. TamanioFat - 1 : i \in Posicion
          BY Medidas DEF Posicion
        <4> QED BY <1>8, <1>9, <2>0, <4>1 DEF Libres
      <3> QED BY <1>6, <3>1 DEF Primero
    <2>2. EnObra(s, k, v, n - h.cuenta + 1)'
      BY <1>8, <1>13, <1>15, <2>1 DEF EnObra
    <2>3. Disjuntas(c) /\ DOMAIN c = DOMAIN lista_fcb
      BY <1>2 DEF Reparto
    <2>4. ASSUME NEW j \in DOMAIN lista_fcb PROVE EsCadena(c[j], j)'
      <3>1. CASE j = k
        <4>1. ASSUME NEW i \in 1 .. Len(s)
              PROVE  fat'[s[i]] # 0 /\ (i < Len(s) => fat'[s[i]] = s[i + 1])
          <5>1. CASE i = Len(s)
            BY <1>8, <1>9, <1>10, <1>15, <5>1
          <5>2. CASE i # Len(s)
            <6>1. s[i] # b
              BY <1>2, <1>5, <1>15, <2>0, <2>3, <5>2 DEF Disjuntas
            <6> QED BY <1>8, <1>10, <6>1 DEF EsCadena
          <5> QED BY <5>1, <5>2
        <4>2. EsCadena(s, k)'
          BY <1>4, <1>10, <4>1 DEF EsCadena
        <4> QED BY <1>5, <3>1, <4>2
      <3>2. CASE j # k
        <4>1. \A i \in 1 .. Len(c[j]) : c[j][i] # b
          BY <1>2, <1>5, <1>15, <2>0, <2>3, <3>2 DEF Disjuntas
        <4> QED BY <1>11, <4>1
      <3> QED BY <3>1, <3>2
    <2>5. Reparto(c)'
      BY <1>2, <1>4, <2>4 DEF Reparto, Final
    <2>6. Crece(c, c)
      <3>1. \A j \in DOMAIN c : Len(c[j]) \in Nat
        BY <1>2, <2>3, RepartoTipo
      <3> QED BY <3>1 DEF Crece
    <2> QED BY <1>5, <1>12, <2>2, <2>5, <2>6
  <1> QED BY <1>6, <1>14, <1>15 DEF EnObra

\* crear_fcb adds a file without blocks.
LEMMA CrearOrden ==
  ASSUME IInv, NEW c, EnOrden(c), NEW p \in Procesos, Crear(p)
  PROVE  \E e : EnOrden(e)' /\ Crece(c, e)
  <1> DEFINE f == pedido[p].archivo
             r == FcbNuevo(f)
             m == Len(lista_fcb) + 1
  <1>0. PICK d : d = [j \in DOMAIN lista_fcb' |-> IF j \in DOMAIN lista_fcb THEN c[j] ELSE <<>>]
    OBVIOUS
  <1>1. /\ lista_fcb' = Append(lista_fcb, r) /\ r \in Fcbs /\ ~Existe(f)
        /\ pedido[p].op = "F_CREATE" /\ \A q \in Procesos : q # p => hilo'[q] = hilo[q]
    BY CrearHace DEF Queda
  <1>2. r.nombre = f /\ r.tam = 0
    BY DEF FcbNuevo
  <1>3. UNCHANGED <<fat, pedido>> /\ lista_fcb \in Seq(Fcbs)
    BY DEF Crear, En, kernelVars, IInv, Tipo, TipoDisco
  <1> HIDE DEF r, f
  <1>4. /\ DOMAIN lista_fcb' = 1 .. m /\ DOMAIN lista_fcb = 1 .. m - 1 /\ m \in Nat
        /\ lista_fcb'[m] = r /\ \A j \in DOMAIN lista_fcb : lista_fcb'[j] = lista_fcb[j]
    BY <1>1, <1>3, FcbCrece
  <1> HIDE DEF m
  <1>5. \A j \in DOMAIN lista_fcb' : j \notin DOMAIN lista_fcb => j = m
    BY <1>4
  <1>6. Reparto(c)
    BY DEF EnOrden
  <1>7. d \in [DOMAIN lista_fcb' -> Seq(1 .. Final)]
    <2>1. <<>> \in Seq(1 .. Final) /\ \A j \in DOMAIN lista_fcb : c[j] \in Seq(1 .. Final)
      BY <1>6 DEF Reparto
    <2> QED BY <1>0, <2>1
  <1>8. /\ \A j \in DOMAIN lista_fcb : d[j] = c[j]
        /\ \A j \in DOMAIN lista_fcb' : j \notin DOMAIN lista_fcb => d[j] = <<>>
        /\ DOMAIN d = DOMAIN lista_fcb' /\ DOMAIN lista_fcb \subseteq DOMAIN lista_fcb'
        /\ DOMAIN c = DOMAIN lista_fcb
    BY <1>0, <1>4, <1>6 DEF Reparto
  <1>9. Reparto(d)'
    <2>1. ASSUME NEW j \in DOMAIN lista_fcb' PROVE EsCadena(d[j], j)'
      <3>1. CASE j \in DOMAIN lista_fcb
        <4>1. EsCadena(c[j], j)
          BY <1>6, <3>1 DEF Reparto
        <4> QED BY <1>3, <1>4, <1>8, <3>1, <4>1 DEF EsCadena
      <3>2. CASE j \notin DOMAIN lista_fcb
        <4>1. lista_fcb'[j].tam = 0 /\ d[j] = <<>>
          BY <1>2, <1>4, <1>5, <1>8, <3>2
        <4> QED BY <4>1, MitadEs DEF EsCadena
      <3> QED BY <3>1, <3>2
    <2>2. Disjuntas(d)
      <3>1. Disjuntas(c)
        BY <1>6 DEF Reparto
      <3>2. \A j \in DOMAIN d : j \notin DOMAIN lista_fcb => Len(d[j]) = 0
        BY <1>8
      <3>3. \A j \in DOMAIN d : \A i : i \in 1 .. Len(d[j]) => j \in DOMAIN lista_fcb /\ d[j] = c[j]
        BY <1>8, <3>2
      <3> QED BY <1>8, <3>1, <3>3 DEF Disjuntas
    <2> QED BY <1>7, <2>1, <2>2 DEF Reparto, Final
  <1>10. ASSUME NEW q \in Truncados' PROVE Obra(q, d)'
    <2>1. q \in Procesos /\ q # p /\ q \in Truncados /\ pedido[q].op = "F_TRUNCATE"
      BY <1>1, <1>3, <1>10 DEF Truncados, EnCurso
    <2>2. PICK k, g : k = Fcb(q) /\ g = pedido[q].archivo
      OBVIOUS
    <2>3. k \in DOMAIN lista_fcb /\ lista_fcb[k].nombre = g
      BY <2>1, <2>2, FcbDelHilo
    <2>4. g # f
      BY <1>1, <2>3 DEF Existe
    <2>5. Fcb(q)' = k
      <3> DEFINE con == {j \in DOMAIN lista_fcb : lista_fcb[j].nombre = g}
                 despues == {j \in DOMAIN lista_fcb' : lista_fcb'[j].nombre = g}
      <3>1. con = despues
        BY <1>2, <1>4, <1>5, <1>8, <2>4
      <3>2. k = (IF con = {} THEN 0 ELSE Min(con)) /\ Fcb(q)' = (IF despues = {} THEN 0 ELSE Min(despues))
        BY <1>3, <2>2 DEF Fcb, conseguir_id_fcb
      <3> HIDE DEF con, despues
      <3> QED BY <3>1, <3>2
    <2>6. hilo'[q] = hilo[q] /\ pedido'[q] = pedido[q] /\ lista_fcb'[k] = lista_fcb[k] /\ d[k] = c[k]
      BY <1>1, <1>3, <1>4, <1>8, <2>1, <2>3
    <2>7. \A b : Primero(b)' <=> Primero(b)
      BY <1>3 DEF Primero, Libres
    <2>8. \A s, b, t : EnObra(s, k, b, t)' <=> EnObra(s, k, b, t)
      BY <1>3, <2>6, <2>7 DEF EnObra
    <2>9. Obra(q, c)
      BY <2>1 DEF EnOrden
    <2> QED BY <1>3, <2>2, <2>5, <2>6, <2>7, <2>8, <2>9 DEF Obra
  <1>11. Crece(c, d)
    <2>1. \A j \in DOMAIN c : Len(c[j]) \in Nat
      BY <1>6, <1>8, RepartoTipo
    <2> QED BY <1>8, <2>1 DEF Crece
  <1> QED BY <1>9, <1>10, <1>11 DEF EnOrden

\* Nobody asks for a second F_TRUNCATE without a notice.
LEMMA UnoTruncaSigue ==
  ASSUME IInv, Next, UnoTrunca, "truncados" \notin fuera'
  PROVE  UnoTrunca'
  <1>1. CASE \A q \in Procesos : pedido'[q].op = "F_TRUNCATE" => pedido[q].op = "F_TRUNCATE"
    BY <1>1 DEF UnoTrunca, Truncados, EnCurso
  <1>2. ASSUME NEW p \in Procesos, NEW f, NEW n, NEW op \in OpsMem \cup {"F_TRUNCATE"}, Pedir(p, op, f, n)
        PROVE  UnoTrunca'
    <2>1. pedido'[p].op = op /\ \A q \in Procesos : q # p => pedido'[q] = pedido[q]
      <3>1. \E s : Llega(p, op, f, n, s)
        BY <1>2, PedirHace
      <3> QED BY <3>1 DEF Llega, IInv, Tipo, TipoKernel
    <2>2. op = "F_TRUNCATE" => EnCurso({op}) \cap (Procesos \ {p}) = {}
      BY <1>2 DEF Pedir, Avisos
    <2>3. CASE op = "F_TRUNCATE"
      <3>1. \A q \in Procesos : q # p => pedido'[q].op # "F_TRUNCATE"
        BY <2>1, <2>2, <2>3 DEF EnCurso
      <3> QED BY <3>1 DEF UnoTrunca, Truncados, EnCurso
    <2>4. CASE op # "F_TRUNCATE"
      BY <2>1, <2>4 DEF UnoTrunca, Truncados, EnCurso
    <2> QED BY <2>3, <2>4
  <1>3. ASSUME NEW p \in Procesos, NEW f, PedirAbrir(p, f) \/ PedirCrear(p)
        PROVE  \A q \in Procesos : pedido'[q].op = "F_TRUNCATE" => pedido[q].op = "F_TRUNCATE"
    <2>1. ASSUME NEW op, op # "F_TRUNCATE", NEW g, NEW s, Llega(p, op, g, 0, s)
          PROVE  \A q \in Procesos : pedido'[q].op = "F_TRUNCATE" => pedido[q].op = "F_TRUNCATE"
      BY <2>1 DEF Llega, IInv, Tipo, TipoKernel
    <2>2. Llega(p, "F_OPEN", f, 0, "buscar") \/ Llega(p, "F_CREATE", kernel.archivo, 0, "crear")
      BY <1>3 DEF PedirAbrir, PedirCrear
    <2> QED BY <2>1, <2>2
  <1>4. ASSUME NEW p \in Procesos, Responder(p)
        PROVE  \A q \in Procesos : pedido'[q].op = "F_TRUNCATE" => pedido[q].op = "F_TRUNCATE"
    BY <1>4, ResponderHace DEF SinPedido
  <1>5. ASSUME NEW p \in Procesos, Hilo(p), ~PedirCrear(p), ~Responder(p) PROVE UNCHANGED pedido
    BY <1>5 DEF Hilo, Abrir, Crear, Truncar, BloqueInicial, BuscarLibre, Anotar, Seguir, Quitar, Fijar,
                PedirMemoria, RecibirCodigo, RecibirBuffer, Ubicar, Caminar, Escribir, Leer, En, kernelVars
  <1>6. Servir => UNCHANGED pedido
    BY DEF Servir, kernelVars
  <1>7. ASSUME Programas PROVE UnoTrunca'
    <2>1. PICK p \in Procesos, f \in Archivos :
            \/ PedirAbrir(p, f)
            \/ \E op \in OpsMem \cup {"F_TRUNCATE"}, n \in 0 .. MaxBloques : Pedir(p, op, f, n)
      BY <1>7, ProgramasSon
    <2> QED BY <1>1, <1>2, <1>3, <2>1
  <1> QED BY <1>1, <1>3, <1>4, <1>5, <1>6, <1>7 DEF Next

\* A request of a program.
LEMMA PedirOrden ==
  ASSUME IInv, NEW c, EnOrden(c), NEW p \in Procesos, "retruncado" \notin fuera',
         \/ \E f : PedirAbrir(p, f)
         \/ \E f, n : \E op \in OpsMem \cup {"F_TRUNCATE"} : Pedir(p, op, f, n)
         \/ PedirCrear(p)
  PROVE  EnOrden(c)'
  <1>1. ASSUME NEW op, NEW g, NEW n, NEW s, Llega(p, op, g, n, s), s \in Pasos,
               op = "F_TRUNCATE" => s = "truncar" /\ Pedir(p, op, g, n)
        PROVE  EnOrden(c)'
    <2>1. /\ UNCHANGED <<lista_fcb, fat>>
          /\ pedido'[p].op = op /\ pedido'[p].archivo = g /\ pedido'[p].arg = n /\ hilo'[p].paso = s
          /\ \A q \in Procesos : q # p => hilo'[q] = hilo[q] /\ pedido'[q] = pedido[q]
      <3>1. UNCHANGED <<lista_fcb, fat>>
        BY <1>1 DEF Llega, discoVars
      <3>2. /\ pedido'[p].op = op /\ pedido'[p].archivo = g /\ pedido'[p].arg = n
            /\ \A q \in Procesos : q # p => pedido'[q] = pedido[q]
            /\ Queda(p, s, 0, 0, Basura)
        BY <1>1, LlegaHace
      <3> QED BY <3>1, <3>2 DEF Queda
    <2>2. ASSUME op = "F_TRUNCATE" PROVE Obra(p, c)'
      <3>1. PICK k : k = conseguir_id_fcb(g)
        OBVIOUS
      <3>2. lista_fcb[k].ini # 0 => n \in {0, lista_fcb[k].tam}
        BY <1>1, <2>2, <3>1 DEF Pedir, Avisos
      <3>3. Fcb(p)' = k
        BY <2>1, <3>1 DEF Fcb, conseguir_id_fcb
      <3> QED BY <1>1, <2>1, <2>2, <3>2, <3>3 DEF Obra
    <2> QED BY <2>1, <2>2, OrdenQuieto
  <1>2. ASSUME NEW f, PedirAbrir(p, f) PROVE EnOrden(c)'
    <2>1. Llega(p, "F_OPEN", f, 0, "buscar") /\ "buscar" \in Pasos
      BY <1>2 DEF PedirAbrir, Pasos
    <2> QED BY <1>1, <2>1
  <1>3. ASSUME PedirCrear(p) PROVE EnOrden(c)'
    <2>1. Llega(p, "F_CREATE", kernel.archivo, 0, "crear") /\ "crear" \in Pasos
      BY <1>3 DEF PedirCrear, Pasos
    <2> QED BY <1>1, <2>1
  <1>4. ASSUME NEW f, NEW n, NEW op \in OpsMem \cup {"F_TRUNCATE"}, Pedir(p, op, f, n) PROVE EnOrden(c)'
    <2>1. \/ op = "F_TRUNCATE" /\ Llega(p, op, f, n, "truncar")
          \/ op = "F_WRITE" /\ Llega(p, op, f, n, "pedir")
          \/ op = "F_READ" /\ Llega(p, op, f, n, "ubicar")
      BY <1>4, PedirHace
    <2>2. "truncar" \in Pasos /\ "pedir" \in Pasos /\ "ubicar" \in Pasos
      BY DEF Pasos
    <2> QED BY <1>1, <1>4, <2>1, <2>2
  <1> QED BY <1>2, <1>3, <1>4

\* The accesses, F_OPEN and the answers.
LEMMA AccesoOrden ==
  ASSUME IInv, NEW c, EnOrden(c), NEW p \in Procesos,
         \/ Abrir(p) \/ PedirMemoria(p) \/ RecibirCodigo(p) \/ RecibirBuffer(p)
         \/ Ubicar(p) \/ Caminar(p) \/ Escribir(p) \/ Leer(p) \/ Responder(p)
  PROVE  EnOrden(c)'
  <1>1. UNCHANGED <<lista_fcb, fat>>
    BY DEF Abrir, PedirMemoria, RecibirCodigo, RecibirBuffer, Ubicar, Caminar, Escribir, Leer, Responder,
           discoVars
  <1>2. CASE Responder(p)
    <2>1. /\ pedido'[p].op # "F_TRUNCATE"
          /\ \A q \in Procesos : q # p => hilo'[q] = hilo[q] /\ pedido'[q] = pedido[q]
      BY <1>2, ResponderHace DEF SinPedido, Queda
    <2> QED BY <1>1, <2>1, OrdenQuieto
  <1>3. CASE ~Responder(p)
    <2>1. UNCHANGED pedido
      <3>1. CASE Abrir(p) \/ PedirMemoria(p) \/ RecibirCodigo(p) \/ RecibirBuffer(p)
        BY <3>1 DEF Abrir, PedirMemoria, RecibirCodigo, RecibirBuffer, En, kernelVars
      <3>2. CASE Ubicar(p) \/ Caminar(p) \/ Escribir(p) \/ Leer(p)
        BY <3>2 DEF Ubicar, Caminar, Escribir, Leer, En, kernelVars
      <3> QED BY <1>3, <3>1, <3>2
    <2>2. /\ pedido[p].op \in OpsMem \cup {"F_OPEN"}
          /\ \A q \in Procesos : q # p => hilo'[q] = hilo[q]
      <3>1. CASE Abrir(p) \/ PedirMemoria(p)
        BY <3>1, AbrirHace, PedirMemoriaHace DEF OpsMem, Queda
      <3>2. CASE RecibirCodigo(p) \/ RecibirBuffer(p)
        BY <3>2, RecibirCodigoHace, RecibirBufferHace DEF OpsMem, Queda
      <3>3. CASE Ubicar(p) \/ Caminar(p)
        BY <3>3, UbicarHace, CaminarHace DEF OpsMem, Queda
      <3>4. CASE Escribir(p) \/ Leer(p)
        BY <3>4, EscribirHace, LeerHace DEF OpsMem, Queda
      <3> QED BY <1>3, <3>1, <3>2, <3>3, <3>4
    <2>3. pedido'[p].op # "F_TRUNCATE"
      BY <2>1, <2>2 DEF OpsMem
    <2> QED BY <1>1, <2>1, <2>2, <2>3, OrdenQuieto
  <1> QED BY <1>2, <1>3

LEMMA CadenasSigue ==
  ASSUME IInv, SinFinal, Cadenas, [Next]_vars
  PROVE  Cadenas'
  <1> SUFFICES ASSUME fuera' \cap {"truncados", "retruncado", "fin_fat"} = {}
               PROVE  UnoTrunca' /\ \E c : EnOrden(c)'
    BY DEF Cadenas
  <1>1. CASE UNCHANGED vars
    <2>1. UnoTrunca /\ UnoTrunca'
      BY <1>1 DEF vars, Cadenas, UnoTrunca, Truncados, EnCurso
    <2>2. PICK c : EnOrden(c)
      BY <1>1 DEF vars, Cadenas
    <2>3. UNCHANGED <<lista_fcb, fat, hilo, pedido>>
      BY <1>1 DEF vars
    <2>4. Reparto(c)'
      BY <2>2, <2>3, RepartoQuieto DEF EnOrden
    <2>5. \A q \in Truncados' : Obra(q, c)'
      BY <2>2, <2>3, ObraQuieta DEF EnOrden, Truncados, EnCurso
    <2> QED BY <2>1, <2>4, <2>5 DEF EnOrden
  <1>2. CASE Next
    <2>1. UnoTrunca /\ FatSana /\ FcbsSanos /\ HilosSanos
      BY <1>2, FueraCrece DEF Cadenas, SinFinal
    <2>2. PICK c : EnOrden(c)
      BY <1>2, FueraCrece DEF Cadenas
    <2>3. /\ "truncados" \notin fuera' /\ "retruncado" \notin fuera' /\ "fin_fat" \notin fuera'
      OBVIOUS
    <2>4. UnoTrunca'
      BY <1>2, <2>1, <2>3, UnoTruncaSigue
    <2>5. ASSUME Servir PROVE EnOrden(c)'
      <3>1. UNCHANGED <<lista_fcb, fat, hilo, pedido>>
        BY <2>5 DEF Servir, discoVars, kernelVars
      <3>2. \A q \in Truncados' : Obra(q, c)'
        BY <2>2, <3>1, ObraQuieta DEF EnOrden, Truncados, EnCurso
      <3> QED BY <2>2, <3>1, <3>2, RepartoQuieto DEF EnOrden
    <2>6. ASSUME Programas PROVE EnOrden(c)'
      <3>1. PICK p \in Procesos, f \in Archivos :
              \/ PedirAbrir(p, f)
              \/ \E op \in OpsMem \cup {"F_TRUNCATE"}, n \in 0 .. MaxBloques : Pedir(p, op, f, n)
        BY <2>6, ProgramasSon
      <3> QED BY <2>2, <2>3, <3>1, PedirOrden
    <2>7. ASSUME NEW p \in Procesos, Hilo(p) PROVE \E e : EnOrden(e)'
      <3>1. CASE \E q \in Procesos : Crear(q)
        BY <2>2, <3>1, CrearOrden
      <3>2. CASE \A q \in Procesos : ~Crear(q)
        <4>1. NombresIguales
          BY <1>2, <3>2, NombresSiguen
        <4>2. ~Quitar(p)
          <5> SUFFICES ASSUME Quitar(p) PROVE FALSE
            OBVIOUS
          <5>1. Obra(p, c) /\ hilo[p].paso = "quitar"
            BY <2>1, <2>2, <4>1, TruncaCuadro, QuitarHace DEF PasoTruncar
          <5> QED BY <5>1 DEF Obra
        <4>3. CASE Truncar(p) \/ BloqueInicial(p) \/ BuscarLibre(p)
          BY <2>1, <2>2, <2>3, <4>1, <4>3, TruncarOrden, InicialOrden, BuscarOrden
        <4>4. CASE Anotar(p) \/ Seguir(p) \/ Fijar(p)
          BY <2>1, <2>2, <2>3, <4>1, <4>4, AnotarOrden, SeguirOrden, FijarOrden
        <4>5. CASE PedirCrear(p)
          BY <2>2, <2>3, <4>5, PedirOrden
        <4>6. CASE ~(PasoTruncar(p) \/ PedirCrear(p))
          BY <2>2, <2>7, <3>2, <4>6, AccesoOrden DEF Hilo, PasoTruncar
        <4> QED BY <4>2, <4>3, <4>4, <4>5, <4>6 DEF PasoTruncar
      <3> QED BY <3>1, <3>2
    <2> QED BY <1>2, <2>4, <2>5, <2>6, <2>7 DEF Next
  <1> QED BY <1>1, <1>2

LEMMA CadenasSiempre == Spec => []Cadenas
  <1>1. Init => Cadenas
    <2> SUFFICES ASSUME Init PROVE UnoTrunca /\ \E c : EnOrden(c)
      BY DEF Cadenas
    <2>1. Truncados = {}
      BY DEF Init, SinPedido, Truncados, EnCurso
    <2>2. DOMAIN lista_fcb = {}
      BY DEF Init
    <2>3. PICK c : c = [k \in {} |-> <<>>]
      OBVIOUS
    <2>4. c \in [DOMAIN lista_fcb -> Seq(1 .. Final)] /\ DOMAIN c = {}
      BY <2>2, <2>3
    <2>5. EnOrden(c)
      BY <2>1, <2>2, <2>4 DEF EnOrden, Reparto, Disjuntas
    <2> QED BY <2>1, <2>5 DEF UnoTrunca
  <1>2. IInv /\ SinFinal /\ Cadenas /\ [Next]_vars => Cadenas'
    BY CadenasSigue
  <1> QED BY <1>1, <1>2, Invariante, SinFinalSiempre, PTL DEF Spec

\* The walk along the FAT finds the blocks of the chain.
LEMMA CadenaSigue ==
  ASSUME NEW k \in DOMAIN lista_fcb, NEW S, NEW s \in Seq(S), EsCadena(s, k), NEW i \in Nat, i < Len(s)
  PROVE  Cadena(lista_fcb[k], i) = s[i + 1]
  <1> DEFINE ini == lista_fcb[k].ini
             Ec(h) == h = [m \in 0 .. i |-> IF m = 0 THEN ini ELSE fat[h[m - 1]]]
  <1>1. \E h : Ec(h)
    <2> DEFINE g == [m \in 0 .. i |-> s[m + 1]]
    <2>1. ASSUME NEW m \in 0 .. i PROVE s[m + 1] = IF m = 0 THEN ini ELSE fat[g[m - 1]]
      <3>1. CASE m = 0
        BY <3>1 DEF EsCadena
      <3>2. CASE m # 0
        <4>1. m - 1 \in 0 .. i /\ m \in 1 .. Len(s) /\ m < Len(s)
          BY <3>2
        <4>2. g[m - 1] = s[m]
          BY <4>1
        <4> QED BY <3>2, <4>1, <4>2 DEF EsCadena
      <3> QED BY <3>1, <3>2
    <2>2. Ec(g)
      BY <2>1
    <2> QED BY <2>2
  <1>2. ASSUME NEW h, Ec(h) PROVE h[i] = s[i + 1]
    <2> DEFINE T == {m \in Nat : m <= i => h[m] = s[m + 1]}
    <2>1. \A m \in 0 .. i : h[m] = IF m = 0 THEN ini ELSE fat[h[m - 1]]
      BY <1>2
    <2> HIDE DEF Ec
    <2>2. 0 \in T
      BY <2>1 DEF EsCadena
    <2>3. ASSUME NEW m \in T PROVE m + 1 \in T
      <3> SUFFICES ASSUME m + 1 <= i PROVE h[m + 1] = s[(m + 1) + 1]
        OBVIOUS
      <3>1. m + 1 \in 0 .. i /\ m + 1 # 0 /\ m + 1 \in 1 .. Len(s) /\ m + 1 < Len(s) /\ (m + 1) - 1 = m
        OBVIOUS
      <3>2. h[m + 1] = fat[h[m]]
        BY <2>1, <3>1
      <3>3. h[m] = s[m + 1]
        BY <3>1
      <3> QED BY <3>1, <3>2, <3>3 DEF EsCadena
    <2>4. T = Nat
      <3>1. T \in SUBSET Nat
        OBVIOUS
      <3> HIDE DEF T
      <3> QED BY <2>2, <2>3, <3>1, Induccion
    <2> QED BY <2>4
  <1>3. Cadena(lista_fcb[k], i) = (CHOOSE h : Ec(h))[i]
    BY DEF Cadena
  <1> HIDE DEF Ec
  <1>4. Ec(CHOOSE h : Ec(h))
    BY <1>1
  <1> QED BY <1>2, <1>3, <1>4

\* The blocks that are only of the file k are the first ones of its chain.
LEMMA PropiosSon ==
  ASSUME IInv, NEW c, Reparto(c), NEW k \in DOMAIN lista_fcb
  PROVE  LET m == Mitad(lista_fcb[k].tam) IN
         /\ m \in Nat /\ m <= Len(c[k])
         /\ Propios(k) = {c[k][i] : i \in 1 .. m}
         /\ Cardinality(Propios(k)) = m
  <1> DEFINE m == Mitad(lista_fcb[k].tam)
             s == c[k]
             f == [i \in 1 .. m |-> s[i]]
  <1>1. /\ s \in Seq(1 .. Final) /\ Len(s) \in Nat /\ EsCadena(s, k) /\ lista_fcb[k].tam \in Nat
    BY RepartoTipo
  <1>2. m \in Nat /\ m <= Len(s)
    BY <1>1, MitadEs DEF EsCadena
  <1>3. \A a, b \in 1 .. Len(s) : s[a] = s[b] => a = b
    <2>1. Disjuntas(c) /\ k \in DOMAIN c
      BY DEF Reparto
    <2> QED BY <2>1 DEF Disjuntas
  <1>4. Propios(k) = {Cadena(lista_fcb[k], i) : i \in 0 .. m - 1}
    BY DEF Propios
  <1> HIDE DEF m, s
  <1>5. \A i \in 0 .. m - 1 : Cadena(lista_fcb[k], i) = s[i + 1]
    BY <1>1, <1>2, CadenaSigue
  <1>6. Propios(k) = {s[i] : i \in 1 .. m}
    <2>1. \A i \in 0 .. m - 1 : i + 1 \in 1 .. m
      BY <1>2
    <2>2. \A i \in 1 .. m : i - 1 \in 0 .. m - 1 /\ (i - 1) + 1 = i
      BY <1>2
    <2> QED BY <1>4, <1>5, <2>1, <2>2
  <1>7. f \in Bijection(1 .. m, Propios(k))
    <2>1. f \in [1 .. m -> Propios(k)] /\ \A i \in 1 .. m : f[i] = s[i] /\ i \in 1 .. Len(s)
      BY <1>1, <1>2, <1>6
    <2>2. \A x \in Propios(k) : \E i \in 1 .. m : f[i] = x
      BY <1>6, <2>1
    <2>3. \A a, b \in 1 .. m : f[a] = f[b] => a = b
      BY <1>3, <2>1
    <2> HIDE DEF f
    <2> QED BY <2>1, <2>2, <2>3 DEF Bijection, Injection, Surjection, IsInjective
  <1>8. IsFiniteSet(1 .. m) /\ Cardinality(1 .. m) = m
    <2>1. 1 \in Int /\ m \in Int /\ (1 > m => m = 0)
      BY <1>2
    <2>2. IsFiniteSet(1 .. m) /\ Cardinality(1 .. m) = IF 1 > m THEN 0 ELSE m - 1 + 1
      BY <2>1, FS_Interval
    <2> QED BY <1>2, <2>1, <2>2
  <1>9. Cardinality(Propios(k)) = m
    <2>1. ExistsBijection(1 .. m, Propios(k))
      BY <1>7 DEF ExistsBijection
    <2> QED BY <1>8, <2>1, FS_Bijection
  <1> QED BY <1>2, <1>6, <1>9 DEF m, s

\* The blocks that are only of one file are as many as half its size and never of another one,
\* while every F_TRUNCATE comes alone, to a file without blocks, and the disk has room.
THEOREM BloquesSinCompartir == Spec => []BloquesExclusivos
  <1>1. ASSUME IInv, Cadenas PROVE BloquesExclusivos
    <2> SUFFICES ASSUME fuera \cap {"truncados", "retruncado", "fin_fat"} = {},
                        NEW j \in DOMAIN lista_fcb, NEW k \in DOMAIN lista_fcb
                 PROVE  /\ Cardinality(Propios(j)) = Mitad(lista_fcb[j].tam)
                        /\ j # k => Propios(j) \cap Propios(k) = {}
      BY DEF BloquesExclusivos
    <2>1. PICK c : Reparto(c)
      BY <1>1 DEF Cadenas, EnOrden
    <2>2. /\ Propios(j) = {c[j][i] : i \in 1 .. Mitad(lista_fcb[j].tam)}
          /\ Mitad(lista_fcb[j].tam) \in Nat /\ Mitad(lista_fcb[j].tam) <= Len(c[j])
          /\ Cardinality(Propios(j)) = Mitad(lista_fcb[j].tam)
      BY <1>1, <2>1, PropiosSon
    <2>3. /\ Propios(k) = {c[k][i] : i \in 1 .. Mitad(lista_fcb[k].tam)}
          /\ Mitad(lista_fcb[k].tam) \in Nat /\ Mitad(lista_fcb[k].tam) <= Len(c[k])
      BY <1>1, <2>1, PropiosSon
    <2>4. Disjuntas(c) /\ j \in DOMAIN c /\ k \in DOMAIN c /\ Len(c[j]) \in Nat /\ Len(c[k]) \in Nat
      BY <1>1, <2>1, RepartoTipo DEF Reparto
    <2>5. ASSUME j # k, NEW x \in Propios(j), x \in Propios(k) PROVE FALSE
      <3>1. PICK a \in 1 .. Len(c[j]) : x = c[j][a]
        BY <2>2, <2>4, <2>5
      <3>2. PICK b \in 1 .. Len(c[k]) : x = c[k][b]
        BY <2>3, <2>4, <2>5
      <3> QED BY <2>4, <2>5, <3>1, <3>2 DEF Disjuntas
    <2> QED BY <2>2, <2>5
  <1>2. IInv /\ Cadenas => BloquesExclusivos
    BY <1>1
  <1> QED BY <1>2, Invariante, CadenasSiempre, PTL

-----------------------------------------------------------------------------
(* The refinement of Almacen *)

\* What nobody has taken yet holds nothing.
Limpios == \A b \in Libres : bloques[b] = Basura

\* The thread of p gives blocks to its file.
Creciendo(p) ==
  \/ hilo[p].paso \in {"inicial", "libre", "anotar", "seguir"}
  \/ hilo[p].paso = "fijar" /\ pedido[p].arg \notin {0, lista_fcb[Fcb(p)].tam}

\* The file that grows is still empty: its blocks hold nothing and nobody reads or writes it.
Vacio(p, c) ==
  LET k == Fcb(p)
  IN /\ lista_fcb[k].tam = 0
     /\ \A i \in 1 .. Len(c[k]) : bloques[c[k][i]] = Basura
     /\ \A q \in EnCurso(OpsMem) : pedido[q].archivo # pedido[p].archivo

\* A reader or a writer asked for a block of its file, and walks towards it.
Acceso(q, c) ==
  LET n == pedido[q].arg  s == c[Fcb(q)]  h == hilo[q]
  IN /\ n < Len(s)
     /\ h.paso = "caminar" => h.cuenta <= n /\ h.bloque = s[n - h.cuenta + 1]

\* Memoria has served the F_READ of p.
Servido(p) ==
  pedido[p].op = "F_READ" /\ (hilo[p].paso = "buffer" \/ (hilo[p].paso = "codigo" /\ respuestas_mem # <<>>))

\* A request took effect at its last step, an F_READ when memoria has the block.
HechoBien(p) == hecho[p] # "no" <=> hilo[p].paso = "responder" \/ Servido(p)

\* The word on its way: from the block to the page, or from the page to the block.
EnCamino(p, c) ==
  LET h == hilo[p]  op == pedido[p].op
  IN /\ h.paso = "codigo" /\ pedidos_mem # <<>> =>
          /\ pedidos_mem[1].proceso = p
          /\ op = "F_READ" => pedidos_mem[1].dato = bloques[c[Fcb(p)][pedido[p].arg + 1]]
     /\ op = "F_WRITE" =>
          /\ h.paso = "codigo" /\ respuestas_mem # <<>> => respuestas_mem[2].valor = pagina[p]
          /\ h.paso = "buffer" => respuestas_mem[1].valor = pagina[p]
          /\ h.paso \in {"ubicar", "caminar"} => h.valor = pagina[p]

Nuevos(c)   == \A p \in Truncados : Creciendo(p) => Vacio(p, c)
Hechos      == \A p \in Procesos : HechoBien(p)
Accesos(c)  == \A p \in EnCurso(OpsMem) : Acceso(p, c) /\ EnCamino(p, c)
Datos(c)    == Limpios /\ Nuevos(c) /\ Hechos /\ Accesos(c)
Almacenado  == fuera = {} => \E c : EnOrden(c) /\ Datos(c)

\* The contents of the files, read through a partition.
Guarda(c) ==
  [f \in Archivos |->
    LET k == conseguir_id_fcb(f)
    IN IF k = 0 THEN NoExiste
       ELSE [largo   |-> lista_fcb[k].tam,
             bloques |-> [i \in 1 .. Mitad(lista_fcb[k].tam) |-> bloques[c[k][i]]]]]

LEMMA CadenaEs ==
  ASSUME IInv, NEW c, Reparto(c), NEW k \in DOMAIN lista_fcb, NEW i \in 1 .. Len(c[k])
  PROVE  Cadena(lista_fcb[k], i - 1) = c[k][i]
  <1>1. c[k] \in Seq(1 .. Final) /\ Len(c[k]) \in Nat /\ EsCadena(c[k], k)
    BY RepartoTipo
  <1>2. i - 1 \in Nat /\ i - 1 < Len(c[k]) /\ (i - 1) + 1 = i
    BY <1>1
  <1> QED BY <1>1, <1>2, CadenaSigue

\* A number of blocks, and that a file has at least so many.
LEMMA MitadDe ==
  ASSUME IInv, NEW c, Reparto(c), NEW k \in DOMAIN lista_fcb
  PROVE  Mitad(lista_fcb[k].tam) \in Nat /\ Mitad(lista_fcb[k].tam) <= Len(c[k]) /\ Len(c[k]) \in Nat
  BY RepartoTipo, MitadEs DEF EsCadena

LEMMA ContenidoEs == \A c : IInv /\ Reparto(c) => contenido = Guarda(c)
  <1> SUFFICES ASSUME NEW c, IInv, Reparto(c) PROVE contenido = Guarda(c)
    OBVIOUS
  <1> DEFINE dice(k) == [largo |-> lista_fcb[k].tam, bloques |->
                           [i \in 1 .. Mitad(lista_fcb[k].tam) |-> bloques[Cadena(lista_fcb[k], i - 1)]]]
             guarda(k) == [largo |-> lista_fcb[k].tam, bloques |->
                             [i \in 1 .. Mitad(lista_fcb[k].tam) |-> bloques[c[k][i]]]]
  <1>1. ASSUME NEW k \in DOMAIN lista_fcb PROVE dice(k) = guarda(k)
    <2>1. \A i \in 1 .. Mitad(lista_fcb[k].tam) : i \in 1 .. Len(c[k])
      BY MitadDe
    <2>2. \A i \in 1 .. Mitad(lista_fcb[k].tam) : Cadena(lista_fcb[k], i - 1) = c[k][i]
      BY <2>1, CadenaEs
    <2> QED BY <2>2
  <1>2. ASSUME NEW f \in Archivos PROVE conseguir_id_fcb(f) = 0 \/ conseguir_id_fcb(f) \in DOMAIN lista_fcb
    BY IdFcb DEF IInv, Tipo, TipoDisco
  <1>3. contenido = [f \in Archivos |-> IF conseguir_id_fcb(f) = 0 THEN NoExiste ELSE dice(conseguir_id_fcb(f))]
    BY DEF contenido
  <1>4. Guarda(c) = [f \in Archivos |-> IF conseguir_id_fcb(f) = 0 THEN NoExiste ELSE guarda(conseguir_id_fcb(f))]
    BY DEF Guarda
  <1> HIDE DEF dice, guarda
  <1> QED BY <1>1, <1>2, <1>3, <1>4

LEMMA ContenidoLuego == \A c : IInv' /\ Reparto(c)' => contenido' = Guarda(c)'
  <1>1. (\A c : IInv /\ Reparto(c) => contenido = Guarda(c))'
    BY ContenidoEs, PTL
  <1> QED BY <1>1

\* What one file holds.
LEMMA GuardaDe ==
  \A c : IInv /\ Reparto(c) => \A f \in Archivos :
    /\ ~Existe(f) => contenido[f] = NoExiste
    /\ Existe(f) => \A k : k = conseguir_id_fcb(f) =>
         /\ k \in DOMAIN lista_fcb /\ contenido[f] # NoExiste
         /\ contenido[f] = [largo |-> lista_fcb[k].tam, bloques |->
                              [i \in 1 .. Mitad(lista_fcb[k].tam) |-> bloques[c[k][i]]]]
  <1> SUFFICES ASSUME NEW c, IInv, Reparto(c), NEW f \in Archivos
               PROVE  /\ ~Existe(f) => contenido[f] = NoExiste
                      /\ Existe(f) => \A k : k = conseguir_id_fcb(f) =>
                           /\ k \in DOMAIN lista_fcb /\ contenido[f] # NoExiste
                           /\ contenido[f] = [largo |-> lista_fcb[k].tam, bloques |->
                                [i \in 1 .. Mitad(lista_fcb[k].tam) |-> bloques[c[k][i]]]]
    OBVIOUS
  <1>1. lista_fcb \in Seq(Fcbs) /\ bloques \in [Posicion -> Palabras]
    BY DEF IInv, Tipo, TipoDisco
  <1>2. ASSUME ~Existe(f) PROVE contenido[f] = NoExiste
    BY <1>1, <1>2, IdFcb, ContenidoEs DEF Guarda
  <1>3. ASSUME Existe(f), NEW k, k = conseguir_id_fcb(f)
        PROVE  /\ k \in DOMAIN lista_fcb /\ contenido[f] # NoExiste
               /\ contenido[f] = [largo |-> lista_fcb[k].tam, bloques |->
                                    [i \in 1 .. Mitad(lista_fcb[k].tam) |-> bloques[c[k][i]]]]
    <2> DEFINE m == Mitad(lista_fcb[k].tam)
               g == [i \in 1 .. m |-> bloques[c[k][i]]]
    <2>1. k \in DOMAIN lista_fcb /\ k # 0
      <3>1. k \in DOMAIN lista_fcb
        BY <1>1, <1>3, IdFcb
      <3>2. ASSUME NEW s \in Seq(Fcbs), NEW j \in DOMAIN s PROVE j # 0
        OBVIOUS
      <3> QED BY <1>1, <3>1, <3>2
    <2>2. m \in Nat /\ lista_fcb[k].tam \in Nat /\ \A i \in 1 .. m : c[k][i] \in Posicion
      <3>1. \A i \in 1 .. m : i \in 1 .. Len(c[k])
        BY <2>1, MitadDe
      <3> QED BY <2>1, <3>1, MitadDe, RepartoTipo
    <2>3. contenido[f] = [largo |-> lista_fcb[k].tam, bloques |-> g]
      <3>1. contenido = Guarda(c)
        BY ContenidoEs
      <3>2. Guarda(c)[f] = IF k = 0 THEN NoExiste ELSE [largo |-> lista_fcb[k].tam, bloques |-> g]
        BY <1>3 DEF Guarda
      <3> HIDE DEF g
      <3> QED BY <2>1, <3>1, <3>2
    <2> HIDE DEF m
    <2>4. g \in [1 .. m -> Palabras]
      BY <1>1, <2>2
    <2>5. g \in Seq(Palabras)
      BY <2>2, <2>4
    <2> HIDE DEF g
    <2>6. contenido[f] \in [largo : Nat, bloques : Seq(Palabras)]
      BY <2>2, <2>3, <2>5
    <2>7. contenido[f] # NoExiste
      BY <2>6, FilesystemSupuestos
    <2> QED BY <2>1, <2>3, <2>7 DEF g, m
  <1> QED BY <1>2, <1>3

LEMMA GuardaDeLuego ==
  \A c : IInv' /\ Reparto(c)' => \A f \in Archivos :
    /\ ~Existe(f)' => contenido'[f] = NoExiste
    /\ Existe(f)' => \A k : k = conseguir_id_fcb(f)' =>
         /\ k \in DOMAIN lista_fcb' /\ contenido'[f] # NoExiste
         /\ contenido'[f] = [largo |-> lista_fcb'[k].tam, bloques |->
                               [i \in 1 .. Mitad(lista_fcb'[k].tam) |-> bloques'[c[k][i]]]]
  <1>1. (\A c : IInv /\ Reparto(c) => \A f \in Archivos :
          /\ ~Existe(f) => contenido[f] = NoExiste
          /\ Existe(f) => \A k : k = conseguir_id_fcb(f) =>
               /\ k \in DOMAIN lista_fcb /\ contenido[f] # NoExiste
               /\ contenido[f] = [largo |-> lista_fcb[k].tam, bloques |->
                                    [i \in 1 .. Mitad(lista_fcb[k].tam) |-> bloques[c[k][i]]]])'
    BY GuardaDe, PTL
  <1> QED BY <1>1

\* A file keeps its size and its blocks, which keep their words.
LEMMA ArchivoQuieto ==
  ASSUME IInv, IInv', NEW c, Reparto(c), NEW e, Reparto(e)', Crece(c, e), NEW f \in Archivos,
         Existe(f)' <=> Existe(f), NEW k, k = conseguir_id_fcb(f), k = conseguir_id_fcb(f)',
         Existe(f) => lista_fcb'[k].tam = lista_fcb[k].tam,
         Existe(f) => \A i \in 1 .. Mitad(lista_fcb[k].tam) : bloques'[c[k][i]] = bloques[c[k][i]]
  PROVE  contenido'[f] = contenido[f]
  <1>1. CASE ~Existe(f)
    BY <1>1, GuardaDe, GuardaDeLuego
  <1>2. CASE Existe(f)
    <2>1. PICK n : n = lista_fcb[k].tam
      OBVIOUS
    <2>2. /\ k \in DOMAIN lista_fcb
          /\ contenido[f] = [largo |-> n, bloques |-> [i \in 1 .. Mitad(n) |-> bloques[c[k][i]]]]
      <3>1. /\ k \in DOMAIN lista_fcb
            /\ contenido[f] = [largo |-> lista_fcb[k].tam, bloques |->
                                 [i \in 1 .. Mitad(lista_fcb[k].tam) |-> bloques[c[k][i]]]]
        <4>1. \A j : j = conseguir_id_fcb(f) =>
                 /\ j \in DOMAIN lista_fcb
                 /\ contenido[f] = [largo |-> lista_fcb[j].tam, bloques |->
                                     [i \in 1 .. Mitad(lista_fcb[j].tam) |-> bloques[c[j][i]]]]
          BY <1>2, GuardaDe
        <4> QED BY <4>1
      <3> QED BY <2>1, <3>1
    <2>3. contenido'[f] = [largo |-> n, bloques |-> [i \in 1 .. Mitad(n) |-> bloques'[e[k][i]]]]
      <3>1. contenido'[f] = [largo |-> lista_fcb'[k].tam, bloques |->
                               [i \in 1 .. Mitad(lista_fcb'[k].tam) |-> bloques'[e[k][i]]]]
        BY <1>2, GuardaDeLuego
      <3>2. lista_fcb'[k].tam = n
        BY <1>2, <2>1
      <3> QED BY <3>1, <3>2
    <2>4. Mitad(n) \in Nat /\ Mitad(n) <= Len(c[k]) /\ Len(c[k]) \in Nat /\ DOMAIN c = DOMAIN lista_fcb
      BY <2>1, <2>2, MitadDe DEF Reparto
    <2>5. k \in DOMAIN e /\ Len(c[k]) <= Len(e[k]) /\ Len(e[k]) \in Nat
      <3>1. k \in DOMAIN e /\ Len(c[k]) <= Len(e[k])
        BY <2>2, <2>4 DEF Crece
      <3>2. e[k] \in Seq(1 .. Final)
        BY <3>1 DEF Reparto, Final
      <3> QED BY <3>1, <3>2
    <2>6. \A i \in 1 .. Mitad(n) : bloques'[e[k][i]] = bloques[c[k][i]]
      <3>1. \A i \in 1 .. Mitad(n) : i \in 1 .. Len(e[k]) /\ i <= Len(c[k])
        BY <2>4, <2>5
      <3>2. \A i \in 1 .. Mitad(n) : e[k][i] = c[k][i]
        BY <2>2, <2>4, <3>1 DEF Crece
      <3> QED BY <1>2, <2>1, <3>2
    <2> QED BY <2>2, <2>3, <2>6
  <1> QED BY <1>1, <1>2

LEMMA ContenidoTipo ==
  /\ DOMAIN contenido = Archivos /\ contenido = [f \in Archivos |-> contenido[f]]
  /\ DOMAIN contenido' = Archivos /\ contenido' = [f \in Archivos |-> contenido'[f]]
  BY DEF contenido

LEMMA ContenidoQuieto ==
  ASSUME IInv, IInv', NEW c, Reparto(c), NEW e, Reparto(e)', Crece(c, e), NombresIguales,
         \A k \in DOMAIN lista_fcb : lista_fcb'[k].tam = lista_fcb[k].tam, UNCHANGED bloques
  PROVE  contenido' = contenido
  <1>1. ASSUME NEW f \in Archivos PROVE contenido'[f] = contenido[f]
    <2>1. PICK k : k = conseguir_id_fcb(f)
      OBVIOUS
    <2>2. k = conseguir_id_fcb(f)' /\ (Existe(f)' <=> Existe(f))
      BY <2>1, NombresQuietos
    <2>3. Existe(f) => k \in DOMAIN lista_fcb
      BY <2>1, IdFcb DEF IInv, Tipo, TipoDisco
    <2> QED BY <2>1, <2>2, <2>3, ArchivoQuieto
  <1> QED BY <1>1, ContenidoTipo

LEMMA ContenidoIgual ==
  ASSUME UNCHANGED <<lista_fcb, fat, bloques>>
  PROVE  contenido' = contenido
  BY DEF contenido, conseguir_id_fcb, Cadena

LEMMA CreceIgual ==
  ASSUME IInv, NEW c, Reparto(c)
  PROVE  Crece(c, c)
  <1>1. \A j \in DOMAIN c : Len(c[j]) \in Nat
    BY RepartoTipo DEF Reparto
  <1> QED BY <1>1 DEF Crece

\* The file of a thread, after a step that adds no file or only others.
LEMMA FcbQuieto ==
  ASSUME NombresIguales, NEW q, pedido'[q] = pedido[q]
  PROVE  Fcb(q)' = Fcb(q)
  <1> DEFINE f == pedido[q].archivo
             con == {k \in DOMAIN lista_fcb : lista_fcb[k].nombre = f}
             despues == {k \in DOMAIN lista_fcb' : lista_fcb'[k].nombre = f}
  <1>1. con = despues
    BY DEF NombresIguales
  <1>2. Fcb(q) = (IF con = {} THEN 0 ELSE Min(con)) /\ Fcb(q)' = (IF despues = {} THEN 0 ELSE Min(despues))
    BY DEF Fcb, conseguir_id_fcb
  <1> HIDE DEF con, despues
  <1> QED BY <1>1, <1>2

LEMMA FcbIgual ==
  ASSUME UNCHANGED lista_fcb, NEW q, pedido'[q] = pedido[q]
  PROVE  Fcb(q)' = Fcb(q)
  BY DEF Fcb, conseguir_id_fcb

\* Who reads or writes, while another thread moves.
LEMMA AccesoOtro ==
  ASSUME IInv, NEW c, Reparto(c), NEW e, Crece(c, e), NEW q \in EnCurso(OpsMem),
         Acceso(q, c), EnCamino(q, c), hilo'[q] = hilo[q], pedido'[q] = pedido[q], Fcb(q)' = Fcb(q),
         pagina'[q] = pagina[q], UNCHANGED <<bloques, pedidos_mem, respuestas_mem>>,
         \A j \in DOMAIN e : Len(e[j]) \in Nat
  PROVE  Acceso(q, e)' /\ EnCamino(q, e)'
  <1>1. PICK k, n, h : k = Fcb(q) /\ n = pedido[q].arg /\ h = hilo[q]
    OBVIOUS
  <1>2. q \in Procesos /\ pedido[q].op \in OpsMem /\ k \in DOMAIN lista_fcb /\ n \in 0 .. MaxBloques
    BY <1>1, FcbDelHilo DEF EnCurso
  <1>3. k \in DOMAIN c /\ k \in DOMAIN e /\ Len(c[k]) \in Nat /\ Len(e[k]) \in Nat /\ Len(c[k]) <= Len(e[k])
    BY <1>2, RepartoTipo DEF Reparto, Crece
  <1>4. n \in Nat /\ h.cuenta \in Nat
    BY <1>1, <1>2, HiloCampos, Medidas DEF IInv
  <1>5. n < Len(c[k]) /\ (h.paso = "caminar" => h.cuenta <= n /\ h.bloque = c[k][n - h.cuenta + 1])
    BY <1>1 DEF Acceso
  <1>6. \A i \in 1 .. Len(c[k]) : e[k][i] = c[k][i]
    <2>1. \A i \in 1 .. Len(c[k]) : i \in 1 .. Len(e[k]) /\ i <= Len(c[k])
      BY <1>3
    <2> QED BY <1>3, <2>1 DEF Crece
  <1>7. h.cuenta <= n => e[k][n - h.cuenta + 1] = c[k][n - h.cuenta + 1]
    <2>1. h.cuenta <= n => n - h.cuenta + 1 \in 1 .. Len(c[k])
      BY <1>3, <1>4, <1>5
    <2> QED BY <1>6, <2>1
  <1>8. e[k][n + 1] = c[k][n + 1]
    <2>1. n + 1 \in 1 .. Len(c[k])
      BY <1>3, <1>4, <1>5
    <2> QED BY <1>6, <2>1
  <1>9. Fcb(q)' = k /\ pedido'[q].arg = n /\ hilo'[q] = h
    BY <1>1
  <1>10. Acceso(q, e)'
    <2>1. n < Len(e[k])
      BY <1>3, <1>4, <1>5
    <2> QED BY <1>5, <1>7, <1>9, <2>1 DEF Acceso
  <1>11. EnCamino(q, e)'
    BY <1>1, <1>8, <1>9 DEF EnCamino
  <1> QED BY <1>10, <1>11

\* Only the thread of p moved, or memoria served it.
LEMMA HechosMueven ==
  ASSUME Hechos, NEW p \in Procesos, HechoBien(p)',
         \A q \in Procesos : q # p =>
           /\ hilo'[q] = hilo[q] /\ pedido'[q] = pedido[q] /\ hecho'[q] = hecho[q]
           /\ hilo[q].paso = "codigo" => UNCHANGED respuestas_mem
  PROVE  Hechos'
  BY DEF Hechos, HechoBien, Servido

\* The growing file got blocks that were free.
LEMMA VacioSigue ==
  ASSUME NEW c, NEW e, Crece(c, e), Limpios, NEW p, Vacio(p, c), UNCHANGED <<pedido, bloques>>,
         NEW k, k = Fcb(p), k = Fcb(p)', k \in DOMAIN c, lista_fcb'[k].tam = lista_fcb[k].tam,
         Len(c[k]) \in Nat
  PROVE  Vacio(p, e)'
  <1>1. ASSUME NEW i \in 1 .. Len(e[k]) PROVE bloques'[e[k][i]] = Basura
    <2>1. CASE i <= Len(c[k])
      <3>1. i \in 1 .. Len(c[k]) /\ e[k][i] = c[k][i]
        BY <2>1 DEF Crece
      <3> QED BY <3>1 DEF Vacio
    <2>2. CASE ~(i <= Len(c[k]))
      <3>1. e[k][i] \in Libres
        BY <2>2 DEF Crece
      <3> QED BY <3>1 DEF Limpios
    <2> QED BY <2>1, <2>2
  <1> HIDE DEF Fcb
  <1>2. lista_fcb'[k].tam = 0 /\ \A q \in EnCurso(OpsMem)' : pedido'[q].archivo # pedido'[p].archivo
    BY DEF Vacio, EnCurso
  <1> QED BY <1>1, <1>2 DEF Vacio

\* What a step of an F_TRUNCATE leaves alone.
LEMMA TruncaDeja ==
  ASSUME IInv, NEW p \in Procesos, PasoTruncar(p)
  PROVE  /\ \A q \in Procesos : q # p => hilo'[q] = hilo[q] /\ hecho'[q] = hecho[q]
         /\ UNCHANGED <<bloques, pagina, pedidos_mem, respuestas_mem>>
         /\ hecho'[p] # hecho[p] => Fijar(p)
  <1>1. \A q \in Procesos : q # p => hilo'[q] = hilo[q]
    <2>1. \E h : hilo' = [hilo EXCEPT ![p] = h]
      <3>1. CASE Truncar(p) \/ BloqueInicial(p) \/ BuscarLibre(p)
        BY <3>1 DEF Truncar, BloqueInicial, BuscarLibre, Ir
      <3>2. CASE Anotar(p) \/ Seguir(p) \/ Quitar(p) \/ Fijar(p)
        BY <3>2 DEF Anotar, Seguir, Quitar, Fijar, Ir, Paso
      <3> QED BY <3>1, <3>2 DEF PasoTruncar
    <2> QED BY <2>1 DEF IInv, Tipo, TipoHilos
  <1>2. UNCHANGED <<bloques, pagina, pedidos_mem, respuestas_mem>>
    BY DEF PasoTruncar, Truncar, BloqueInicial, BuscarLibre, Anotar, Seguir, Quitar, Fijar, memoriaVars, discoVars
  <1>3. Fijar(p) => \A q \in Procesos : q # p => hecho'[q] = hecho[q]
    BY DEF Fijar, Hace, IInv, Tipo, TipoHilos
  <1>4. ~Fijar(p) => UNCHANGED hecho
    BY DEF PasoTruncar, Truncar, BloqueInicial, BuscarLibre, Anotar, Seguir, Quitar
  <1> QED BY <1>1, <1>2, <1>3, <1>4

LEMMA TruncaDatos ==
  ASSUME IInv, UnoTrunca, NEW c, EnOrden(c), Datos(c), NEW p \in Procesos, NombresIguales,
         PasoTruncar(p), NEW e, EnOrden(e)', Crece(c, e), Limpios', HechoBien(p)',
         Creciendo(p)' => Vacio(p, e)'
  PROVE  Datos(e)'
  <1>1. /\ \A q \in Procesos : q # p => hilo'[q] = hilo[q] /\ hecho'[q] = hecho[q]
        /\ UNCHANGED <<bloques, pagina, pedidos_mem, respuestas_mem>>
    BY TruncaDeja
  <1>2. p \in Truncados /\ UNCHANGED pedido /\ Reparto(c)
    BY TruncaCuadro
  <1>3. ASSUME NEW q \in Truncados' PROVE q = p
    BY <1>2 DEF Truncados, EnCurso, UnoTrunca
  <1>4. Nuevos(e)'
    BY <1>3 DEF Nuevos
  <1>5. Hechos'
    BY <1>1, <1>2, HechosMueven DEF Datos
  <1>6. ASSUME NEW q \in EnCurso(OpsMem)' PROVE Acceso(q, e)' /\ EnCamino(q, e)'
    <2>1. q \in EnCurso(OpsMem) /\ q \in Procesos
      BY <1>2 DEF EnCurso
    <2>2. q # p
      BY <1>2, <2>1 DEF EnCurso, Truncados, OpsMem
    <2>3. Fcb(q)' = Fcb(q)
      BY <1>2, FcbQuieto
    <2>4. \A j \in DOMAIN e : Len(e[j]) \in Nat
      <3>1. \A j \in DOMAIN e : e[j] \in Seq(1 .. Final)
        BY DEF EnOrden, Reparto, Final
      <3>2. ASSUME NEW s \in Seq(1 .. Final) PROVE Len(s) \in Nat
        OBVIOUS
      <3> QED BY <3>1, <3>2
    <2>5. Acceso(q, c) /\ EnCamino(q, c)
      BY <2>1 DEF Datos, Accesos
    <2> QED BY <1>1, <1>2, <2>1, <2>2, <2>3, <2>4, <2>5, AccesoOtro
  <1>7. Accesos(e)'
    BY <1>6 DEF Accesos
  <1> QED BY <1>4, <1>5, <1>7 DEF Datos

\* A thread that has not answered has done nothing yet.
LEMMA TruncaHecho ==
  ASSUME IInv, UnoTrunca, NEW c, EnOrden(c), Datos(c), NEW p \in Procesos, NombresIguales,
         PasoTruncar(p)
  PROVE  hecho[p] = "no" /\ HechoBien(p)'
  <1>1. p \in Truncados /\ UNCHANGED pedido /\ pedido[p].op = "F_TRUNCATE"
    BY TruncaCuadro DEF Truncados, EnCurso
  <1>2. hilo[p].paso # "responder"
    BY DEF PasoTruncar, Truncar, BloqueInicial, BuscarLibre, Anotar, Seguir, Quitar, Fijar, En
  <1>3. hecho[p] = "no"
    BY <1>1, <1>2 DEF Datos, Hechos, HechoBien, Servido
  <1>4. CASE Fijar(p)
    <2>1. hecho'[p] = "existe" /\ hilo'[p].paso = "responder"
      BY <1>4, FijarHace DEF Fijar, Hace, Queda, IInv, Tipo, TipoHilos
    <2> QED BY <1>3, <2>1 DEF HechoBien
  <1>5. CASE ~Fijar(p)
    <2>1. hecho'[p] = "no"
      BY <1>3, <1>5, TruncaDeja
    <2>2. hilo'[p].paso # "responder"
      <3>1. CASE Truncar(p) \/ BloqueInicial(p) \/ BuscarLibre(p)
        BY <3>1, TruncarHace, BloqueInicialHace, BuscarLibreHace DEF Queda
      <3>2. CASE Anotar(p) \/ Seguir(p) \/ Quitar(p)
        BY <3>2, AnotarHace, SeguirHace, QuitarHace DEF Queda
      <3> QED BY <1>5, <3>1, <3>2 DEF PasoTruncar
    <2>3. pedido'[p].op # "F_READ"
      BY <1>1
    <2>4. ~Servido(p)'
      BY <2>3 DEF Servido
    <2> QED BY <1>3, <2>1, <2>2, <2>4 DEF HechoBien
  <1> QED BY <1>3, <1>4, <1>5

\* The thread starts to give blocks only to a file that has none, so nobody reads or writes it.
LEMMA TruncarVacio ==
  ASSUME IInv, UnoTrunca, NEW c, EnOrden(c), Datos(c), NEW p \in Procesos, NombresIguales, Truncar(p)
  PROVE  Creciendo(p)' => Vacio(p, c)'
  <1>0. PasoTruncar(p)
    BY DEF PasoTruncar
  <1>1. PICK k, n, h : k = Fcb(p) /\ n = pedido[p].arg /\ h = hilo[p]
    OBVIOUS
  <1>2. /\ p \in Truncados /\ UNCHANGED pedido /\ Reparto(c) /\ Obra(p, c)
        /\ k \in DOMAIN lista_fcb /\ k = Fcb(p)' /\ n = pedido'[p].arg
        /\ n \in 0 .. MaxBloques /\ lista_fcb[k].tam \in 0 .. MaxBloques
    BY <1>0, <1>1, TruncaCuadro
  <1>3. n \in Nat /\ lista_fcb[k].tam \in Nat
    BY <1>2, Medidas
  <1>4. UNCHANGED lista_fcb
    BY DEF Truncar, discoVars
  <1>5. h.paso = "truncar" /\ (lista_fcb[k].ini # 0 => n = 0 \/ n = lista_fcb[k].tam)
    <2>1. h.paso = "truncar"
      BY <1>1 DEF Truncar, En
    <2> QED BY <1>1, <1>2, <2>1 DEF Obra
  <1>6. lista_fcb[k].ini = 0 => c[k] = <<>> /\ lista_fcb[k].tam = 0
    BY <1>2, SinBloques
  <1>7. \/ lista_fcb[k].ini = 0
        \/ n <= lista_fcb[k].tam /\ hilo'[p].paso = "fijar"
    <2>1. \/ lista_fcb[k].ini = 0
          \/ n > lista_fcb[k].tam /\ lista_fcb[k].ini # 0
          \/ n < lista_fcb[k].tam /\ n > 0
          \/ n <= lista_fcb[k].tam /\ Queda(p, "fijar", h.bloque, h.cuenta, h.valor)
      BY <1>1, TruncarHace
    <2> QED BY <1>3, <1>5, <2>1 DEF Queda
  <1>8. CASE lista_fcb[k].ini = 0
    <2>1. ASSUME NEW q \in EnCurso(OpsMem), pedido[q].archivo = pedido[p].archivo PROVE FALSE
      <3>1. Fcb(q) = k /\ Acceso(q, c)
        BY <1>1, <2>1 DEF Fcb, Datos, Accesos
      <3>2. q \in Procesos /\ pedido[q].op \in OpsMem
        BY <2>1 DEF EnCurso
      <3>3. pedido[q].arg \in 0 .. MaxBloques
        BY <3>2, FcbDelHilo
      <3>4. pedido[q].arg < Len(c[k])
        BY <3>1 DEF Acceso
      <3> QED BY <1>6, <1>8, <3>3, <3>4, Medidas
    <2>2. lista_fcb'[k].tam = 0 /\ \A i \in 1 .. Len(c[k]) : bloques'[c[k][i]] = Basura
      BY <1>4, <1>6, <1>8
    <2>3. \A q \in EnCurso(OpsMem)' : pedido'[q].archivo # pedido'[p].archivo
      BY <1>2, <2>1 DEF EnCurso
    <2> HIDE DEF Fcb
    <2> QED BY <1>2, <2>2, <2>3 DEF Vacio
  <1>9. CASE n <= lista_fcb[k].tam /\ hilo'[p].paso = "fijar" /\ lista_fcb[k].ini # 0
    <2>1. n \in {0, lista_fcb'[k].tam}
      BY <1>4, <1>5, <1>9
    <2> HIDE DEF Fcb
    <2> QED BY <1>2, <1>9, <2>1 DEF Creciendo
  <1> QED BY <1>7, <1>8, <1>9

\* The size does not change until Fijar.
LEMMA CreceVacio ==
  ASSUME IInv, UnoTrunca, NEW c, EnOrden(c), Datos(c), NEW p \in Procesos, NombresIguales,
         BloqueInicial(p) \/ BuscarLibre(p) \/ Anotar(p) \/ Seguir(p), NEW e, Crece(c, e)
  PROVE  Vacio(p, e)'
  <1>0. PasoTruncar(p)
    BY DEF PasoTruncar
  <1>1. PICK k : k = Fcb(p)
    OBVIOUS
  <1>2. /\ p \in Truncados /\ UNCHANGED pedido /\ Reparto(c) /\ k \in DOMAIN lista_fcb /\ k = Fcb(p)'
    BY <1>0, <1>1, TruncaCuadro
  <1>3. k \in DOMAIN c /\ Len(c[k]) \in Nat
    BY <1>2, RepartoTipo DEF Reparto
  <1>4. UNCHANGED bloques
    BY <1>0, TruncaDeja
  <1>5. lista_fcb'[k].tam = lista_fcb[k].tam
    <2>1. CASE BloqueInicial(p)
      <3>1. PICK b \in obtener_primer_bloque_libre : lista_fcb' = [lista_fcb EXCEPT ![k].ini = b]
        BY <1>1, <2>1, BloqueInicialHace
      <3>2. b \in Posicion
        BY <3>1, PrimerLibre DEF IInv
      <3> QED BY <1>2, <3>1, <3>2, IniCambia DEF IInv
    <2>2. CASE ~BloqueInicial(p)
      BY <2>2 DEF BuscarLibre, Anotar, Seguir, discoVars
    <2> QED BY <2>1, <2>2
  <1>6. hilo[p].paso \in {"inicial", "libre", "anotar", "seguir"}
    BY DEF BloqueInicial, BuscarLibre, Anotar, Seguir, En
  <1>7. Vacio(p, c) /\ Limpios
    BY <1>2, <1>6 DEF Datos, Nuevos, Creciendo
  <1> HIDE DEF Fcb
  <1> QED BY <1>1, <1>2, <1>3, <1>4, <1>5, <1>7, VacioSigue

\* No step of an F_TRUNCATE within the contract frees a block.
LEMMA LimpiosSigue ==
  ASSUME Limpios, UNCHANGED <<fat, bloques>>
  PROVE  Limpios'
  BY DEF Limpios, Libres

LEMMA AnotarLimpios ==
  ASSUME IInv, FatSana, "fin_fat" \notin fuera', UnoTrunca, NEW c, EnOrden(c), Limpios,
         NEW p \in Procesos, NombresIguales, Anotar(p)
  PROVE  Limpios'
  <1>0. PasoTruncar(p)
    BY DEF PasoTruncar
  <1>1. PICK b, v : b = hilo[p].bloque /\ v = hilo[p].valor
    OBVIOUS
  <1>2. Obra(p, c) /\ b \in Posicion
    BY <1>0, <1>1, TruncaCuadro
  <1>3. v \in Posicion /\ modificar_en_fat(b, v) /\ hilo[p].paso = "anotar"
    BY <1>1, AnotarHace
  <1>4. "fin_fat" \notin FueraDeLaFat(b)
    BY <1>1 DEF Anotar
  <1>5. b # -1
    BY <1>2, <1>4, LeeSana
  <1>6. v # 0
    BY <1>1, <1>2, <1>3 DEF Obra, Primero, Libres
  <1>7. fat'[b] = v /\ \A i \in Posicion : i # b => fat'[i] = fat[i]
    BY <1>2, <1>3, <1>5, EscribeFat DEF IInv
  <1>8. 1 .. TamanioFat - 1 \subseteq Posicion
    BY Medidas DEF Posicion
  <1>9. Libres' \subseteq Libres
    BY <1>6, <1>7, <1>8 DEF Libres
  <1>10. UNCHANGED bloques
    BY DEF Anotar
  <1> QED BY <1>9, <1>10 DEF Limpios

LEMMA PasoTruncarDatos ==
  ASSUME IInv, FatSana, HilosSanos, "fin_fat" \notin fuera', UnoTrunca, NEW c, EnOrden(c), Datos(c),
         NEW p \in Procesos, NombresIguales, PasoTruncar(p)
  PROVE  \E e : EnOrden(e)' /\ Datos(e)' /\ Crece(c, e)
  <1>1. HechoBien(p)' /\ Reparto(c) /\ Limpios
    BY TruncaHecho DEF EnOrden, Datos
  <1>2. Crece(c, c)
    BY <1>1, CreceIgual
  <1>3. UNCHANGED bloques
    BY TruncaDeja
  <1>4. CASE Truncar(p)
    <2>1. EnOrden(c)'
      BY <1>4, TruncarOrden
    <2>2. Creciendo(p)' => Vacio(p, c)'
      BY <1>4, TruncarVacio
    <2>3. Limpios'
      BY <1>1, <1>3, <1>4, LimpiosSigue DEF Truncar, discoVars
    <2> QED BY <1>1, <1>2, <2>1, <2>2, <2>3, TruncaDatos
  <1>5. CASE BloqueInicial(p) \/ BuscarLibre(p) \/ Seguir(p)
    <2>1. EnOrden(c)'
      BY <1>5, InicialOrden, BuscarOrden, SeguirOrden
    <2>2. Vacio(p, c)'
      BY <1>2, <1>5, CreceVacio
    <2>3. Limpios'
      BY <1>1, <1>3, <1>5, LimpiosSigue DEF BloqueInicial, BuscarLibre, Seguir, discoVars
    <2> QED BY <1>1, <1>2, <2>1, <2>2, <2>3, TruncaDatos
  <1>6. CASE Anotar(p)
    <2>1. PICK e : EnOrden(e)' /\ Crece(c, e)
      BY <1>6, AnotarOrden
    <2>2. Vacio(p, e)'
      BY <1>6, <2>1, CreceVacio
    <2>3. Limpios'
      BY <1>1, <1>6, AnotarLimpios
    <2> QED BY <1>1, <2>1, <2>2, <2>3, TruncaDatos
  <1>7. CASE Fijar(p)
    <2>1. EnOrden(c)'
      BY <1>7, FijarOrden
    <2>2. ~Creciendo(p)'
      <3>1. hilo'[p].paso = "responder"
        BY <1>7, FijarHace DEF Queda
      <3> QED BY <3>1 DEF Creciendo
    <2>3. Limpios'
      BY <1>1, <1>3, <1>7, LimpiosSigue DEF Fijar
    <2> QED BY <1>1, <1>2, <2>1, <2>2, <2>3, TruncaDatos
  <1>8. ~Quitar(p)
    <2> SUFFICES ASSUME Quitar(p) PROVE FALSE
      OBVIOUS
    <2>1. Obra(p, c) /\ hilo[p].paso = "quitar"
      BY TruncaCuadro, QuitarHace
    <2> QED BY <2>1 DEF Obra
  <1> QED BY <1>4, <1>5, <1>6, <1>7, <1>8 DEF PasoTruncar

LEMMA FcbUnicoLuego ==
  IInv' => \A k \in DOMAIN lista_fcb' : \A f : lista_fcb'[k].nombre = f => conseguir_id_fcb(f)' = k
  <1>1. IInv => \A k \in DOMAIN lista_fcb : \A f : lista_fcb[k].nombre = f => conseguir_id_fcb(f) = k
    BY FcbUnico
  <1>2. (IInv => \A k \in DOMAIN lista_fcb : \A f : lista_fcb[k].nombre = f => conseguir_id_fcb(f) = k)'
    BY <1>1, PTL
  <1> QED BY <1>2

\* What crear_fcb leaves alone.
LEMMA CrearDeja ==
  ASSUME IInv, IInv', NEW p \in Procesos, Crear(p)
  PROVE  /\ UNCHANGED <<fat, bloques, pedido, pagina, pedidos_mem, respuestas_mem>>
         /\ hecho'[p] = "existe" /\ hilo'[p].paso = "responder"
         /\ \A q \in Procesos : q # p => hilo'[q] = hilo[q] /\ hecho'[q] = hecho[q]
         /\ DOMAIN lista_fcb \subseteq DOMAIN lista_fcb'
         /\ \A k \in DOMAIN lista_fcb : lista_fcb'[k] = lista_fcb[k]
         /\ \A q \in Procesos : pedido[q].op \in OpsMem \cup {"F_TRUNCATE"} =>
              q # p /\ Fcb(q) \in DOMAIN lista_fcb /\ Fcb(q)' = Fcb(q)
  <1>1. UNCHANGED <<fat, bloques, pedido, pagina, pedidos_mem, respuestas_mem>>
    BY DEF Crear, En, kernelVars, memoriaVars
  <1>2. /\ hilo'[p].paso = "responder" /\ \A q \in Procesos : q # p => hilo'[q] = hilo[q]
        /\ Hace(p, "existe") /\ pedido[p].op = "F_CREATE"
        /\ lista_fcb' = Append(lista_fcb, FcbNuevo(pedido[p].archivo)) /\ FcbNuevo(pedido[p].archivo) \in Fcbs
    BY CrearHace DEF Queda
  <1>3. hecho'[p] = "existe" /\ \A q \in Procesos : q # p => hecho'[q] = hecho[q]
    BY <1>2 DEF Hace, IInv, Tipo, TipoHilos
  <1>4. DOMAIN lista_fcb \subseteq DOMAIN lista_fcb' /\ \A k \in DOMAIN lista_fcb : lista_fcb'[k] = lista_fcb[k]
    <2>1. lista_fcb \in Seq(Fcbs)
      BY DEF IInv, Tipo, TipoDisco
    <2>2. /\ DOMAIN lista_fcb' = 1 .. Len(lista_fcb) + 1 /\ DOMAIN lista_fcb = 1 .. Len(lista_fcb)
          /\ \A j \in DOMAIN lista_fcb : lista_fcb'[j] = lista_fcb[j]
      BY <1>2, <2>1, FcbCrece
    <2>3. Len(lista_fcb) \in Nat
      BY <2>1
    <2> QED BY <2>2, <2>3
  <1>5. ASSUME NEW q \in Procesos, pedido[q].op \in OpsMem \cup {"F_TRUNCATE"}
        PROVE  q # p /\ Fcb(q) \in DOMAIN lista_fcb /\ Fcb(q)' = Fcb(q)
    <2>1. PICK k, f : k = Fcb(q) /\ f = pedido[q].archivo
      OBVIOUS
    <2>2. k \in DOMAIN lista_fcb /\ lista_fcb[k].nombre = f
      BY <1>5, <2>1, FcbDelHilo
    <2>3. conseguir_id_fcb(f)' = k
      BY <1>4, <2>2, FcbUnicoLuego
    <2>4. Fcb(q)' = conseguir_id_fcb(f)'
      BY <1>1, <2>1 DEF Fcb, conseguir_id_fcb
    <2> QED BY <1>2, <1>5, <2>1, <2>2, <2>3, <2>4 DEF OpsMem
  <1> QED BY <1>1, <1>2, <1>3, <1>4, <1>5

LEMMA LargoPartes ==
  \A e : Reparto(e) => \A j \in DOMAIN e : Len(e[j]) \in Nat
  <1>1. ASSUME NEW e, Reparto(e), NEW j \in DOMAIN e PROVE Len(e[j]) \in Nat
    <2>1. e[j] \in Seq(1 .. Final)
      BY <1>1 DEF Reparto
    <2> QED BY <2>1
  <1> QED BY <1>1

LEMMA LargoPartesLuego ==
  \A e : Reparto(e)' => \A j \in DOMAIN e : Len(e[j]) \in Nat
  <1>1. (\A e : Reparto(e) => \A j \in DOMAIN e : Len(e[j]) \in Nat)'
    BY LargoPartes, PTL
  <1> QED BY <1>1

LEMMA CrearDatos ==
  ASSUME IInv, IInv', NEW c, EnOrden(c), Datos(c), NEW p \in Procesos, Crear(p)
  PROVE  \E e : EnOrden(e)' /\ Datos(e)' /\ Crece(c, e)
  <1>1. PICK e : EnOrden(e)' /\ Crece(c, e)
    BY CrearOrden
  <1>2. Reparto(c) /\ Reparto(e)' /\ Limpios
    BY <1>1 DEF EnOrden, Datos
  <1>3. /\ UNCHANGED <<fat, bloques, pedido, pagina, pedidos_mem, respuestas_mem>>
        /\ hecho'[p] = "existe" /\ hilo'[p].paso = "responder"
        /\ \A q \in Procesos : q # p => hilo'[q] = hilo[q] /\ hecho'[q] = hecho[q]
        /\ \A k \in DOMAIN lista_fcb : lista_fcb'[k] = lista_fcb[k]
        /\ \A q \in Procesos : pedido[q].op \in OpsMem \cup {"F_TRUNCATE"} =>
             q # p /\ Fcb(q) \in DOMAIN lista_fcb /\ Fcb(q)' = Fcb(q)
    BY CrearDeja
  <1>4. Limpios'
    BY <1>2, <1>3, LimpiosSigue
  <1>5. Hechos'
    <2>1. HechoBien(p)'
      BY <1>3 DEF HechoBien
    <2> QED BY <1>3, <2>1, HechosMueven DEF Datos
  <1>6. ASSUME NEW q \in Truncados', Creciendo(q)' PROVE Vacio(q, e)'
    <2>1. q \in Truncados /\ q \in Procesos /\ pedido[q].op = "F_TRUNCATE"
      BY <1>3, <1>6 DEF Truncados, EnCurso
    <2>2. PICK k : k = Fcb(q)
      OBVIOUS
    <2>3. k = Fcb(q)' /\ k \in DOMAIN lista_fcb /\ q # p
      BY <1>3, <2>1, <2>2
    <2>4. k \in DOMAIN c /\ Len(c[k]) \in Nat /\ lista_fcb'[k] = lista_fcb[k] /\ hilo'[q] = hilo[q]
      BY <1>2, <1>3, <2>1, <2>3, RepartoTipo DEF Reparto
    <2> HIDE DEF Fcb
    <2>5. Creciendo(q)
      BY <1>3, <1>6, <2>2, <2>3, <2>4 DEF Creciendo
    <2>6. Vacio(q, c)
      BY <2>1, <2>5 DEF Datos, Nuevos
    <2> QED BY <1>1, <1>2, <1>3, <2>2, <2>3, <2>4, <2>6, VacioSigue
  <1>7. ASSUME NEW q \in EnCurso(OpsMem)' PROVE Acceso(q, e)' /\ EnCamino(q, e)'
    <2>1. q \in EnCurso(OpsMem) /\ q \in Procesos /\ pedido[q].op \in OpsMem
      BY <1>3, <1>7 DEF EnCurso
    <2>2. q # p /\ Fcb(q)' = Fcb(q)
      BY <1>3, <2>1
    <2>3. Acceso(q, c) /\ EnCamino(q, c)
      BY <2>1 DEF Datos, Accesos
    <2>4. \A j \in DOMAIN e : Len(e[j]) \in Nat
      BY <1>2, LargoPartesLuego
    <2> QED BY <1>1, <1>2, <1>3, <2>1, <2>2, <2>3, <2>4, AccesoOtro
  <1> QED BY <1>1, <1>4, <1>5, <1>6, <1>7 DEF Datos, Nuevos, Accesos

\* The disk stays; p moves, or memoria serves it.
LEMMA DatosQuietos ==
  ASSUME IInv, NEW c, EnOrden(c), Datos(c), NEW p \in Procesos, UNCHANGED <<lista_fcb, fat, bloques>>,
         \A q \in Procesos : q # p =>
           /\ hilo'[q] = hilo[q] /\ pedido'[q] = pedido[q] /\ hecho'[q] = hecho[q] /\ pagina'[q] = pagina[q]
           /\ q \in EnCurso(OpsMem) => UNCHANGED <<pedidos_mem, respuestas_mem>>,
         ~Creciendo(p)', HechoBien(p)',
         p \in EnCurso(OpsMem)' => Acceso(p, c)' /\ EnCamino(p, c)',
         \/ pedido'[p] = pedido[p] \/ p \notin EnCurso(OpsMem)'
         \/ \A q \in Truncados : Creciendo(q) => pedido'[p].archivo # pedido[q].archivo
  PROVE  Datos(c)'
  <1>1. Reparto(c) /\ Limpios /\ Nuevos(c) /\ Hechos /\ Accesos(c)
    BY DEF EnOrden, Datos
  <1>2. Limpios'
    BY <1>1, LimpiosSigue
  <1>3. ASSUME NEW q \in Procesos, q # p PROVE hilo[q].paso = "codigo" => UNCHANGED respuestas_mem
    <2>1. hilo[q].paso = "codigo" => q \in EnCurso(OpsMem)
      BY DEF EnCurso, IInv, Lugar, Orden
    <2> QED BY <1>3, <2>1
  <1>4. Hechos'
    BY <1>1, <1>3, HechosMueven
  <1>5. ASSUME NEW q \in Truncados', Creciendo(q)' PROVE Vacio(q, c)'
    <2>1. q # p
      BY <1>5
    <2>2. /\ q \in Procesos /\ q \in Truncados /\ hilo'[q] = hilo[q] /\ pedido'[q] = pedido[q]
          /\ pedido[q].op = "F_TRUNCATE"
      BY <1>5, <2>1 DEF Truncados, EnCurso
    <2>3. PICK k : k = Fcb(q)
      OBVIOUS
    <2>4. k = Fcb(q)'
      BY <2>2, <2>3, FcbIgual
    <2> HIDE DEF Fcb
    <2>5. Creciendo(q)
      BY <1>5, <2>2, <2>3, <2>4 DEF Creciendo
    <2>6. Vacio(q, c)
      BY <1>1, <2>2, <2>5 DEF Nuevos
    <2>7. ASSUME NEW r \in EnCurso(OpsMem)' PROVE pedido'[r].archivo # pedido'[q].archivo
      <3>1. CASE r # p \/ pedido'[p] = pedido[p]
        <4>1. r \in Procesos /\ pedido'[r] = pedido[r]
          BY <2>7, <3>1 DEF EnCurso
        <4>2. r \in EnCurso(OpsMem)
          BY <2>7, <4>1 DEF EnCurso
        <4> QED BY <2>2, <2>6, <4>1, <4>2 DEF Vacio
      <3>2. CASE r = p /\ pedido'[p] # pedido[p]
        BY <2>2, <2>5, <2>7, <3>2
      <3> QED BY <3>1, <3>2
    <2> QED BY <2>3, <2>4, <2>6, <2>7 DEF Vacio
  <1>6. ASSUME NEW q \in EnCurso(OpsMem)' PROVE Acceso(q, c)' /\ EnCamino(q, c)'
    <2>1. CASE q = p
      BY <1>6, <2>1
    <2>2. CASE q # p
      <3>1. q \in Procesos /\ pedido'[q] = pedido[q] /\ q \in EnCurso(OpsMem)
        BY <1>6, <2>2 DEF EnCurso
      <3>2. Acceso(q, c) /\ EnCamino(q, c) /\ Fcb(q)' = Fcb(q)
        BY <1>1, <3>1, FcbIgual DEF Accesos
      <3>3. Crece(c, c) /\ \A j \in DOMAIN c : Len(c[j]) \in Nat
        BY <1>1, CreceIgual, LargoPartes
      <3> QED BY <1>1, <2>2, <3>1, <3>2, <3>3, AccesoOtro
    <2> QED BY <2>1, <2>2
  <1> QED BY <1>2, <1>4, <1>5, <1>6 DEF Datos, Nuevos, Accesos

PasosDeLlegada == {"buscar", "crear", "truncar", "pedir", "ubicar"}

\* A request arrives; a reader or a writer asks for a block that the file has.
LEMMA LlegaDatos ==
  ASSUME IInv, NEW c, EnOrden(c), Datos(c), NEW p \in Procesos, NEW op, NEW f, NEW n,
         NEW s \in PasosDeLlegada, Llega(p, op, f, n, s),
         \A q \in Procesos : q # p => pagina'[q] = pagina[q],
         op \in OpsMem => /\ s = "pedir" \/ (s = "ubicar" /\ op # "F_WRITE")
                          /\ n < Len(c[conseguir_id_fcb(f)])
                          /\ lista_fcb[conseguir_id_fcb(f)].tam # 0
  PROVE  Datos(c)'
  <1>1. /\ pedido[p] = SinPedido /\ pedido'[p].op = op /\ pedido'[p].archivo = f /\ pedido'[p].arg = n
        /\ \A q \in Procesos : q # p => pedido'[q] = pedido[q] /\ hilo'[q] = hilo[q]
        /\ hilo'[p].paso = s
    <2>1. s \in Pasos
      BY DEF Pasos, PasosDeLlegada
    <2>2. /\ pedido[p] = SinPedido /\ pedido'[p].op = op /\ pedido'[p].archivo = f /\ pedido'[p].arg = n
          /\ \A q \in Procesos : q # p => pedido'[q] = pedido[q]
          /\ Queda(p, s, 0, 0, Basura)
      <3>1. IInv /\ p \in Procesos /\ Llega(p, op, f, n, s)
        OBVIOUS
      <3> QED BY ONLY <2>1, <3>1, LlegaHace
    <2> QED BY <2>2 DEF Queda
  <1>2. UNCHANGED <<lista_fcb, fat, bloques, hecho, pedidos_mem, respuestas_mem>>
    BY DEF Llega, discoVars
  <1>3. ~Creciendo(p)'
    BY <1>1 DEF Creciendo, PasosDeLlegada
  <1>4. HechoBien(p)'
    <2>1. hilo[p].paso = "ninguno"
      BY <1>1 DEF IInv, Lugar, Orden
    <2>2. ~Servido(p) /\ HechoBien(p)
      BY <2>1 DEF Servido, Datos, Hechos
    <2>3. hecho'[p] = "no"
      BY <1>2, <2>1, <2>2 DEF HechoBien
    <2>4. hilo'[p].paso \notin {"codigo", "buffer", "responder"}
      BY <1>1 DEF PasosDeLlegada
    <2>5. ~Servido(p)'
      BY <2>4 DEF Servido
    <2> QED BY <2>3, <2>4, <2>5 DEF HechoBien
  <1>5. ASSUME op \in OpsMem PROVE Acceso(p, c)' /\ EnCamino(p, c)'
    <2>1. PICK k : k = conseguir_id_fcb(f)
      OBVIOUS
    <2>2. Fcb(p)' = k
      BY <1>1, <1>2, <2>1 DEF Fcb, conseguir_id_fcb
    <2>3. n < Len(c[k]) /\ s \in {"pedir", "ubicar"}
      BY <1>5, <2>1
    <2>4. Acceso(p, c)'
      BY <1>1, <2>2, <2>3 DEF Acceso
    <2>5. EnCamino(p, c)'
      BY <1>1, <1>5 DEF EnCamino
    <2> QED BY <2>4, <2>5
  <1>6. ASSUME op \in OpsMem, NEW q \in Truncados, Creciendo(q) PROVE f # pedido[q].archivo
    <2>1. lista_fcb[Fcb(q)].tam = 0
      BY <1>6 DEF Datos, Nuevos, Vacio
    <2> QED BY <1>6, <2>1 DEF Fcb
  <1>7. p \in EnCurso(OpsMem)' => op \in OpsMem
    BY <1>1 DEF EnCurso
  <1> QED BY <1>1, <1>2, <1>3, <1>4, <1>5, <1>6, <1>7, DatosQuietos

\* A request that keeps to the contract.
LEMMA PedirDatos ==
  ASSUME IInv, NEW c, EnOrden(c), Datos(c), NEW p \in Procesos, fuera' = {},
         \/ \E f : PedirAbrir(p, f)
         \/ \E f : \E n \in Nat : \E op \in OpsMem \cup {"F_TRUNCATE"} : Pedir(p, op, f, n)
         \/ PedirCrear(p)
  PROVE  Datos(c)'
  <1>1. ASSUME NEW f, PedirAbrir(p, f) PROVE Datos(c)'
    <2>1. Llega(p, "F_OPEN", f, 0, "buscar") /\ UNCHANGED pagina
      BY <1>1 DEF PedirAbrir
    <2> QED BY <2>1, LlegaDatos DEF PasosDeLlegada, OpsMem
  <1>2. ASSUME PedirCrear(p) PROVE Datos(c)'
    <2>1. Llega(p, "F_CREATE", kernel.archivo, 0, "crear") /\ UNCHANGED pagina
      BY <1>2 DEF PedirCrear
    <2> QED BY <2>1, LlegaDatos DEF PasosDeLlegada, OpsMem
  <1>3. ASSUME NEW f, NEW n \in Nat, NEW op \in OpsMem \cup {"F_TRUNCATE"}, Pedir(p, op, f, n) PROVE Datos(c)'
    <2>1. \/ op = "F_TRUNCATE" /\ Llega(p, op, f, n, "truncar")
          \/ op = "F_WRITE" /\ Llega(p, op, f, n, "pedir")
          \/ op = "F_READ" /\ Llega(p, op, f, n, "ubicar")
      BY <1>3, PedirHace
    <2>2. \A q \in Procesos : q # p => pagina'[q] = pagina[q]
      BY <1>3 DEF Pedir, IInv, Tipo, TipoMemoria
    <2>3. ASSUME op \in OpsMem
          PROVE  n < Len(c[conseguir_id_fcb(f)]) /\ lista_fcb[conseguir_id_fcb(f)].tam # 0
      <3>1. PICK k : k = conseguir_id_fcb(f)
        OBVIOUS
      <3>2. k \in DOMAIN lista_fcb
        <4>1. Existe(f)
          BY <1>3 DEF Pedir, IInv, Lugar, Abiertos
        <4> QED BY <3>1, <4>1, IdFcb DEF IInv, Tipo, TipoDisco
      <3>3. n < lista_fcb[k].tam /\ Avisos(p, op, f, n) = {}
        BY <1>3, <2>3, <3>1 DEF Pedir, OpsMem
      <3>4. ~(n >= Mitad(lista_fcb[k].tam))
        BY <2>3, <3>1, <3>3 DEF Avisos, OpsMem
      <3>5. Mitad(lista_fcb[k].tam) \in Nat /\ Mitad(lista_fcb[k].tam) <= Len(c[k]) /\ Len(c[k]) \in Nat
        BY <3>2, MitadDe DEF EnOrden
      <3>6. lista_fcb[k].tam \in Nat
        BY <3>2, RepartoTipo DEF EnOrden
      <3> QED BY <3>1, <3>3, <3>4, <3>5, <3>6
    <2> QED BY <2>1, <2>2, <2>3, LlegaDatos DEF PasosDeLlegada, OpsMem
  <1> QED BY <1>1, <1>2, <1>3

LEMMA ResponderDatos ==
  ASSUME IInv, NEW c, EnOrden(c), Datos(c), NEW p \in Procesos, Responder(p)
  PROVE  Datos(c)'
  <1>1. /\ pedido'[p] = SinPedido /\ hilo'[p].paso = "ninguno"
        /\ \A q \in Procesos : q # p => pedido'[q] = pedido[q] /\ hilo'[q] = hilo[q]
    BY ResponderHace DEF Queda
  <1>2. /\ UNCHANGED <<lista_fcb, fat, bloques, pagina, pedidos_mem, respuestas_mem>>
        /\ hecho'[p] = "no" /\ \A q \in Procesos : q # p => hecho'[q] = hecho[q]
    BY DEF Responder, discoVars, memoriaVars, IInv, Tipo, TipoHilos
  <1>3. ~Creciendo(p)' /\ p \notin EnCurso(OpsMem)'
    BY <1>1 DEF Creciendo, EnCurso, SinPedido, OpsMem
  <1>4. HechoBien(p)'
    <2>1. ~Servido(p)'
      BY <1>1 DEF Servido
    <2> QED BY <1>1, <1>2, <2>1 DEF HechoBien
  <1> QED BY <1>1, <1>2, <1>3, <1>4, DatosQuietos

LEMMA AbrirDatos ==
  ASSUME IInv, NEW c, EnOrden(c), Datos(c), NEW p \in Procesos, Abrir(p)
  PROVE  Datos(c)' /\ hecho[p] = "no"
  <1>1. hilo[p].paso = "buscar" /\ pedido[p].op = "F_OPEN"
    BY AbrirHace
  <1>2. UNCHANGED <<lista_fcb, fat, bloques, pedido, pagina, pedidos_mem, respuestas_mem>>
    BY DEF Abrir, En, discoVars, kernelVars, memoriaVars
  <1>3. ~Servido(p) /\ ~Servido(p)' /\ p \notin EnCurso(OpsMem)'
    BY <1>1, <1>2 DEF Servido, EnCurso, OpsMem
  <1>4. hecho[p] = "no"
    BY <1>1, <1>3 DEF Datos, Hechos, HechoBien
  <1>5. /\ \A q \in Procesos : q # p => hilo'[q] = hilo[q] /\ hecho'[q] = hecho[q]
        /\ ~Creciendo(p)' /\ HechoBien(p)'
    <2>1. CASE UNCHANGED <<hilo, hecho>>
      <3>1. hilo'[p].paso = "buscar" /\ hecho'[p] = "no"
        BY <1>1, <1>4, <2>1
      <3> QED BY <1>3, <2>1, <3>1 DEF Creciendo, HechoBien
    <2>2. CASE /\ Queda(p, "responder", hilo[p].bloque, hilo[p].cuenta, hilo[p].valor)
               /\ Hace(p, IF Existe(pedido[p].archivo) THEN "existe" ELSE "no existe")
      <3>1. /\ hecho'[p] # "no" /\ hilo'[p].paso = "responder"
            /\ \A q \in Procesos : q # p => hilo'[q] = hilo[q] /\ hecho'[q] = hecho[q]
        BY <2>2 DEF Hace, Queda, IInv, Tipo, TipoHilos
      <3> QED BY <3>1 DEF Creciendo, HechoBien
    <2> QED BY <2>1, <2>2, AbrirHace
  <1> QED BY <1>2, <1>3, <1>4, <1>5, DatosQuietos

\* The only reader or writer.
LEMMA AccesoCuadro ==
  ASSUME IInv, UnoPorMemoria, Correo, NEW c, EnOrden(c), Datos(c), NEW p \in Procesos,
         pedido[p].op \in OpsMem, NEW k, NEW n, k = Fcb(p), n = pedido[p].arg
  PROVE  /\ k \in DOMAIN lista_fcb /\ k \in DOMAIN c /\ n \in Nat /\ hilo[p].cuenta \in Nat
         /\ Len(c[k]) \in Nat /\ n < Len(c[k]) /\ EsCadena(c[k], k)
         /\ \A i \in 1 .. Len(c[k]) : c[k][i] \in 1 .. Final /\ c[k][i] \in Posicion
         /\ hilo[p].paso = "caminar" =>
              hilo[p].cuenta <= n /\ hilo[p].bloque = c[k][n - hilo[p].cuenta + 1]
         /\ EnCamino(p, c) /\ HechoBien(p)
         /\ hilo[p].paso \notin {"codigo", "buffer"} => pedidos_mem = <<>> /\ respuestas_mem = <<>>
         /\ \A q \in Procesos : q # p => q \notin EnCurso(OpsMem)
  <1>1. k \in DOMAIN lista_fcb /\ n \in 0 .. MaxBloques
    BY FcbDelHilo
  <1>2. n \in Nat /\ hilo[p].cuenta \in Nat
    BY <1>1, HiloCampos, Medidas DEF IInv
  <1>3. /\ k \in DOMAIN c /\ Len(c[k]) \in Nat /\ EsCadena(c[k], k)
        /\ \A i \in 1 .. Len(c[k]) : c[k][i] \in 1 .. Final /\ c[k][i] \in Posicion
    BY <1>1, RepartoTipo DEF EnOrden, Reparto
  <1>4. p \in EnCurso(OpsMem)
    BY DEF EnCurso
  <1>5. Acceso(p, c) /\ EnCamino(p, c) /\ HechoBien(p)
    BY <1>4 DEF Datos, Accesos, Hechos
  <1>6. \A q \in Procesos : q # p => q \notin EnCurso(OpsMem)
    BY <1>4 DEF UnoPorMemoria
  <1>7. ASSUME hilo[p].paso \notin {"codigo", "buffer"} PROVE pedidos_mem = <<>> /\ respuestas_mem = <<>>
    <2>1. \A q \in Procesos : hilo[q].paso \notin {"codigo", "buffer"}
      BY <1>7, SoloEnSocket
    <2> QED BY <2>1 DEF Correo
  <1>8. n < Len(c[k]) /\ (hilo[p].paso = "caminar" =>
          hilo[p].cuenta <= n /\ hilo[p].bloque = c[k][n - hilo[p].cuenta + 1])
    BY <1>5 DEF Acceso
  <1> QED BY <1>1, <1>2, <1>3, <1>5, <1>6, <1>7, <1>8

LEMMA AccesoQuietos ==
  ASSUME IInv, UnoPorMemoria, Correo, NEW c, EnOrden(c), Datos(c), NEW p \in Procesos,
         pedido[p].op \in OpsMem, UNCHANGED <<lista_fcb, fat, bloques, pedido>>,
         \A q \in Procesos : q # p => hilo'[q] = hilo[q] /\ hecho'[q] = hecho[q] /\ pagina'[q] = pagina[q],
         hilo'[p].paso \in {"codigo", "buffer", "ubicar", "caminar", "responder"},
         HechoBien(p)', EnCamino(p, c)',
         NEW k, NEW n, k = Fcb(p), n = pedido[p].arg,
         hilo'[p].paso = "caminar" =>
           hilo'[p].cuenta <= n /\ hilo'[p].bloque = c[k][n - hilo'[p].cuenta + 1]
  PROVE  Datos(c)'
  <1>1. n < Len(c[k]) /\ \A q \in Procesos : q # p => q \notin EnCurso(OpsMem)
    BY AccesoCuadro
  <1>2. Fcb(p)' = k
    BY FcbIgual
  <1>3. Acceso(p, c)'
    BY <1>1, <1>2 DEF Acceso
  <1>4. ~Creciendo(p)'
    BY DEF Creciendo
  <1> QED BY <1>1, <1>3, <1>4, DatosQuietos

LEMMA PedirMemoriaDatos ==
  ASSUME IInv, UnoPorMemoria, Correo, NEW c, EnOrden(c), Datos(c), NEW p \in Procesos, PedirMemoria(p)
  PROVE  Datos(c)'
  <1>1. /\ hilo[p].paso = "pedir" /\ pedido[p].op = "F_WRITE" /\ pedido[p].op \in OpsMem
        /\ hilo'[p].paso = "codigo" /\ \A q \in Procesos : q # p => hilo'[q] = hilo[q]
    BY PedirMemoriaHace DEF Queda, OpsMem
  <1>2. /\ UNCHANGED <<lista_fcb, fat, bloques, pedido, hecho, pagina, respuestas_mem>>
        /\ pedidos_mem' = Append(pedidos_mem, [op |-> "F_WRITE", proceso |-> p, dato |-> Basura])
    BY DEF PedirMemoria, En, discoVars, kernelVars
  <1>3. PICK k, n : k = Fcb(p) /\ n = pedido[p].arg
    OBVIOUS
  <1>4. HechoBien(p) /\ pedidos_mem = <<>> /\ respuestas_mem = <<>>
    BY <1>1, <1>3, AccesoCuadro
  <1>5. pedidos_mem'[1].proceso = p
    BY <1>2, <1>4
  <1>6. HechoBien(p)'
    BY <1>1, <1>2, <1>4 DEF HechoBien, Servido
  <1>7. EnCamino(p, c)'
    BY <1>1, <1>2, <1>4, <1>5 DEF EnCamino
  <1> HIDE DEF Fcb
  <1> QED BY <1>1, <1>2, <1>3, <1>6, <1>7, AccesoQuietos

\* Nobody else took the answer.
LEMMA RecibirCodigoDatos ==
  ASSUME IInv, UnoPorMemoria, Correo, NEW c, EnOrden(c), Datos(c), NEW p \in Procesos, RecibirCodigo(p)
  PROVE  Datos(c)' /\ UNCHANGED hecho
  <1>1. /\ hilo[p].paso = "codigo" /\ pedido[p].op \in OpsMem /\ respuestas_mem # <<>>
        /\ respuestas_mem' = Tail(respuestas_mem)
        /\ UNCHANGED <<lista_fcb, fat, bloques, pedido, pagina, pedidos_mem>>
    BY RecibirCodigoHace DEF RecibirCodigo, En, discoVars, kernelVars
  <1>2. EsperaCodigo(p)
    BY <1>1 DEF Correo
  <1>3. /\ pedidos_mem = <<>> /\ Len(respuestas_mem) = 2 /\ respuestas_mem \in Seq(Fichas)
        /\ respuestas_mem[1].tipo = "codigo" /\ respuestas_mem[1].valor = pedido[p].op
    BY <1>1, <1>2 DEF EsperaCodigo, IInv, Tipo, TipoMemoria
  <1>4. Head(respuestas_mem) = respuestas_mem[1] /\ Tail(respuestas_mem)[1] = respuestas_mem[2]
    <2>1. respuestas_mem \in Seq(Fichas) /\ Len(respuestas_mem) = 2
      BY <1>3
    <2>2. Head(respuestas_mem) = respuestas_mem[1]
      BY ONLY <2>1
    <2>3. /\ Len(Tail(respuestas_mem)) = 1
          /\ \A i \in 1 .. Len(Tail(respuestas_mem)) : Tail(respuestas_mem)[i] = respuestas_mem[i + 1]
      <3>1. respuestas_mem # <<>>
        BY <2>1
      <3> QED BY ONLY <2>1, <3>1, HeadTailProperties
    <2>4. Tail(respuestas_mem)[1] = respuestas_mem[1 + 1] /\ 1 + 1 = 2
      BY ONLY <2>3
    <2> QED BY ONLY <2>2, <2>4
  <1>5. UNCHANGED hecho /\ Queda(p, "buffer", hilo[p].bloque, hilo[p].cuenta, hilo[p].valor)
    BY <1>3, <1>4, RecibirCodigoHace
  <1>6. hilo'[p].paso = "buffer" /\ \A q \in Procesos : q # p => hilo'[q] = hilo[q]
    BY <1>5 DEF Queda
  <1>7. PICK k, n : k = Fcb(p) /\ n = pedido[p].arg
    OBVIOUS
  <1>8. HechoBien(p) /\ EnCamino(p, c)
    BY <1>1, <1>7, AccesoCuadro
  <1>9. HechoBien(p)'
    BY <1>1, <1>5, <1>6, <1>8 DEF HechoBien, Servido
  <1>10. EnCamino(p, c)'
    BY <1>1, <1>4, <1>6, <1>8 DEF EnCamino
  <1> HIDE DEF Fcb
  <1> QED BY <1>1, <1>5, <1>6, <1>7, <1>9, <1>10, AccesoQuietos

LEMMA RecibirBufferDatos ==
  ASSUME IInv, UnoPorMemoria, Correo, NEW c, EnOrden(c), Datos(c), NEW p \in Procesos, RecibirBuffer(p)
  PROVE  Datos(c)'
  <1>1. /\ hilo[p].paso = "buffer" /\ pedido[p].op \in OpsMem /\ respuestas_mem # <<>>
        /\ UNCHANGED <<lista_fcb, fat, bloques, pedido, pagina, pedidos_mem, hecho>>
    BY RecibirBufferHace DEF RecibirBuffer, En, discoVars, kernelVars
  <1>2. /\ Len(respuestas_mem) = 1 /\ respuestas_mem \in Seq(Fichas)
        /\ respuestas_mem[1].tipo = "buffer"
    BY <1>1 DEF Correo, EsperaBuffer, IInv, Tipo, TipoMemoria
  <1>3. PICK t : t = respuestas_mem[1]
    OBVIOUS
  <1>4. Head(respuestas_mem) = t /\ t.tipo = "buffer"
    BY <1>2, <1>3
  <1>5. \/ /\ pedido[p].op = "F_WRITE" /\ hilo'[p].paso = "ubicar" /\ hilo'[p].valor = t.valor
           /\ \A q \in Procesos : q # p => hilo'[q] = hilo[q]
        \/ /\ pedido[p].op = "F_READ" /\ hilo'[p].paso = "responder"
           /\ \A q \in Procesos : q # p => hilo'[q] = hilo[q]
    BY <1>4, RecibirBufferHace DEF Queda
  <1>6. PICK k, n : k = Fcb(p) /\ n = pedido[p].arg
    OBVIOUS
  <1>7. HechoBien(p) /\ EnCamino(p, c)
    BY <1>1, <1>6, AccesoCuadro
  <1>8. HechoBien(p)' /\ EnCamino(p, c)'
    <2>1. CASE pedido[p].op = "F_WRITE"
      <3>1. t.valor = pagina[p] /\ hilo'[p].paso = "ubicar" /\ hilo'[p].valor = t.valor
        BY <1>1, <1>3, <1>5, <1>7, <2>1 DEF EnCamino
      <3>2. EnCamino(p, c)'
        BY <1>1, <3>1 DEF EnCamino
      <3>3. HechoBien(p)'
        BY <1>1, <1>7, <2>1, <3>1 DEF HechoBien, Servido
      <3> QED BY <3>2, <3>3
    <2>2. CASE pedido[p].op = "F_READ"
      <3>1. hilo'[p].paso = "responder"
        BY <1>5, <2>2
      <3>2. EnCamino(p, c)'
        BY <1>1, <2>2, <3>1 DEF EnCamino
      <3>3. HechoBien(p)'
        BY <1>1, <1>7, <2>2, <3>1 DEF HechoBien, Servido
      <3> QED BY <3>2, <3>3
    <2> QED BY <1>5, <2>1, <2>2
  <1> HIDE DEF Fcb
  <1>9. hilo'[p].paso \in {"ubicar", "responder"} /\ \A q \in Procesos : q # p => hilo'[q] = hilo[q]
    BY <1>5
  <1> QED BY <1>1, <1>6, <1>8, <1>9, AccesoQuietos

\* The walk begins at the first block of the chain, and each turn takes it to the next one.
LEMMA UbicarDatos ==
  ASSUME IInv, UnoPorMemoria, Correo, NEW c, EnOrden(c), Datos(c), NEW p \in Procesos, Ubicar(p)
  PROVE  Datos(c)'
  <1>1. PICK k, n : k = Fcb(p) /\ n = pedido[p].arg
    OBVIOUS
  <1>2. /\ hilo[p].paso = "ubicar" /\ pedido[p].op \in OpsMem
        /\ hilo'[p].paso = "caminar" /\ hilo'[p].bloque = lista_fcb[k].ini /\ hilo'[p].cuenta = n
        /\ hilo'[p].valor = hilo[p].valor /\ \A q \in Procesos : q # p => hilo'[q] = hilo[q]
    BY <1>1, UbicarHace DEF Queda
  <1>3. UNCHANGED <<lista_fcb, fat, bloques, pedido, hecho, pagina, pedidos_mem, respuestas_mem>>
    BY DEF Ubicar, En, discoVars, kernelVars, memoriaVars
  <1>4. /\ HechoBien(p) /\ EnCamino(p, c) /\ n \in Nat /\ n < Len(c[k]) /\ Len(c[k]) \in Nat
        /\ EsCadena(c[k], k)
    BY <1>1, <1>2, AccesoCuadro
  <1>5. n - n + 1 = 1 /\ n <= n /\ c[k] # <<>>
    BY <1>4
  <1>6. hilo'[p].cuenta <= n /\ hilo'[p].bloque = c[k][n - hilo'[p].cuenta + 1]
    BY <1>2, <1>4, <1>5 DEF EsCadena
  <1>7. HechoBien(p)' /\ EnCamino(p, c)'
    BY <1>2, <1>3, <1>4 DEF HechoBien, Servido, EnCamino
  <1> HIDE DEF Fcb
  <1> QED BY <1>1, <1>2, <1>3, <1>6, <1>7, AccesoQuietos

LEMMA CaminarDatos ==
  ASSUME IInv, FatSana, UnoPorMemoria, Correo, NEW c, EnOrden(c), Datos(c), NEW p \in Procesos, Caminar(p)
  PROVE  Datos(c)'
  <1>1. PICK k, n, h : k = Fcb(p) /\ n = pedido[p].arg /\ h = hilo[p]
    OBVIOUS
  <1>2. /\ h.paso = "caminar" /\ pedido[p].op \in OpsMem /\ h.cuenta > 0
        /\ \E b \in posicion_en_fat(h.bloque) : Queda(p, "caminar", b, h.cuenta - 1, h.valor)
    BY <1>1, CaminarHace DEF Caminar
  <1>3. UNCHANGED <<lista_fcb, fat, bloques, pedido, hecho, pagina, pedidos_mem, respuestas_mem>>
    BY DEF Caminar, En, discoVars, kernelVars, memoriaVars
  <1>4. /\ HechoBien(p) /\ EnCamino(p, c) /\ n \in Nat /\ h.cuenta \in Nat /\ n < Len(c[k])
        /\ Len(c[k]) \in Nat /\ EsCadena(c[k], k)
        /\ \A i \in 1 .. Len(c[k]) : c[k][i] \in 1 .. Final /\ c[k][i] \in Posicion
        /\ h.cuenta <= n /\ h.bloque = c[k][n - h.cuenta + 1]
    BY <1>1, <1>2, AccesoCuadro
  <1>5. PICK i : i = n - h.cuenta + 1
    OBVIOUS
  <1>6. /\ i \in 1 .. Len(c[k]) /\ i < Len(c[k]) /\ i + 1 \in 1 .. Len(c[k])
        /\ n - (h.cuenta - 1) + 1 = i + 1 /\ h.cuenta - 1 <= n
    <2>1. PICK m, l : m = h.cuenta /\ l = Len(c[k])
      OBVIOUS
    <2>2. m \in Nat /\ m > 0 /\ n \in Nat /\ l \in Nat /\ n < l /\ m <= n /\ i = n - m + 1
      BY <1>2, <1>4, <1>5, <2>1
    <2>3. i \in 1 .. l /\ i < l /\ i + 1 \in 1 .. l /\ n - (m - 1) + 1 = i + 1 /\ m - 1 <= n
      BY ONLY <2>2
    <2> QED BY <2>1, <2>3
  <1>7. fat[h.bloque] = c[k][i + 1] /\ h.bloque \in Posicion /\ c[k][i + 1] \in Posicion
    BY <1>4, <1>5, <1>6 DEF EsCadena
  <1>8. posicion_en_fat(h.bloque) = {c[k][i + 1]}
    <2>1. fat[h.bloque] # SinLeer
      BY <1>7, Medidas
    <2> QED BY <1>7, <2>1, LeeFat DEF IInv
  <1>9. /\ hilo'[p].paso = "caminar" /\ hilo'[p].bloque = c[k][i + 1] /\ hilo'[p].cuenta = h.cuenta - 1
        /\ hilo'[p].valor = h.valor /\ \A q \in Procesos : q # p => hilo'[q] = hilo[q]
    BY <1>2, <1>8 DEF Queda
  <1>10. hilo'[p].cuenta <= n /\ hilo'[p].bloque = c[k][n - hilo'[p].cuenta + 1]
    BY <1>6, <1>9
  <1>11. HechoBien(p)' /\ EnCamino(p, c)'
    BY <1>1, <1>2, <1>3, <1>4, <1>9 DEF HechoBien, Servido, EnCamino
  <1> HIDE DEF Fcb
  <1> QED BY <1>1, <1>2, <1>3, <1>9, <1>10, <1>11, AccesoQuietos

LEMMA LeerDatos ==
  ASSUME IInv, UnoPorMemoria, Correo, NEW c, EnOrden(c), Datos(c), NEW p \in Procesos, Leer(p)
  PROVE  Datos(c)'
  <1>1. PICK k, n : k = Fcb(p) /\ n = pedido[p].arg
    OBVIOUS
  <1>2. /\ hilo[p].paso = "caminar" /\ pedido[p].op = "F_READ" /\ pedido[p].op \in OpsMem
        /\ hilo'[p].paso = "codigo" /\ \A q \in Procesos : q # p => hilo'[q] = hilo[q]
    BY LeerHace DEF Queda, OpsMem
  <1>3. /\ UNCHANGED <<lista_fcb, fat, bloques, pedido, hecho, pagina, respuestas_mem>>
        /\ pedidos_mem' = Append(pedidos_mem, [op |-> "F_READ", proceso |-> p, dato |-> bloques[hilo[p].bloque]])
        /\ hilo[p].cuenta = 0
    BY DEF Leer, leer_bloque, En, discoVars, kernelVars
  <1>4. /\ HechoBien(p) /\ pedidos_mem = <<>> /\ respuestas_mem = <<>> /\ n \in Nat
        /\ hilo[p].bloque = c[k][n - hilo[p].cuenta + 1]
    BY <1>1, <1>2, AccesoCuadro
  <1>5. n - 0 + 1 = n + 1
    BY <1>4
  <1>6. hilo[p].bloque = c[k][n + 1]
    BY <1>3, <1>4, <1>5
  <1>7. pedidos_mem'[1].proceso = p /\ pedidos_mem'[1].dato = bloques[c[k][n + 1]]
    BY <1>3, <1>4, <1>6
  <1>8. HechoBien(p)'
    BY <1>2, <1>3, <1>4 DEF HechoBien, Servido
  <1>9. Fcb(p)' = k
    BY <1>1, <1>3, FcbIgual
  <1> HIDE DEF Fcb
  <1>10. EnCamino(p, c)'
    BY <1>1, <1>2, <1>3, <1>4, <1>7, <1>9 DEF EnCamino
  <1> QED BY <1>1, <1>2, <1>3, <1>8, <1>10, AccesoQuietos

\* The block written is of one file only.
LEMMA EscribirDatos ==
  ASSUME IInv, UnoPorMemoria, Correo, NEW c, EnOrden(c), Datos(c), NEW p \in Procesos, Escribir(p)
  PROVE  /\ Datos(c)' /\ hecho[p] = "no" /\ Hace(p, "existe") /\ pedido[p].op = "F_WRITE"
         /\ UNCHANGED <<lista_fcb, fat, pedido, pagina>>
         /\ \A k, n : k = Fcb(p) /\ n = pedido[p].arg => bloques' = [bloques EXCEPT ![c[k][n + 1]] = pagina[p]]
  <1>1. PICK k, n : k = Fcb(p) /\ n = pedido[p].arg
    OBVIOUS
  <1>2. /\ hilo[p].paso = "caminar" /\ pedido[p].op = "F_WRITE" /\ pedido[p].op \in OpsMem
        /\ hilo'[p].paso = "responder" /\ \A q \in Procesos : q # p => hilo'[q] = hilo[q]
        /\ bloques' = [bloques EXCEPT ![hilo[p].bloque] = hilo[p].valor]
    BY EscribirHace DEF Queda, OpsMem
  <1>3. /\ UNCHANGED <<lista_fcb, fat, pedido, pagina, pedidos_mem, respuestas_mem>>
        /\ Hace(p, "existe") /\ hilo[p].cuenta = 0
    BY DEF Escribir, En, kernelVars, memoriaVars
  <1>4. hecho'[p] = "existe" /\ \A q \in Procesos : q # p => hecho'[q] = hecho[q]
    BY <1>3 DEF Hace, IInv, Tipo, TipoHilos
  <1>5. /\ HechoBien(p) /\ EnCamino(p, c) /\ n \in Nat /\ n < Len(c[k]) /\ Len(c[k]) \in Nat
        /\ hilo[p].bloque = c[k][n - hilo[p].cuenta + 1] /\ EsCadena(c[k], k)
        /\ k \in DOMAIN c /\ k \in DOMAIN lista_fcb
        /\ \A q \in Procesos : q # p => q \notin EnCurso(OpsMem)
    BY <1>1, <1>2, AccesoCuadro
  <1>6. PICK b : b = c[k][n + 1]
    OBVIOUS
  <1>7. n + 1 \in 1 .. Len(c[k]) /\ n - 0 + 1 = n + 1
    BY <1>5
  <1>8. hilo[p].bloque = b /\ hilo[p].valor = pagina[p] /\ fat[b] # 0
    <2>1. hilo[p].valor = pagina[p]
      BY <1>2, <1>5 DEF EnCamino
    <2>2. fat[b] # 0
      BY <1>5, <1>6, <1>7 DEF EsCadena
    <2> QED BY <1>3, <1>5, <1>6, <1>7, <2>1, <2>2
  <1>9. bloques' = [bloques EXCEPT ![b] = pagina[p]] /\ \A i \in Posicion : i # b => bloques'[i] = bloques[i]
    BY <1>2, <1>8 DEF IInv, Tipo, TipoDisco
  <1>10. Limpios'
    <2>1. Libres' = Libres
      BY <1>3 DEF Libres
    <2>2. \A i \in Libres : i # b /\ i \in Posicion
      BY <1>8, Medidas DEF Libres, Posicion
    <2> QED BY <1>9, <2>1, <2>2 DEF Limpios, Datos
  <1>11. ASSUME NEW q \in Truncados', Creciendo(q)' PROVE Vacio(q, c)'
    <2>1. /\ q \in Truncados /\ q \in Procesos /\ pedido[q].op = "F_TRUNCATE"
      BY <1>3, <1>11 DEF Truncados, EnCurso
    <2>2. PICK j : j = Fcb(q)
      OBVIOUS
    <2>3. q # p /\ j = Fcb(q)' /\ j \in DOMAIN lista_fcb /\ lista_fcb[j].nombre = pedido[q].archivo
      BY <1>2, <1>3, <2>1, <2>2, FcbIgual, FcbDelHilo
    <2>4. lista_fcb[k].nombre = pedido[p].archivo
      BY <1>1, <1>2, FcbDelHilo
    <2> HIDE DEF Fcb
    <2>5. Creciendo(q)
      BY <1>2, <1>3, <1>11, <2>1, <2>2, <2>3 DEF Creciendo
    <2>6. Vacio(q, c)
      BY <2>1, <2>5 DEF Datos, Nuevos
    <2>7. j # k
      <3>1. p \in EnCurso(OpsMem)
        BY <1>2 DEF EnCurso
      <3>2. pedido[p].archivo # pedido[q].archivo
        BY <2>6, <3>1 DEF Vacio
      <3> QED BY <2>3, <2>4, <3>2
    <2>8. ASSUME NEW i \in 1 .. Len(c[j]) PROVE bloques'[c[j][i]] = Basura
      <3>1. Disjuntas(c) /\ j \in DOMAIN c
        BY <2>3 DEF EnOrden, Reparto
      <3>2. c[j][i] # b
        BY <1>5, <1>6, <1>7, <2>7, <3>1 DEF Disjuntas
      <3>3. c[j][i] \in Posicion
        BY <2>3, RepartoTipo DEF EnOrden
      <3>4. bloques[c[j][i]] = Basura
        BY <2>2, <2>6 DEF Vacio
      <3> QED BY <1>9, <3>2, <3>3, <3>4
    <2>9. /\ lista_fcb'[j].tam = 0
          /\ \A r \in EnCurso(OpsMem)' : pedido'[r].archivo # pedido'[q].archivo
      BY <1>3, <2>2, <2>6 DEF Vacio, EnCurso
    <2> QED BY <2>3, <2>8, <2>9 DEF Vacio
  <1>12. Hechos'
    <2>1. HechoBien(p)'
      BY <1>2, <1>4 DEF HechoBien
    <2> QED BY <1>2, <1>3, <1>4, <2>1, HechosMueven DEF Datos
  <1>13. ASSUME NEW q \in EnCurso(OpsMem)' PROVE Acceso(q, c)' /\ EnCamino(q, c)'
    <2>1. q = p
      BY <1>3, <1>5, <1>13 DEF EnCurso
    <2>2. Fcb(p)' = k
      BY <1>1, <1>3, FcbIgual
    <2> HIDE DEF Fcb
    <2>3. Acceso(p, c)'
      BY <1>1, <1>2, <1>3, <1>5, <2>2 DEF Acceso
    <2>4. EnCamino(p, c)'
      BY <1>2 DEF EnCamino
    <2> QED BY <2>1, <2>3, <2>4
  <1>14. Datos(c)'
    BY <1>10, <1>11, <1>12, <1>13 DEF Datos, Nuevos, Accesos
  <1>15. hecho[p] = "no"
    <2>1. ~Servido(p)
      BY <1>2 DEF Servido
    <2> QED BY <1>2, <1>5, <2>1 DEF HechoBien
  <1> QED BY <1>1, <1>2, <1>3, <1>6, <1>9, <1>14, <1>15

\* Memoria serves the only one who asked; an F_READ takes effect here.
LEMMA ServirDatos ==
  ASSUME IInv, UnoPorMemoria, Correo, NEW c, EnOrden(c), Datos(c), Servir
  PROVE  /\ Datos(c)' /\ UNCHANGED <<lista_fcb, fat, bloques, pedido, fuera>>
         /\ \/ UNCHANGED <<pagina, hecho>>
            \/ \E p \in Procesos : \A k, n : k = Fcb(p) /\ n = pedido[p].arg =>
                 /\ pedido[p].op = "F_READ" /\ hecho[p] = "no" /\ Hace(p, "existe")
                 /\ pagina' = [pagina EXCEPT ![p] = bloques[c[k][n + 1]]]
  <1>1. UNCHANGED <<lista_fcb, fat, bloques, pedido, hilo, fuera>> /\ pedidos_mem # <<>>
    BY DEF Servir, discoVars, kernelVars
  <1>2. PICK p \in Procesos : hilo[p].paso = "codigo"
    <2>1. PICK p \in Procesos : hilo[p].paso \in {"codigo", "buffer"}
      BY <1>1 DEF Correo
    <2>2. hilo[p].paso # "buffer"
      BY <1>1 DEF Correo, EsperaBuffer
    <2> QED BY <2>1, <2>2
  <1>3. /\ Len(pedidos_mem) = 1 /\ pedidos_mem[1].op = pedido[p].op /\ respuestas_mem = <<>>
        /\ pedido[p].op \in OpsMem
    <2>1. EsperaCodigo(p)
      BY <1>2 DEF Correo
    <2>2. pedido[p].op \in OpsMem
      BY <1>2 DEF IInv, Lugar, Orden
    <2> QED BY <1>1, <2>1, <2>2 DEF EsperaCodigo
  <1>4. PICK m : m = pedidos_mem[1]
    OBVIOUS
  <1>5. Head(pedidos_mem) = m /\ Tail(pedidos_mem) = <<>>
    <2>1. pedidos_mem \in Seq(Envios)
      BY DEF IInv, Tipo, TipoMemoria
    <2>2. Len(pedidos_mem) = 1
      BY <1>3
    <2>3. Head(pedidos_mem) = pedidos_mem[1]
      BY ONLY <2>1, <2>2
    <2>4. Tail(pedidos_mem) \in Seq(Envios) /\ Len(Tail(pedidos_mem)) = 0
      <3>1. pedidos_mem # <<>>
        BY <2>2
      <3> QED BY ONLY <2>1, <2>2, <3>1, HeadTailProperties
    <2>5. Tail(pedidos_mem) = <<>>
      <3>1. ASSUME NEW t \in Seq(Envios), t # <<>> PROVE Len(t) # 0
        BY ONLY <3>1, EmptySeq
      <3>2. PICK t : t = Tail(pedidos_mem)
        OBVIOUS
      <3> QED BY ONLY <2>4, <3>1, <3>2
    <2> QED BY <1>4, <2>3, <2>5
  <1>6. PICK k, n : k = Fcb(p) /\ n = pedido[p].arg
    OBVIOUS
  <1>7. EnCamino(p, c) /\ HechoBien(p) /\ \A q \in Procesos : q # p => q \notin EnCurso(OpsMem)
    BY <1>3, <1>6, AccesoCuadro
  <1>8. /\ m.proceso = p /\ m.op = pedido[p].op
        /\ pedido[p].op = "F_READ" => m.dato = bloques[c[k][n + 1]]
    BY <1>1, <1>2, <1>3, <1>4, <1>6, <1>7 DEF EnCamino
  <1>9. pedidos_mem' = <<>> /\ hilo'[p].paso = "codigo" /\ hecho[p] = "no"
    BY <1>1, <1>2, <1>3, <1>5, <1>7 DEF Servir, HechoBien, Servido
  <1>10. \E w : /\ respuestas_mem' = respuestas_mem \o Respuesta(m.op, w)
                /\ \/ m.op = "F_WRITE" /\ w = pagina[p] /\ UNCHANGED <<pagina, hecho>>
                   \/ /\ m.op = "F_READ" /\ pagina' = [pagina EXCEPT ![p] = m.dato]
                      /\ hecho' = [hecho EXCEPT ![p] = "existe"]
    <2>1. CASE m.op = "F_WRITE"
      BY <1>5, <1>8, <2>1 DEF Servir, Respuesta
    <2>2. CASE m.op = "F_READ"
      BY <1>5, <1>8, <2>2 DEF Servir, Respuesta
    <2> QED BY <1>3, <1>8, <2>1, <2>2 DEF OpsMem
  <1>11. PICK w : /\ respuestas_mem' = respuestas_mem \o Respuesta(m.op, w)
                  /\ \/ m.op = "F_WRITE" /\ w = pagina[p] /\ UNCHANGED <<pagina, hecho>>
                     \/ /\ m.op = "F_READ" /\ pagina' = [pagina EXCEPT ![p] = m.dato]
                        /\ hecho' = [hecho EXCEPT ![p] = "existe"]
    BY <1>10
  <1>12. respuestas_mem' # <<>> /\ respuestas_mem'[2].valor = w
    <2>1. PICK x, y : x = [tipo |-> "codigo", valor |-> m.op] /\ y = [tipo |-> "buffer", valor |-> w]
      OBVIOUS
    <2>2. respuestas_mem' = <<>> \o <<x, y>> /\ y.valor = w
      BY <1>3, <1>11, <2>1 DEF Respuesta
    <2>3. <<>> \o <<x, y>> = <<x, y>>
      OBVIOUS
    <2> QED BY <2>2, <2>3
  <1>13. HechoBien(p)' /\ EnCamino(p, c)'
    <2>1. CASE m.op = "F_WRITE"
      <3>1. pedido'[p].op = "F_WRITE" /\ hecho'[p] = "no" /\ pagina'[p] = w
        BY <1>1, <1>8, <1>9, <1>11, <2>1
      <3>2. EnCamino(p, c)'
        BY <1>9, <1>12, <3>1 DEF EnCamino
      <3>3. HechoBien(p)'
        BY <1>9, <3>1 DEF HechoBien, Servido
      <3> QED BY <3>2, <3>3
    <2>2. CASE m.op = "F_READ"
      <3>1. pedido'[p].op = "F_READ" /\ hecho'[p] = "existe"
        BY <1>1, <1>8, <1>11, <2>2 DEF IInv, Tipo, TipoHilos
      <3>2. EnCamino(p, c)'
        BY <1>9, <3>1 DEF EnCamino
      <3>3. HechoBien(p)'
        BY <1>9, <1>12, <3>1 DEF HechoBien, Servido
      <3> QED BY <3>2, <3>3
    <2> QED BY <1>3, <1>8, <2>1, <2>2 DEF OpsMem
  <1>14. \A q \in Procesos : q # p => hecho'[q] = hecho[q] /\ pagina'[q] = pagina[q] /\ hilo'[q] = hilo[q]
    BY <1>1, <1>11 DEF IInv, Tipo, TipoHilos, TipoMemoria
  <1>15. Datos(c)'
    <2> HIDE DEF Fcb
    <2> QED BY <1>1, <1>3, <1>6, <1>9, <1>13, <1>14, AccesoQuietos
  <1>16. \/ UNCHANGED <<pagina, hecho>>
         \/ /\ pedido[p].op = "F_READ" /\ hecho[p] = "no" /\ Hace(p, "existe")
            /\ pagina' = [pagina EXCEPT ![p] = bloques[c[k][n + 1]]]
    BY <1>8, <1>9, <1>11 DEF Hace
  <1> QED BY <1>1, <1>6, <1>15, <1>16

\* What the contract gives while nothing has left it.
LEMMA EnContratoHay ==
  ASSUME SinFinal, Cadenas, Socket, Almacenado, Next, fuera' = {}
  PROVE  /\ fuera = {} /\ UnoTrunca /\ FatSana /\ HilosSanos /\ UnoPorMemoria /\ Correo
         /\ \E c : EnOrden(c) /\ Datos(c)
  <1>1. fuera = {}
    BY FueraCrece
  <1> QED BY <1>1 DEF SinFinal, Cadenas, Socket, Almacenado

\* A step of a thread that is not inside an F_TRUNCATE or an F_CREATE.
LEMMA AccesoDatos ==
  ASSUME IInv, FatSana, UnoPorMemoria, Correo, NEW c, EnOrden(c), Datos(c), NEW p \in Procesos,
         \/ Abrir(p) \/ PedirMemoria(p) \/ RecibirCodigo(p) \/ RecibirBuffer(p)
         \/ Ubicar(p) \/ Caminar(p) \/ Escribir(p) \/ Leer(p) \/ Responder(p)
  PROVE  EnOrden(c)' /\ Datos(c)'
  <1>1. EnOrden(c)'
    BY AccesoOrden
  <1>2. CASE Abrir(p) \/ Responder(p) \/ PedirMemoria(p)
    BY <1>1, <1>2, AbrirDatos, ResponderDatos, PedirMemoriaDatos
  <1>3. CASE RecibirCodigo(p) \/ RecibirBuffer(p) \/ Ubicar(p)
    BY <1>1, <1>3, RecibirCodigoDatos, RecibirBufferDatos, UbicarDatos
  <1>4. CASE Caminar(p) \/ Escribir(p) \/ Leer(p)
    BY <1>1, <1>4, CaminarDatos, EscribirDatos, LeerDatos
  <1> QED BY <1>1, <1>2, <1>3, <1>4

LEMMA ServirOrden ==
  ASSUME NEW c, EnOrden(c), Servir
  PROVE  EnOrden(c)'
  <1>1. UNCHANGED <<lista_fcb, fat, hilo, pedido>>
    BY DEF Servir, discoVars, kernelVars
  <1>2. \A q \in Truncados' : Obra(q, c)'
    BY <1>1, ObraQuieta DEF EnOrden, Truncados, EnCurso
  <1> QED BY <1>1, <1>2, RepartoQuieto DEF EnOrden

\* Whoever truncates does not free blocks: only a file that has some would.
LEMMA NoQuita ==
  ASSUME IInv, UnoTrunca, NEW c, EnOrden(c), NEW p \in Procesos, NombresIguales
  PROVE  ~Quitar(p)
  <1> SUFFICES ASSUME Quitar(p) PROVE FALSE
    OBVIOUS
  <1>1. Obra(p, c) /\ hilo[p].paso = "quitar"
    BY TruncaCuadro, QuitarHace DEF PasoTruncar
  <1> QED BY <1>1 DEF Obra

LEMMA QuietoAlmacenado ==
  ASSUME Almacenado, UNCHANGED vars
  PROVE  Almacenado'
  <1> SUFFICES ASSUME fuera = {}, NEW c, EnOrden(c), Datos(c) PROVE EnOrden(c)' /\ Datos(c)'
    BY DEF Almacenado, vars
  <1>1. UNCHANGED <<lista_fcb, fat, bloques, hilo, pedido, hecho, pagina, pedidos_mem, respuestas_mem>>
    BY DEF vars
  <1>2. \A q \in Truncados' : Obra(q, c)'
    BY <1>1, ObraQuieta DEF EnOrden, Truncados, EnCurso
  <1>3. EnOrden(c)'
    BY <1>1, <1>2, RepartoQuieto DEF EnOrden
  <1>4. \A q \in Procesos : Fcb(q)' = Fcb(q)
    BY <1>1, FcbIgual
  <1>5. Limpios'
    BY <1>1, LimpiosSigue DEF Datos
  <1>6. Hechos'
    BY <1>1 DEF Datos, Hechos, HechoBien, Servido
  <1>7. Nuevos(c)'
    BY <1>1, <1>4 DEF Datos, Nuevos, Creciendo, Vacio, Truncados, EnCurso
  <1>8. Accesos(c)'
    BY <1>1, <1>4 DEF Datos, Accesos, Acceso, EnCamino, EnCurso
  <1> QED BY <1>3, <1>5, <1>6, <1>7, <1>8 DEF Datos

LEMMA AlmacenadoSigue ==
  ASSUME IInv, IInv', SinFinal, Cadenas, Socket, Almacenado, [Next]_vars
  PROVE  Almacenado'
  <1> SUFFICES ASSUME Next, fuera' = {} PROVE \E e : EnOrden(e)' /\ Datos(e)'
    BY QuietoAlmacenado DEF Almacenado
  <1>1. fuera = {} /\ UnoTrunca /\ FatSana /\ HilosSanos /\ UnoPorMemoria /\ Correo
    BY EnContratoHay
  <1>2. PICK c : EnOrden(c) /\ Datos(c)
    BY EnContratoHay
  <1>3. ASSUME Servir PROVE EnOrden(c)' /\ Datos(c)'
    BY <1>1, <1>2, <1>3, ServirOrden, ServirDatos
  <1>4. ASSUME NEW p \in Procesos,
               \/ \E f : PedirAbrir(p, f)
               \/ \E f : \E n \in Nat : \E op \in OpsMem \cup {"F_TRUNCATE"} : Pedir(p, op, f, n)
               \/ PedirCrear(p)
        PROVE  EnOrden(c)' /\ Datos(c)'
    <2>1. Datos(c)'
      BY <1>2, <1>4, PedirDatos
    <2>2. EnOrden(c)'
      BY <1>2, <1>4, PedirOrden
    <2> QED BY <2>1, <2>2
  <1>5. ASSUME Programas PROVE EnOrden(c)' /\ Datos(c)'
    <2>1. PICK p \in Procesos, f \in Archivos :
            \/ PedirAbrir(p, f)
            \/ \E op \in OpsMem \cup {"F_TRUNCATE"}, n \in 0 .. MaxBloques : Pedir(p, op, f, n)
      BY <1>5, ProgramasSon
    <2>2. CASE PedirAbrir(p, f)
      BY <1>4, <2>2
    <2>3. CASE \E op \in OpsMem \cup {"F_TRUNCATE"}, n \in 0 .. MaxBloques : Pedir(p, op, f, n)
      <3>1. PICK op \in OpsMem \cup {"F_TRUNCATE"}, n \in 0 .. MaxBloques : Pedir(p, op, f, n)
        BY <2>3
      <3>2. n \in Nat
        BY Medidas
      <3> QED BY <1>4, <3>1, <3>2
    <2> QED BY <2>1, <2>2, <2>3
  <1>6. ASSUME NEW p \in Procesos, Hilo(p) PROVE \E e : EnOrden(e)' /\ Datos(e)'
    <2>1. CASE \E q \in Procesos : Crear(q)
      BY <1>2, <2>1, CrearDatos
    <2>2. CASE \A q \in Procesos : ~Crear(q)
      <3>1. NombresIguales /\ ~Quitar(p)
        BY <1>1, <1>2, <2>2, NombresSiguen, NoQuita
      <3>2. CASE PasoTruncar(p)
        BY <1>1, <1>2, <3>1, <3>2, PasoTruncarDatos
      <3>3. CASE PedirCrear(p)
        BY <1>4, <3>3
      <3>4. CASE ~(PasoTruncar(p) \/ PedirCrear(p))
        BY <1>1, <1>2, <1>6, <2>2, <3>4, AccesoDatos DEF Hilo, PasoTruncar
      <3> QED BY <3>2, <3>3, <3>4
    <2> QED BY <2>1, <2>2
  <1> QED BY <1>2, <1>3, <1>5, <1>6 DEF Next

LEMMA AlmacenadoInicio == Init => Almacenado
  <1> SUFFICES ASSUME Init PROVE \E c : EnOrden(c) /\ Datos(c)
    BY DEF Almacenado
  <1>1. DOMAIN lista_fcb = {} /\ Truncados = {} /\ EnCurso(OpsMem) = {}
    BY DEF Init, SinPedido, Truncados, EnCurso, OpsMem
  <1>2. PICK c : c = [k \in {} |-> <<>>]
    OBVIOUS
  <1>3. c \in [DOMAIN lista_fcb -> Seq(1 .. Final)] /\ DOMAIN c = {}
    BY <1>1, <1>2
  <1>4. EnOrden(c)
    BY <1>1, <1>3 DEF EnOrden, Reparto, Disjuntas
  <1>5. Limpios
    <2>1. \A b \in Libres : b \in Posicion
      BY Medidas DEF Libres, Posicion
    <2> QED BY <2>1 DEF Init, BloquesVacios, Limpios
  <1>6. Hechos
    BY DEF Init, SinPedido, HiloLibre, Hechos, HechoBien, Servido
  <1> QED BY <1>1, <1>4, <1>5, <1>6 DEF Datos, Nuevos, Accesos

LEMMA AlmacenadoSiempre == Spec => []Almacenado
  <1>1. IInv /\ IInv' /\ SinFinal /\ Cadenas /\ Socket /\ Almacenado /\ [Next]_vars => Almacenado'
    BY AlmacenadoSigue
  <1> QED BY <1>1, AlmacenadoInicio, Invariante, SinFinalSiempre, CadenasSiempre, SocketSiempre, PTL DEF Spec

\* The steps that touch nothing the processes see.
Quieto == contenido' = contenido /\ UNCHANGED <<pedido, hecho, pagina>>

\* A request of a program.
LEMMA PedirCumple ==
  ASSUME IInv, fuera = {}, fuera' = {}, NEW c, EnOrden(c), NEW p \in Procesos, NEW f \in Archivos,
         NEW op \in OpsMem \cup {"F_TRUNCATE"}, NEW n \in 0 .. MaxBloques, Pedir(p, op, f, n)
  PROVE  Contrato!Pedir(p, op, f, n)
  <1>1. /\ pedido[p] = SinPedido /\ pedido' = [pedido EXCEPT ![p] = [op |-> op, archivo |-> f, arg |-> n]]
        /\ UNCHANGED <<lista_fcb, fat, bloques, hecho>>
    <2>1. \E s : Llega(p, op, f, n, s)
      BY PedirHace
    <2> QED BY <2>1 DEF Llega, discoVars
  <1>2. contenido' = contenido
    BY <1>1, ContenidoIgual
  <1>3. op \in OpsMem => n < Len(contenido[f].bloques)
    <2> SUFFICES ASSUME op \in OpsMem PROVE n < Len(contenido[f].bloques)
      OBVIOUS
    <2>1. PICK k : k = conseguir_id_fcb(f)
      OBVIOUS
    <2>2. PICK m : m = Mitad(lista_fcb[k].tam)
      OBVIOUS
    <2>3. Existe(f)
      BY DEF Pedir, IInv, Lugar, Abiertos
    <2>4. /\ k \in DOMAIN lista_fcb
          /\ contenido[f] = [largo |-> lista_fcb[k].tam, bloques |->
                               [i \in 1 .. Mitad(lista_fcb[k].tam) |-> bloques[c[k][i]]]]
      <3>1. \A j : j = conseguir_id_fcb(f) =>
              /\ j \in DOMAIN lista_fcb
              /\ contenido[f] = [largo |-> lista_fcb[j].tam, bloques |->
                                   [i \in 1 .. Mitad(lista_fcb[j].tam) |-> bloques[c[j][i]]]]
        BY <2>3, GuardaDe DEF EnOrden
      <3> QED BY <2>1, <3>1
    <2>5. m \in Nat
      BY <2>2, <2>4, MitadDe DEF EnOrden
    <2>6. contenido[f].bloques = [i \in 1 .. m |-> bloques[c[k][i]]]
      BY <2>2, <2>4
    <2>7. Len(contenido[f].bloques) = m
      BY <2>5, <2>6
    <2>8. ~(n >= m)
      BY <2>1, <2>2 DEF Pedir, Avisos, OpsMem
    <2>9. n \in Nat
      BY Medidas
    <2> QED BY <2>5, <2>7, <2>8, <2>9
  <1>4. IF op = "F_WRITE" THEN \E w \in Palabras : pagina' = [pagina EXCEPT ![p] = w] ELSE UNCHANGED pagina
    BY DEF Pedir, Palabras
  <1> QED BY <1>1, <1>2, <1>3, <1>4 DEF Contrato!Pedir, Contrato!SinPedido, SinPedido, OpsMem

LEMMA PedirAbreCumple ==
  ASSUME IInv, fuera = {}, fuera' = {}, NEW p \in Procesos, NEW f \in Archivos, PedirAbrir(p, f)
  PROVE  Contrato!Pedir(p, "F_OPEN", f, 0)
  <1>1. /\ pedido[p] = SinPedido /\ pedido' = [pedido EXCEPT ![p] = [op |-> "F_OPEN", archivo |-> f, arg |-> 0]]
        /\ UNCHANGED <<lista_fcb, fat, bloques, hecho, pagina>>
    BY DEF PedirAbrir, Llega, discoVars
  <1>2. contenido' = contenido
    BY <1>1, ContenidoIgual
  <1> QED BY <1>1, <1>2 DEF Contrato!Pedir, Contrato!SinPedido, SinPedido

LEMMA PedirCreaCumple ==
  ASSUME IInv, fuera = {}, fuera' = {}, NEW p \in Procesos, PedirCrear(p)
  PROVE  kernel.archivo \in Archivos /\ Contrato!Pedir(p, "F_CREATE", kernel.archivo, 0)
  <1>1. /\ pedido[p] = SinPedido
        /\ pedido' = [pedido EXCEPT ![p] = [op |-> "F_CREATE", archivo |-> kernel.archivo, arg |-> 0]]
        /\ UNCHANGED <<lista_fcb, fat, bloques, hecho, pagina>>
    BY DEF PedirCrear, Llega, discoVars
  <1>2. contenido' = contenido
    BY <1>1, ContenidoIgual
  <1>3. kernel.archivo \in Archivos
    BY DEF PedirCrear, IInv, Lugar, Apertura
  <1> QED BY <1>1, <1>2, <1>3 DEF Contrato!Pedir, Contrato!SinPedido, SinPedido

LEMMA ResponderCumple ==
  ASSUME IInv, fuera = {}, fuera' = {}, NEW c, Datos(c), NEW p \in Procesos, Responder(p)
  PROVE  Contrato!Responder(p)
  <1>1. /\ hilo[p].paso = "responder" /\ pedido[p] # SinPedido
        /\ pedido' = [pedido EXCEPT ![p] = SinPedido] /\ hecho' = [hecho EXCEPT ![p] = "no"]
        /\ UNCHANGED <<lista_fcb, fat, bloques, pagina>>
    BY ResponderHace DEF Responder, discoVars, memoriaVars
  <1>2. contenido' = contenido
    BY <1>1, ContenidoIgual
  <1>3. hecho[p] # "no"
    BY <1>1 DEF Datos, Hechos, HechoBien
  <1> QED BY <1>1, <1>2, <1>3 DEF Contrato!Responder, Contrato!SinPedido, SinPedido

\* An F_OPEN finds the file in the contents when it has an FCB.
LEMMA AbrirCumple ==
  ASSUME IInv, fuera = {}, fuera' = {}, NEW c, EnOrden(c), Datos(c), NEW p \in Procesos, Abrir(p)
  PROVE  Contrato!Abrir(p) \/ Quieto
  <1>1. /\ pedido[p].op = "F_OPEN" /\ hecho[p] = "no"
        /\ UNCHANGED <<lista_fcb, fat, bloques, pagina, pedido>>
        /\ \/ UNCHANGED hecho
           \/ Hace(p, IF Existe(pedido[p].archivo) THEN "existe" ELSE "no existe")
    BY AbrirHace, AbrirDatos DEF Abrir, En, discoVars, memoriaVars, kernelVars
  <1>2. contenido' = contenido
    BY <1>1, ContenidoIgual
  <1>3. pedido[p] # SinPedido /\ pedido[p].archivo \in Archivos
    <2>1. pedido[p] # SinPedido
      BY AbrirHace DEF IInv, Lugar, Orden
    <2> QED BY <2>1 DEF IInv, Tipo, TipoKernel, Pedidos
  <1>4. Existe(pedido[p].archivo) <=> contenido[pedido[p].archivo] # NoExiste
    <2>1. PICK f \in Archivos : f = pedido[p].archivo
      BY <1>3
    <2>2. ~Existe(f) => contenido[f] = NoExiste
      BY GuardaDe DEF EnOrden
    <2>3. Existe(f) => contenido[f] # NoExiste
      BY GuardaDe DEF EnOrden
    <2> QED BY <2>1, <2>2, <2>3
  <1>5. CASE UNCHANGED hecho
    BY <1>1, <1>2, <1>5 DEF Quieto
  <1>6. CASE Hace(p, IF Existe(pedido[p].archivo) THEN "existe" ELSE "no existe")
    <2>1. hecho' = [hecho EXCEPT ![p] = IF contenido[pedido[p].archivo] # NoExiste THEN "existe" ELSE "no existe"]
      BY <1>4, <1>6 DEF Hace
    <2> QED BY <1>1, <1>2, <1>3, <2>1 DEF Contrato!Abrir, Contrato!Hecho, Contrato!Existe,
                                          Contrato!SinPedido, SinPedido
  <1> QED BY <1>1, <1>5, <1>6

\* A new file, empty; the others stay as they were.
LEMMA CrearCumple ==
  ASSUME IInv, IInv', fuera = {}, fuera' = {}, NEW c, EnOrden(c), Datos(c), NEW p \in Procesos, Crear(p)
  PROVE  Contrato!Crear(p)
  <1> DEFINE m == Len(lista_fcb) + 1
             nuevo == [largo |-> 0, bloques |-> <<>>]
  <1>0. PICK f : f = pedido[p].archivo
    OBVIOUS
  <1>1. /\ hilo[p].paso = "crear" /\ pedido[p].op = "F_CREATE" /\ ~Existe(f)
        /\ lista_fcb' = Append(lista_fcb, FcbNuevo(f)) /\ FcbNuevo(f) \in Fcbs /\ Hace(p, "existe")
    BY <1>0, CrearHace
  <1>2. UNCHANGED <<fat, bloques, pedido, pagina>>
    BY CrearDeja
  <1>3. PICK e : EnOrden(e)' /\ Datos(e)' /\ Crece(c, e)
    BY CrearDatos
  <1>4. pedido[p] # SinPedido /\ f \in Archivos
    <2>1. pedido[p] # SinPedido
      BY <1>1 DEF IInv, Lugar, Orden
    <2> QED BY <1>0, <2>1 DEF IInv, Tipo, TipoKernel, Pedidos
  <1>5. /\ DOMAIN lista_fcb' = DOMAIN lista_fcb \cup {m} /\ m \notin DOMAIN lista_fcb
        /\ \A k \in DOMAIN lista_fcb : lista_fcb'[k] = lista_fcb[k]
        /\ lista_fcb'[m].nombre = f /\ lista_fcb'[m].tam = 0
    <2>1. lista_fcb \in Seq(Fcbs) /\ lista_fcb' = Append(lista_fcb, FcbNuevo(f))
      BY <1>1 DEF IInv, Tipo, TipoDisco
    <2>2. FcbNuevo(f).nombre = f /\ FcbNuevo(f).tam = 0
      BY DEF FcbNuevo
    <2> QED BY <2>1, <2>2
  <1>6. hecho[p] = "no"
    <2>1. hilo[p].paso # "responder" /\ ~Servido(p)
      BY <1>1 DEF Servido
    <2> QED BY <2>1 DEF Datos, Hechos, HechoBien
  <1>m. PICK d : d = m
    OBVIOUS
  <1> HIDE DEF m
  <1>7. contenido[f] = NoExiste
    BY <1>1, <1>4, GuardaDe DEF EnOrden
  <1>8. contenido'[f] = nuevo
    <2>0. d \in DOMAIN lista_fcb' /\ lista_fcb'[d].nombre = f /\ lista_fcb'[d].tam = 0
      BY <1>5, <1>m
    <2>1. Existe(f)' /\ conseguir_id_fcb(f)' = d
      BY <2>0, FcbUnicoLuego DEF Existe
    <2>2. contenido'[f] = [largo |-> lista_fcb'[d].tam, bloques |->
                             [i \in 1 .. Mitad(lista_fcb'[d].tam) |-> bloques'[e[d][i]]]]
      BY <1>3, <1>4, <2>1, GuardaDeLuego DEF EnOrden
    <2>3. Mitad(0) = 0
      BY DEF Mitad
    <2>4. contenido'[f] = [largo |-> 0, bloques |-> [i \in 1 .. 0 |-> bloques'[e[d][i]]]]
      BY <2>0, <2>2, <2>3
    <2>5. [i \in 1 .. 0 |-> bloques'[e[d][i]]] = <<>>
      OBVIOUS
    <2> QED BY <2>4, <2>5
  <1>9. ASSUME NEW g \in Archivos, g # f PROVE contenido'[g] = contenido[g]
    <2>1. PICK k : k = conseguir_id_fcb(g)
      OBVIOUS
    <2>2. Existe(g)' <=> Existe(g)
      BY <1>5, <1>9 DEF Existe
    <2>3. CASE Existe(g)
      <3>1. k \in DOMAIN lista_fcb /\ lista_fcb[k].nombre = g
        BY <2>1, <2>3, IdFcb DEF IInv, Tipo, TipoDisco
      <3>2. k \in DOMAIN lista_fcb' /\ lista_fcb'[k] = lista_fcb[k]
        BY <1>5, <3>1
      <3>3. k = conseguir_id_fcb(g)'
        BY <3>1, <3>2, FcbUnicoLuego
      <3> QED BY <1>2, <1>3, <2>1, <2>2, <3>2, <3>3, ArchivoQuieto DEF EnOrden
    <2>4. CASE ~Existe(g)
      BY <1>3, <2>2, <2>4, GuardaDe, GuardaDeLuego DEF EnOrden
    <2> QED BY <2>3, <2>4
  <1>10. contenido' = [contenido EXCEPT ![f] = nuevo]
    <2> HIDE DEF nuevo
    <2> QED BY <1>4, <1>8, <1>9, ContenidoTipo
  <1> QED BY <1>0, <1>1, <1>2, <1>4, <1>6, <1>7, <1>10 DEF Contrato!Crear, Contrato!Hecho, Contrato!Existe,
                                                  Contrato!SinPedido, SinPedido, Hace

\* The steps of an F_TRUNCATE before its last one are not seen.
LEMMA TruncaQuieto ==
  ASSUME IInv, IInv', UnoTrunca, FatSana, HilosSanos, fuera' = {}, NEW c, EnOrden(c), Datos(c),
         NEW p \in Procesos, NombresIguales, PasoTruncar(p), ~Fijar(p)
  PROVE  Quieto
  <1>1. PICK e : EnOrden(e)' /\ Datos(e)' /\ Crece(c, e)
    BY PasoTruncarDatos
  <1>2. UNCHANGED <<bloques, pagina, hecho>>
    <2>1. UNCHANGED <<bloques, pagina>>
      BY TruncaDeja
    <2>2. UNCHANGED hecho
      BY DEF PasoTruncar, Truncar, BloqueInicial, BuscarLibre, Anotar, Seguir, Quitar
    <2> QED BY <2>1, <2>2
  <1>3. UNCHANGED pedido
    BY TruncaCuadro
  <1>4. \A k \in DOMAIN lista_fcb : lista_fcb'[k].tam = lista_fcb[k].tam
    <2>1. CASE BloqueInicial(p)
      <3>1. PICK b \in obtener_primer_bloque_libre : lista_fcb' = [lista_fcb EXCEPT ![Fcb(p)].ini = b]
        BY <2>1 DEF BloqueInicial
      <3>2. b \in Posicion /\ Fcb(p) \in DOMAIN lista_fcb
        BY <3>1, PrimerLibre, TruncaCuadro DEF IInv
      <3> QED BY <3>1, <3>2, IniCambia DEF IInv
    <2>2. CASE Truncar(p) \/ BuscarLibre(p) \/ Anotar(p) \/ Seguir(p)
      BY <2>2 DEF Truncar, BuscarLibre, Anotar, Seguir, discoVars
    <2> QED BY <2>1, <2>2, NoQuita DEF PasoTruncar
  <1>5. contenido' = contenido
    BY <1>1, <1>2, <1>4, ContenidoQuieto DEF EnOrden
  <1> QED BY <1>2, <1>3, <1>5 DEF Quieto

\* The last one gives the file its size, and empty blocks if it changes it.
LEMMA FijarCumple ==
  ASSUME IInv, IInv', UnoTrunca, fuera = {}, fuera' = {}, NEW c, EnOrden(c), Datos(c),
         NEW p \in Procesos, NombresIguales, Fijar(p)
  PROVE  Contrato!Truncar(p)
  <1>0. PICK f, k, n, t : f = pedido[p].archivo /\ k = Fcb(p) /\ n = pedido[p].arg /\ t = lista_fcb[k].tam
    OBVIOUS
  <1>1. /\ p \in Truncados /\ UNCHANGED pedido /\ Reparto(c)
        /\ k \in DOMAIN lista_fcb /\ n \in 0 .. MaxBloques /\ t \in 0 .. MaxBloques
    BY <1>0, TruncaCuadro DEF PasoTruncar
  <1>2. /\ hilo[p].paso = "fijar" /\ pedido[p].op = "F_TRUNCATE"
        /\ lista_fcb' = [lista_fcb EXCEPT ![k].tam = n]
        /\ UNCHANGED <<fat, bloques, pagina>> /\ Hace(p, "existe")
    BY <1>0, FijarHace DEF Fijar, memoriaVars
  <1>3. /\ DOMAIN lista_fcb' = DOMAIN lista_fcb /\ lista_fcb'[k].tam = n
        /\ \A j \in DOMAIN lista_fcb : j # k => lista_fcb'[j] = lista_fcb[j]
    BY <1>1, <1>2, TamCambia DEF IInv
  <1>4. hecho[p] = "no" /\ EnOrden(c)'
    BY TruncaHecho, FijarOrden DEF PasoTruncar
  <1>5. pedido[p] # SinPedido /\ f \in Archivos
    <2>1. pedido[p] # SinPedido
      BY <1>2 DEF IInv, Lugar, Orden
    <2> QED BY <1>0, <2>1 DEF IInv, Tipo, TipoKernel, Pedidos
  <1>6. Existe(f) /\ Existe(f)' /\ k = conseguir_id_fcb(f) /\ k = conseguir_id_fcb(f)'
    <2>1. Existe(f)
      BY <1>0, <1>2 DEF IInv, Lugar, Abiertos
    <2> QED BY <1>0, <2>1, NombresQuietos DEF Fcb
  <1>7. contenido[f] = [largo |-> t, bloques |-> [i \in 1 .. Mitad(t) |-> bloques[c[k][i]]]]
    <2>1. \A j : j = conseguir_id_fcb(f) =>
            contenido[f] = [largo |-> lista_fcb[j].tam, bloques |->
                              [i \in 1 .. Mitad(lista_fcb[j].tam) |-> bloques[c[j][i]]]]
      BY <1>1, <1>5, <1>6, GuardaDe
    <2> QED BY <1>0, <1>6, <2>1
  <1>8. contenido'[f] = [largo |-> n, bloques |-> [i \in 1 .. Mitad(n) |-> bloques[c[k][i]]]]
    <2>1. contenido'[f] = [largo |-> lista_fcb'[k].tam, bloques |->
                             [i \in 1 .. Mitad(lista_fcb'[k].tam) |-> bloques'[c[k][i]]]]
      BY <1>4, <1>5, <1>6, GuardaDeLuego DEF EnOrden
    <2> QED BY <1>2, <1>3, <2>1
  <1>9. ASSUME n # t PROVE \A i \in 1 .. Mitad(n) : bloques[c[k][i]] = Basura
    <2>1. CASE n = 0
      <3>1. Mitad(0) = 0
        BY DEF Mitad
      <3> QED BY <2>1, <3>1
    <2>2. CASE n # 0
      <3>1. Vacio(p, c)
        BY <1>0, <1>1, <1>2, <1>9, <2>2 DEF Datos, Nuevos, Creciendo
      <3>2. Mitad(n) <= Len(c[k])
        BY <1>1, <1>3, <1>4 DEF EnOrden, Reparto, EsCadena
      <3>3. Mitad(n) \in Nat /\ Len(c[k]) \in Nat
        BY <1>1, MitadEs, MitadDe
      <3>4. \A i \in 1 .. Mitad(n) : i \in 1 .. Len(c[k])
        BY <3>2, <3>3
      <3> QED BY <1>0, <3>1, <3>4 DEF Vacio
    <2> QED BY <2>1, <2>2
  <1>10. contenido'[f] = IF n = contenido[f].largo THEN contenido[f]
                         ELSE [largo |-> n, bloques |-> [i \in 1 .. Mitad(n) |-> Basura]]
    <2>1. CASE n = t
      BY <1>7, <1>8, <2>1
    <2>2. CASE n # t
      <3>1. [i \in 1 .. Mitad(n) |-> bloques[c[k][i]]] = [i \in 1 .. Mitad(n) |-> Basura]
        BY <1>9, <2>2
      <3>2. contenido'[f] = [largo |-> n, bloques |-> [i \in 1 .. Mitad(n) |-> Basura]]
        BY ONLY <1>8, <3>1
      <3>3. contenido[f].largo = t
        BY ONLY <1>7
      <3> QED BY ONLY <2>2, <3>2, <3>3
    <2> QED BY <2>1, <2>2
  <1>11. ASSUME NEW g \in Archivos, g # f PROVE contenido'[g] = contenido[g]
    <2>1. PICK j : j = conseguir_id_fcb(g)
      OBVIOUS
    <2>2. j = conseguir_id_fcb(g)' /\ (Existe(g)' <=> Existe(g))
      BY <2>1, NombresQuietos
    <2>3. Existe(g) => j \in DOMAIN lista_fcb /\ j # k
      <3>1. lista_fcb \in Seq(Fcbs) /\ lista_fcb[k].nombre = f
        BY <1>6, IdFcb DEF IInv, Tipo, TipoDisco
      <3>2. Existe(g) => j \in DOMAIN lista_fcb /\ lista_fcb[j].nombre = g
        BY <2>1, <3>1, IdFcb
      <3> QED BY <1>11, <3>1, <3>2
    <2> QED BY <1>1, <1>2, <1>3, <1>4, <2>1, <2>2, <2>3, CreceIgual, ArchivoQuieto DEF EnOrden
  <1>12. contenido' = [contenido EXCEPT ![f] = contenido'[f]]
    BY <1>5, <1>11, ContenidoTipo
  <1>13. contenido' = [contenido EXCEPT ![f] = IF n = @.largo THEN @
                         ELSE [largo |-> n, bloques |-> [i \in 1 .. Mitad(n) |-> Basura]]]
    BY <1>5, <1>10, <1>12, ContenidoTipo
  <1> QED BY <1>0, <1>1, <1>2, <1>4, <1>5, <1>13
          DEF Contrato!Truncar, Contrato!Hecho, Contrato!SinPedido, Contrato!Mitad, Mitad, SinPedido, Hace

\* The steps of a reader or a writer before its last one are not seen.
LEMMA AccesoQuieto ==
  ASSUME IInv, UnoPorMemoria, Correo, NEW c, EnOrden(c), Datos(c), NEW p \in Procesos,
         \/ PedirMemoria(p) \/ RecibirCodigo(p) \/ RecibirBuffer(p) \/ Ubicar(p) \/ Caminar(p) \/ Leer(p)
  PROVE  Quieto
  <1>1. UNCHANGED <<lista_fcb, fat, bloques, pedido, pagina>>
    <2>1. CASE PedirMemoria(p) \/ RecibirCodigo(p) \/ RecibirBuffer(p)
      BY <2>1 DEF PedirMemoria, RecibirCodigo, RecibirBuffer, En, discoVars, kernelVars
    <2>2. CASE Ubicar(p) \/ Caminar(p) \/ Leer(p)
      BY <2>2 DEF Ubicar, Caminar, Leer, En, discoVars, kernelVars, memoriaVars
    <2> QED BY <2>1, <2>2
  <1>2. CASE RecibirCodigo(p)
    BY <1>1, <1>2, RecibirCodigoDatos, ContenidoIgual DEF Quieto
  <1>3. CASE ~RecibirCodigo(p)
    <2>1. UNCHANGED hecho
      BY <1>3 DEF PedirMemoria, RecibirBuffer, Ubicar, Caminar, Leer
    <2> QED BY <1>1, <2>1, ContenidoIgual DEF Quieto
  <1> QED BY <1>2, <1>3

\* The block of a request, and that no other file has it.
LEMMA BloqueDe ==
  ASSUME IInv, UnoPorMemoria, Correo, NEW c, EnOrden(c), Datos(c), NEW p \in Procesos,
         pedido[p].op \in OpsMem, NEW f, NEW k, NEW n, f = pedido[p].archivo, k = Fcb(p), n = pedido[p].arg
  PROVE  /\ pedido[p] # SinPedido /\ f \in Archivos /\ Existe(f) /\ k = conseguir_id_fcb(f)
         /\ k \in DOMAIN lista_fcb /\ n \in Nat /\ n < Len(c[k])
         /\ contenido[f] = [largo |-> lista_fcb[k].tam, bloques |->
                              [i \in 1 .. Mitad(lista_fcb[k].tam) |-> bloques[c[k][i]]]]
         /\ c[k][n + 1] \in Posicion
         /\ \A j \in DOMAIN lista_fcb : \A i \in 1 .. Mitad(lista_fcb[j].tam) :
              /\ i \in 1 .. Len(c[j]) /\ c[j][i] \in Posicion
              /\ c[j][i] = c[k][n + 1] => j = k /\ i = n + 1
  <1>1. pedido[p] # SinPedido /\ f \in Archivos /\ Existe(f) /\ k = conseguir_id_fcb(f)
    <2>1. Existe(f)
      BY DEF IInv, Lugar, Abiertos
    <2>2. pedido[p] # SinPedido
      BY DEF SinPedido, OpsMem
    <2> QED BY <2>1, <2>2 DEF IInv, Tipo, TipoKernel, Pedidos, Fcb
  <1>2. k \in DOMAIN lista_fcb /\ k \in DOMAIN c /\ n \in Nat /\ n < Len(c[k]) /\ Len(c[k]) \in Nat
    BY AccesoCuadro
  <1>3. contenido[f] = [largo |-> lista_fcb[k].tam, bloques |->
                          [i \in 1 .. Mitad(lista_fcb[k].tam) |-> bloques[c[k][i]]]]
    <2>1. \A j : j = conseguir_id_fcb(f) =>
            contenido[f] = [largo |-> lista_fcb[j].tam, bloques |->
                              [i \in 1 .. Mitad(lista_fcb[j].tam) |-> bloques[c[j][i]]]]
      BY <1>1, GuardaDe DEF EnOrden
    <2> QED BY <1>1, <2>1
  <1>4. n + 1 \in 1 .. Len(c[k])
    BY <1>2
  <1>5. c[k][n + 1] \in Posicion
    <2>1. \A i \in 1 .. Len(c[k]) : c[k][i] \in Posicion
      BY AccesoCuadro
    <2> QED BY <1>4, <2>1
  <1>6. ASSUME NEW j \in DOMAIN lista_fcb, NEW i \in 1 .. Mitad(lista_fcb[j].tam)
        PROVE  /\ i \in 1 .. Len(c[j]) /\ c[j][i] \in Posicion
               /\ c[j][i] = c[k][n + 1] => j = k /\ i = n + 1
    <2>1. i \in 1 .. Len(c[j])
      BY MitadDe DEF EnOrden
    <2>2. c[j][i] \in Posicion
      BY <2>1, RepartoTipo DEF EnOrden
    <2>3. j \in DOMAIN c /\ Disjuntas(c)
      BY DEF EnOrden, Reparto
    <2> QED BY <1>2, <1>4, <2>1, <2>2, <2>3 DEF Disjuntas
  <1> QED BY <1>1, <1>2, <1>3, <1>5, <1>6

\* An F_WRITE changes one block of its file, or none the file owns.
LEMMA EscribirCumple ==
  ASSUME IInv, IInv', UnoPorMemoria, Correo, fuera = {}, fuera' = {}, NEW c, EnOrden(c), Datos(c),
         NEW p \in Procesos, Escribir(p)
  PROVE  Contrato!Escribir(p)
  <1>0. PICK f, k, n : f = pedido[p].archivo /\ k = Fcb(p) /\ n = pedido[p].arg
    OBVIOUS
  <1>1. /\ hecho[p] = "no" /\ Hace(p, "existe") /\ pedido[p].op = "F_WRITE" /\ pedido[p].op \in OpsMem
        /\ UNCHANGED <<lista_fcb, fat, pedido, pagina>>
        /\ bloques' = [bloques EXCEPT ![c[k][n + 1]] = pagina[p]]
    BY <1>0, EscribirDatos DEF OpsMem
  <1>2. PICK b, m, w, t : b = c[k][n + 1] /\ m = Mitad(lista_fcb[k].tam) /\ w = pagina[p] /\ t = lista_fcb[k].tam
    OBVIOUS
  <1>3. /\ pedido[p] # SinPedido /\ f \in Archivos /\ Existe(f) /\ k = conseguir_id_fcb(f)
        /\ k \in DOMAIN lista_fcb /\ n \in Nat
        /\ contenido[f] = [largo |-> t, bloques |-> [i \in 1 .. m |-> bloques[c[k][i]]]]
        /\ b \in Posicion
        /\ \A j \in DOMAIN lista_fcb : \A i \in 1 .. Mitad(lista_fcb[j].tam) :
             /\ c[j][i] \in Posicion
             /\ c[j][i] = b => j = k /\ i = n + 1
    <2> HIDE DEF Fcb
    <2> QED BY <1>0, <1>1, <1>2, BloqueDe
  <1>4. bloques \in [Posicion -> Palabras] /\ bloques' = [bloques EXCEPT ![b] = w]
    BY <1>1, <1>2 DEF IInv, Tipo, TipoDisco
  <1>5. EnOrden(c)' /\ NombresIguales /\ Crece(c, c)
    BY <1>1, AccesoOrden, CreceIgual DEF NombresIguales, EnOrden
  <1>6. ASSUME NEW g \in Archivos, g # f PROVE contenido'[g] = contenido[g]
    <2>1. PICK j : j = conseguir_id_fcb(g)
      OBVIOUS
    <2>2. j = conseguir_id_fcb(g)' /\ (Existe(g)' <=> Existe(g))
      BY <1>5, <2>1, NombresQuietos
    <2>3. Existe(g) => j \in DOMAIN lista_fcb /\ j # k
      <3>1. lista_fcb \in Seq(Fcbs) /\ lista_fcb[k].nombre = f
        BY <1>3, IdFcb DEF IInv, Tipo, TipoDisco
      <3>2. Existe(g) => j \in DOMAIN lista_fcb /\ lista_fcb[j].nombre = g
        BY <2>1, <3>1, IdFcb
      <3> QED BY <1>6, <3>1, <3>2
    <2>4. Existe(g) => \A i \in 1 .. Mitad(lista_fcb[j].tam) : bloques'[c[j][i]] = bloques[c[j][i]]
      BY <1>3, <1>4, <2>3
    <2>5. UNCHANGED lista_fcb /\ Reparto(c) /\ Reparto(c)'
      BY <1>1, <1>5 DEF EnOrden
    <2>6. CASE ~Existe(g)
      BY <2>2, <2>5, <2>6, GuardaDe, GuardaDeLuego
    <2>7. CASE Existe(g)
      <3>1. \A i \in 1 .. Mitad(lista_fcb[j].tam) : bloques'[c[j][i]] = bloques[c[j][i]]
        BY <2>4, <2>7
      <3>2. PICK h : h = lista_fcb[j].tam
        OBVIOUS
      <3>3. contenido[g] = [largo |-> h, bloques |-> [i \in 1 .. Mitad(h) |-> bloques[c[j][i]]]]
        <4>1. \A l : l = conseguir_id_fcb(g) =>
                 contenido[g] = [largo |-> lista_fcb[l].tam, bloques |->
                                   [i \in 1 .. Mitad(lista_fcb[l].tam) |-> bloques[c[l][i]]]]
          BY <2>5, <2>7, GuardaDe
        <4> QED BY <2>1, <3>2, <4>1
      <3>4. contenido'[g] = [largo |-> h, bloques |-> [i \in 1 .. Mitad(h) |-> bloques'[c[j][i]]]]
        <4>1. contenido'[g] = [largo |-> lista_fcb'[j].tam, bloques |->
                                 [i \in 1 .. Mitad(lista_fcb'[j].tam) |-> bloques'[c[j][i]]]]
          BY <2>2, <2>5, <2>7, GuardaDeLuego
        <4> QED BY <2>5, <3>2, <4>1
      <3> QED BY <3>1, <3>2, <3>3, <3>4
    <2> QED BY <2>6, <2>7
  <1>7. contenido'[f] = [largo |-> t, bloques |-> [i \in 1 .. m |-> bloques'[c[k][i]]]]
    <2>1. Existe(f)' /\ k = conseguir_id_fcb(f)'
      BY <1>3, <1>5, NombresQuietos
    <2>2. contenido'[f] = [largo |-> lista_fcb'[k].tam, bloques |->
                             [i \in 1 .. Mitad(lista_fcb'[k].tam) |-> bloques'[c[k][i]]]]
      BY <1>3, <1>5, <2>1, GuardaDeLuego DEF EnOrden
    <2> QED BY <1>1, <1>2, <2>2
  <1>8. [i \in 1 .. m |-> bloques'[c[k][i]]] = [[i \in 1 .. m |-> bloques[c[k][i]]] EXCEPT ![n + 1] = w]
    <2>1. ASSUME NEW i \in 1 .. m PROVE bloques'[c[k][i]] = IF i = n + 1 THEN w ELSE bloques[c[k][i]]
      <3>1. c[k][i] \in Posicion /\ (c[k][i] = b => i = n + 1) /\ (i = n + 1 => c[k][i] = b)
        BY <1>2, <1>3
      <3> QED BY ONLY <1>4, <3>1, <1>3
    <2> QED BY <2>1
  <1>9. contenido'[f] = [contenido[f] EXCEPT !.bloques = [@ EXCEPT ![n + 1] = w]]
    <2>1. PICK x, y : x = [i \in 1 .. m |-> bloques[c[k][i]]] /\ y = [i \in 1 .. m |-> bloques'[c[k][i]]]
      OBVIOUS
    <2>2. contenido[f] = [largo |-> t, bloques |-> x] /\ contenido'[f] = [largo |-> t, bloques |-> y]
      BY <1>3, <1>7, <2>1
    <2>3. y = [x EXCEPT ![n + 1] = w]
      BY <1>8, <2>1
    <2> QED BY ONLY <2>2, <2>3
  <1>10. contenido' = [contenido EXCEPT ![f] = contenido'[f]]
    BY <1>3, <1>6, ContenidoTipo
  <1>11. contenido' = [contenido EXCEPT ![f].bloques[n + 1] = w]
    BY <1>9, <1>10
  <1> QED BY <1>0, <1>1, <1>2, <1>3, <1>11
          DEF Contrato!Escribir, Contrato!Hecho, Contrato!SinPedido, SinPedido, Hace

\* Memoria stores the block of an F_READ in the page, or answers an F_WRITE.
LEMMA ServirCumple ==
  ASSUME IInv, UnoPorMemoria, Correo, fuera = {}, fuera' = {}, NEW c, EnOrden(c), Datos(c), Servir
  PROVE  Quieto \/ \E p \in Procesos : Contrato!Leer(p)
  <1>1. /\ UNCHANGED <<lista_fcb, fat, bloques, pedido>>
        /\ \/ UNCHANGED <<pagina, hecho>>
           \/ \E p \in Procesos : \A k, n : k = Fcb(p) /\ n = pedido[p].arg =>
                /\ pedido[p].op = "F_READ" /\ hecho[p] = "no" /\ Hace(p, "existe")
                /\ pagina' = [pagina EXCEPT ![p] = bloques[c[k][n + 1]]]
    BY ServirDatos
  <1>2. contenido' = contenido
    BY <1>1, ContenidoIgual
  <1>3. CASE UNCHANGED <<pagina, hecho>>
    BY <1>1, <1>2, <1>3 DEF Quieto
  <1>4. ASSUME NEW p \in Procesos, NEW f, NEW k, NEW n, f = pedido[p].archivo, k = Fcb(p), n = pedido[p].arg,
               pedido[p].op = "F_READ", hecho[p] = "no", Hace(p, "existe"),
               pagina' = [pagina EXCEPT ![p] = bloques[c[k][n + 1]]]
        PROVE  Contrato!Leer(p)
    <2>1. PICK w : w = bloques[c[k][n + 1]]
      OBVIOUS
    <2>2. PICK t, x : t = lista_fcb[k].tam /\ x = [i \in 1 .. Mitad(t) |-> bloques[c[k][i]]]
      OBVIOUS
    <2>3. /\ pedido[p] # SinPedido /\ contenido[f] = [largo |-> t, bloques |-> x]
          /\ c[k][n + 1] \in Posicion
      <3>1. pedido[p].op \in OpsMem
        BY <1>4 DEF OpsMem
      <3>2. /\ pedido[p] # SinPedido
            /\ contenido[f] = [largo |-> lista_fcb[k].tam, bloques |->
                                 [i \in 1 .. Mitad(lista_fcb[k].tam) |-> bloques[c[k][i]]]]
            /\ c[k][n + 1] \in Posicion
        <4> HIDE DEF Fcb
        <4> QED BY <1>4, <3>1, BloqueDe
      <3> QED BY <2>2, <3>2
    <2>4. w \in Palabras
      BY <2>1, <2>3 DEF IInv, Tipo, TipoDisco
    <2>5. n + 1 \in DOMAIN contenido[f].bloques => w = contenido[f].bloques[n + 1]
      BY <2>1, <2>2, <2>3
    <2>6. pagina' = [pagina EXCEPT ![p] = w]
      BY <1>4, <2>1
    <2>7. pedido[p].archivo = f /\ pedido[p].arg = n /\ pedido[p].op = "F_READ" /\ hecho[p] = "no" /\ Hace(p, "existe")
      BY <1>4
    <2> QED BY <1>1, <1>2, <2>3, <2>4, <2>5, <2>6, <2>7
            DEF Contrato!Leer, Contrato!Hecho, Contrato!SinPedido, SinPedido, Hace
  <1>5. CASE \E p \in Procesos : \A k, n : k = Fcb(p) /\ n = pedido[p].arg =>
               /\ pedido[p].op = "F_READ" /\ hecho[p] = "no" /\ Hace(p, "existe")
               /\ pagina' = [pagina EXCEPT ![p] = bloques[c[k][n + 1]]]
    <2>1. PICK p \in Procesos : \A k, n : k = Fcb(p) /\ n = pedido[p].arg =>
               /\ pedido[p].op = "F_READ" /\ hecho[p] = "no" /\ Hace(p, "existe")
               /\ pagina' = [pagina EXCEPT ![p] = bloques[c[k][n + 1]]]
      BY <1>5
    <2>2. PICK f, k, n : f = pedido[p].archivo /\ k = Fcb(p) /\ n = pedido[p].arg
      OBVIOUS
    <2> QED BY <1>4, <2>1, <2>2
  <1> QED BY <1>1, <1>3, <1>5

\* Each step of the filesystem, inside the contract, is a step of the store or is not seen.
LEMMA PasoCumple ==
  ASSUME IInv, IInv', SinFinal, Cadenas, Socket, Almacenado, Next, fuera' = {}
  PROVE  Contrato!Cumplir \/ Quieto
  <1>1. fuera = {} /\ UnoTrunca /\ FatSana /\ HilosSanos /\ UnoPorMemoria /\ Correo
    BY EnContratoHay
  <1>2. PICK c : EnOrden(c) /\ Datos(c)
    BY EnContratoHay
  <1>3. CASE Servir
    BY <1>1, <1>2, <1>3, ServirCumple DEF Contrato!Cumplir
  <1>4. ASSUME Programas PROVE Contrato!Cumplir
    <2>1. PICK p \in Procesos, f \in Archivos :
            \/ PedirAbrir(p, f)
            \/ \E op \in OpsMem \cup {"F_TRUNCATE"}, n \in 0 .. MaxBloques : Pedir(p, op, f, n)
      BY <1>4, ProgramasSon
    <2>2. CASE PedirAbrir(p, f)
      <3>1. 0 \in 0 .. MaxBloques
        BY Medidas
      <3> QED BY <1>1, <2>2, <3>1, PedirAbreCumple DEF Contrato!Cumplir
    <2>3. CASE \E op \in OpsMem \cup {"F_TRUNCATE"}, n \in 0 .. MaxBloques : Pedir(p, op, f, n)
      <3>1. PICK op \in OpsMem \cup {"F_TRUNCATE"}, n \in 0 .. MaxBloques : Pedir(p, op, f, n)
        BY <2>3
      <3>2. Contrato!Pedir(p, op, f, n)
        BY <1>1, <1>2, <3>1, PedirCumple
      <3> QED BY <3>2 DEF Contrato!Cumplir, OpsMem
    <2> QED BY <2>1, <2>2, <2>3
  <1>5. ASSUME NEW p \in Procesos, Hilo(p) PROVE Contrato!Cumplir \/ Quieto
    <2>1. CASE \E q \in Procesos : Crear(q)
      BY <1>1, <1>2, <2>1, CrearCumple DEF Contrato!Cumplir
    <2>2. CASE PedirCrear(p)
      <3>1. 0 \in 0 .. MaxBloques
        BY Medidas
      <3>2. kernel.archivo \in Archivos /\ Contrato!Pedir(p, "F_CREATE", kernel.archivo, 0)
        BY <1>1, <2>2, PedirCreaCumple
      <3> QED BY <3>1, <3>2 DEF Contrato!Cumplir
    <2>3. CASE Responder(p) \/ Abrir(p) \/ Escribir(p)
      BY <1>1, <1>2, <2>3, ResponderCumple, AbrirCumple, EscribirCumple DEF Contrato!Cumplir
    <2>4. CASE PedirMemoria(p) \/ RecibirCodigo(p) \/ RecibirBuffer(p) \/ Ubicar(p) \/ Caminar(p) \/ Leer(p)
      BY <1>1, <1>2, <2>4, AccesoQuieto
    <2>5. CASE PasoTruncar(p) /\ \A q \in Procesos : ~Crear(q)
      <3>1. NombresIguales
        BY <2>5, NombresSiguen
      <3>2. CASE Fijar(p)
        BY <1>1, <1>2, <3>1, <3>2, FijarCumple DEF Contrato!Cumplir
      <3>3. CASE ~Fijar(p)
        BY <1>1, <1>2, <2>5, <3>1, <3>3, TruncaQuieto
      <3> QED BY <3>2, <3>3
    <2> QED BY <1>5, <2>1, <2>2, <2>3, <2>4, <2>5 DEF Hilo, PasoTruncar
  <1> QED BY <1>3, <1>4, <1>5 DEF Next

\* While the use keeps to the contract every file is an array of blocks: an F_READ gives what the
\* last F_WRITE of that block left, an F_TRUNCATE empties, an F_OPEN tells which files exist, and
\* each answer is for something that was done once, between the request and the answer.
THEOREM EsUnAlmacenSiempre == Spec => EsUnAlmacen
  <1>1. Init => Contrato!Init
    <2> SUFFICES ASSUME Init PROVE Contrato!Init
      OBVIOUS
    <2>1. contenido = [f \in Archivos |-> NoExiste]
      BY DEF Init, contenido, conseguir_id_fcb
    <2> QED BY <2>1 DEF Contrato!Init, Init, SinPedido, Contrato!SinPedido
  <1>2. IInv /\ IInv' /\ SinFinal /\ Cadenas /\ Socket /\ Almacenado /\ [Next]_vars
          => [Contrato!Next]_(Contrato!almacenVars)
    <2> SUFFICES ASSUME IInv, IInv', SinFinal, Cadenas, Socket, Almacenado, [Next]_vars
                 PROVE  [Contrato!Next]_(Contrato!almacenVars)
      OBVIOUS
    <2>1. CASE UNCHANGED vars
      <3>1. contenido' = contenido
        BY <2>1, ContenidoIgual DEF vars
      <3> QED BY <2>1, <3>1 DEF vars, Contrato!almacenVars
    <2>2. CASE Next /\ fuera' # {}
      BY <2>2 DEF Contrato!Next
    <2>3. CASE Next /\ fuera' = {}
      <3>1. fuera = {}
        BY <2>3, EnContratoHay
      <3>2. Contrato!Cumplir \/ Quieto
        BY <2>3, PasoCumple
      <3>3. CASE Contrato!Cumplir
        BY <2>3, <3>1, <3>3 DEF Contrato!Next
      <3>4. CASE Quieto
        BY <2>3, <3>1, <3>4 DEF Quieto, Contrato!almacenVars
      <3> QED BY <3>2, <3>3, <3>4
    <2> QED BY <2>1, <2>2, <2>3
  <1> QED BY <1>1, <1>2, Invariante, SinFinalSiempre, CadenasSiempre, SocketSiempre, AlmacenadoSiempre, PTL
          DEF EsUnAlmacen, Contrato!Spec, Spec
=============================================================================
