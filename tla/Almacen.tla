------------------------------- MODULE Almacen -------------------------------
(***************************************************************************)
(* What the filesystem promises to the processes that use it, without      *)
(* FCBs, FAT, blocks, threads or sockets: an array of blocks per file.     *)
(*                                                                         *)
(* A file truncated to n blocks keeps only the first Mitad(n) of them      *)
(* apart from every other file (asignar_bloques uses up one block for every *)
(* two it is asked for), so those are the ones the store has.  The promise *)
(* holds while the use keeps to a contract: `vale' says whether it does,   *)
(* and once it is FALSE nothing is promised any more.                      *)
(***************************************************************************)
EXTENDS Naturals, Sequences

CONSTANTS
  Procesos,   \* who asks
  Archivos,   \* file names
  Palabras,   \* what a block or a buffer can hold
  Basura,     \* what a block holds before anybody writes it
  NoExiste,   \* the contents of a name that was never created
  MaxBloques  \* the largest file, in blocks

VARIABLES
  contenido,  \* by file: NoExiste, or its length and its usable blocks
  pedido,     \* the request each process waits for
  hecho,      \* "no", or what the request gave when it took effect
  pagina,     \* the word in the process's buffer, in memory
  vale        \* whether the use has kept to the contract

almacenVars == <<contenido, pedido, hecho, pagina, vale>>

Mitad(n)  == (n + 1) \div 2
SinPedido == [op |-> "ninguna"]
Existe(f) == contenido[f] # NoExiste

Init ==
  /\ contenido = [f \in Archivos |-> NoExiste]
  /\ pedido = [p \in Procesos |-> SinPedido]
  /\ hecho = [p \in Procesos |-> "no"]
  /\ pagina = [p \in Procesos |-> Basura]
  /\ vale = TRUE

\* A process asks for something; its program fills the buffer before an F_WRITE.
Pedir(p, op, f, n) ==
  /\ pedido[p] = SinPedido
  /\ pedido' = [pedido EXCEPT ![p] = [op |-> op, archivo |-> f, arg |-> n]]
  /\ op \in {"F_WRITE", "F_READ"} => n < Len(contenido[f].bloques)
  /\ \/ op = "F_WRITE" /\ \E w \in Palabras : pagina' = [pagina EXCEPT ![p] = w]
     \/ op # "F_WRITE" /\ UNCHANGED pagina
  /\ UNCHANGED <<contenido, hecho>>

Hecho(p, resultado) ==
  /\ pedido[p] # SinPedido /\ hecho[p] = "no"
  /\ hecho' = [hecho EXCEPT ![p] = resultado]
  /\ UNCHANGED pedido

Abrir(p) ==
  /\ pedido[p].op = "F_OPEN"
  /\ Hecho(p, IF Existe(pedido[p].archivo) THEN "existe" ELSE "no existe")
  /\ UNCHANGED <<contenido, pagina>>

Crear(p) ==
  /\ pedido[p].op = "F_CREATE"
  /\ Hecho(p, "existe")
  /\ ~Existe(pedido[p].archivo)
  /\ contenido' = [contenido EXCEPT ![pedido[p].archivo] = [largo |-> 0, bloques |-> <<>>]]
  /\ UNCHANGED pagina

Truncar(p) ==
  /\ pedido[p].op = "F_TRUNCATE"
  /\ Hecho(p, "existe")
  /\ LET n == pedido[p].arg IN
       contenido' = [contenido EXCEPT ![pedido[p].archivo] =
         IF n = @.largo THEN @
         ELSE [largo |-> n, bloques |-> [i \in 1 .. Mitad(n) |-> Basura]]]
  /\ UNCHANGED pagina

Escribir(p) ==
  /\ pedido[p].op = "F_WRITE"
  /\ Hecho(p, "existe")
  /\ contenido' =
       [contenido EXCEPT ![pedido[p].archivo].bloques[pedido[p].arg + 1] = pagina[p]]
  /\ UNCHANGED pagina

\* What the block holds; anything, if the file was truncated to nothing meanwhile.
Leer(p) ==
  /\ pedido[p].op = "F_READ"
  /\ Hecho(p, "existe")
  /\ LET n == pedido[p].arg + 1  guardado == contenido[pedido[p].archivo].bloques IN
       \E w \in Palabras :
         /\ n \in DOMAIN guardado => w = guardado[n]
         /\ pagina' = [pagina EXCEPT ![p] = w]
  /\ UNCHANGED contenido

\* The answer, only for what was done.
Responder(p) ==
  /\ pedido[p] # SinPedido /\ hecho[p] # "no"
  /\ pedido' = [pedido EXCEPT ![p] = SinPedido]
  /\ hecho' = [hecho EXCEPT ![p] = "no"]
  /\ UNCHANGED <<contenido, pagina>>

Cumplir ==
  \E p \in Procesos :
    \/ \E op \in {"F_OPEN", "F_CREATE", "F_TRUNCATE", "F_WRITE", "F_READ"},
         f \in Archivos, n \in 0 .. MaxBloques : Pedir(p, op, f, n)
    \/ Abrir(p) \/ Crear(p) \/ Truncar(p) \/ Escribir(p) \/ Leer(p)
    \/ Responder(p)

Next == (vale /\ vale' /\ Cumplir) \/ ~vale'

Spec == Init /\ [][Next]_almacenVars
=============================================================================
