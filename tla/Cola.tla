--------------------------------- MODULE Cola ---------------------------------
(* The queue of those who wait for a file, each with the mode it asked for. *)
EXTENDS Integers, Sequences

\* Those of the queue that asked for the file in that mode, in the order they came.
\* (A recursive function, and not SelectSeq, of which nothing can be proved.)
Los(cola, modo) ==
  LET los[n \in 0 .. Len(cola)] ==
        IF n = 0 THEN <<>>
        ELSE IF cola[n].modo = modo THEN Append(los[n - 1], cola[n]) ELSE los[n - 1]
  IN  los[Len(cola)]
=============================================================================
