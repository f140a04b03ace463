----------------------------- MODULE MCArchivos -----------------------------
(* Three processes and one file. *)
EXTENDS Archivos


=============================================================================
