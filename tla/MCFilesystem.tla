---------------------------- MODULE MCFilesystem ----------------------------
(* Two processes and two files, one of them used by both. *)
EXTENDS Filesystem

CONSTANTS p1, p2
MCArchivos == {"a", "b"}
MCUsa      == (p1 :> {"a"}) @@ (p2 :> {"a", "b"})
=============================================================================
