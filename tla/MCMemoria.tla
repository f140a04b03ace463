----------------------------- MODULE MCMemoria -----------------------------
(* Two processes of few pages, with fewer frames than pages. *)
EXTENDS Memoria

MCUnaOTres == {2, 3}     \* of two bytes a page: one page, three pages
MCUnaODos  == {1, 2}     \* two pages, one page
MCMov      == {"MOV_IN", "MOV_OUT"}
MCArchivo  == {"MOV_IN", "F_READ", "F_WRITE"}
MCLectura  == {"F_READ"}
=============================================================================
