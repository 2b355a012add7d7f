-------------------------- MODULE MCLibrarySession --------------------------
(* Two threads of the window, which may both ask for a move; an operation  *)
(* of two items.                                                           *)
EXTENDS LibrarySession

CONSTANTS t1, t2, o1

MCThreads == {t1, t2}
MCClients == {t1, t2, Artist}
MCOps == {o1}
MCItems == {1, 2}
=============================================================================
