----------------------------- MODULE MCImports -----------------------------
(* Instance of Imports for TLC.                                            *)
EXTENDS Imports

CONSTANTS w1, w2, art

Story == [hash |-> 1, name |-> 1, uuid |-> 1, art |-> art]
SameUuid == [hash |-> 2, name |-> 1, uuid |-> 1, art |-> NoArt]

TwoWorkers == {w1, w2}
Picked == {Story, SameUuid}

=============================================================================
