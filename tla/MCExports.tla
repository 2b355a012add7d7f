------------------------------ MODULE MCExports ------------------------------
(* Two exports of two stories whose files have the same name.               *)
EXTENDS Exports, TLC

CONSTANTS j1, j2, s1, s2, n1

TwoJobs == {j1, j2}
TwoStories == (j1 :> s1) @@ (j2 :> s2)
SameName == [j \in TwoJobs |-> n1]
============================================================================
