---------------------------- MODULE MCRelocation ----------------------------
(* Relocation with two folders and one managed file beside the identity.   *)
EXTENDS Relocation, TLC

CONSTANTS r1, r2, d1

TwoRoots == {r1, r2}
OneFile == {d1}
OneVersion == {"original"}
TwoVersions == {"original", "edited"}
============================================================================
