---------------------------- MODULE MCJobSession ----------------------------
(* Instances of JobSession.                                                *)
EXTENDS JobSession, TLC

CONSTANTS o1, o2, i1, i2, i3, w1, w2, coord, none

TwoWorkers == {w1, w2}
OneWorker == {w1}
WorkerSymmetry == Permutations(TwoWorkers)

(* Every store call but Finish.                                            *)
AllButFinish == Calls \ {"finish"}

(* An import of two archives.                                              *)
ImportOps == {o1}
ImportItems == {i1, i2}
ImportOpOf == [i \in ImportItems |-> o1]
ImportKind == [o \in ImportOps |-> "import"]
ImportPlanned == [i \in ImportItems |-> "pending"]

(* An export of one story, with one item its preflight already skipped.    *)
ExportOps == {o1}
ExportItems == {i1, i2}
ExportOpOf == [i \in ExportItems |-> o1]
ExportKind == [o \in ExportOps |-> "export"]
ExportPlanned == (i1 :> "pending") @@ (i2 :> "skipped")

(* One metadata refresh.                                                   *)
OneRefreshOps == {o1}
OneRefreshItems == {i1}
OneRefreshOpOf == (i1 :> o1)
OneRefreshKind == (o1 :> "metadata_sync")
OneRefreshPlanned == (i1 :> "pending")
============================================================================
