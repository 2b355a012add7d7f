---------------------------- MODULE MCWriterQueue ----------------------------
(* WriterQueue as the writer: one worker.  A barrier read is admitted like a*)
(* repair and runs like a read; the instance has no job of that kind.       *)
EXTENDS WriterQueue

CONSTANTS c1, c2, w1

TwoClients == {c1, c2}
OneWorker == {w1}
WriterKinds == {"transaction", "read", "repair"}
============================================================================
