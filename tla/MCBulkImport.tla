----------------------------- MODULE MCBulkImport -----------------------------
(* Model checking of BulkImport: what sums over the batches of a run.      *)
EXTENDS BulkImport, FiniteSetsExt

InsertedInRun == MapThenSumSet(LAMBDA b : stored[run][b], Batches)

(* "Inserted {0} docs": the overall summary of a run that finished counts  *)
(* documents that were inserted.                                           *)
ReportedWasInserted ==
  pc = "done" /\ ~config.onFinish => total <= InsertedInRun
===============================================================================
