-------------------------------- MODULE FanIn --------------------------------
(***************************************************************************)
(* What an orchestration that fans out one task per batch and awaits them  *)
(* all (Task.WhenAll) promises: a task settles once, the orchestration     *)
(* ends once, after every task has settled, and it succeeds exactly when   *)
(* all of them did.  An orchestration that is misconfigured fails before   *)
(* it has any task.                                                        *)
(***************************************************************************)
CONSTANTS Instances, Batches

VARIABLES
  status,  \* per instance: "none", "pending", "running", "completed" or "failed"
  result   \* per instance and batch: "open", "succeeded" or "failed"

vars == <<status, result>>

Init ==
  /\ status = [i \in Instances |-> "none"]
  /\ result = [i \in Instances |-> [b \in Batches |-> "open"]]

Start(i) ==
  /\ status[i] = "none"
  /\ status' = [status EXCEPT ![i] = "pending"]
  /\ UNCHANGED result

FanOut(i) ==
  /\ status[i] = "pending"
  /\ status' = [status EXCEPT ![i] = "running"]
  /\ UNCHANGED result

Reject(i) ==
  /\ status[i] = "pending"
  /\ status' = [status EXCEPT ![i] = "failed"]
  /\ UNCHANGED result

Settle(i, b) ==
  /\ status[i] = "running" /\ result[i][b] = "open"
  /\ \E r \in {"succeeded", "failed"} : result' = [result EXCEPT ![i][b] = r]
  /\ UNCHANGED status

Complete(i) ==
  /\ status[i] = "running"
  /\ \A b \in Batches : result[i][b] = "succeeded"
  /\ status' = [status EXCEPT ![i] = "completed"]
  /\ UNCHANGED result

Fail(i) ==
  /\ status[i] = "running"
  /\ \A b \in Batches : result[i][b] # "open"
  /\ \E b \in Batches : result[i][b] = "failed"
  /\ status' = [status EXCEPT ![i] = "failed"]
  /\ UNCHANGED result

Next == \E i \in Instances :
          \/ Start(i) \/ FanOut(i) \/ Reject(i) \/ Complete(i) \/ Fail(i)
          \/ \E b \in Batches : Settle(i, b)

Spec == Init /\ [][Next]_vars
===============================================================================
