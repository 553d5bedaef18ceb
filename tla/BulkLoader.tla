------------------------------ MODULE BulkLoader ------------------------------
(***************************************************************************)
(* The serverless importer of nosql/: the durable orchestration BulkLoader *)
(* calls the activity BulkLoader_Batch once per batch, with retries, and   *)
(* awaits them all.  The durable task framework delivers an activity to a  *)
(* worker at least once: a message whose worker died or outlived the       *)
(* message's lock is delivered again, so that several executions of one    *)
(* attempt may run at the same time, and the outcome of an execution of an *)
(* attempt that has already been decided is thrown away.                   *)
(*                                                                         *)
(* An execution draws new document ids, so each adds up to DocsPerBatch    *)
(* documents of its own to the collection; how many is nowhere looked at,  *)
(* because BulkImportDocuments discards the response.  The executions of a *)
(* batch are therefore all that is kept of its documents.                  *)
(***************************************************************************)
EXTENDS Naturals, Sequences

CONSTANTS
  Instances,            \* orchestration instances that requests may start
  BatchSize,            \* setting BatchSize: how many batches (activities)
  MaxNumberOfAttempts,  \* setting MaxNumberOfAttempts
  MaxRepeats            \* bound: crashes and redeliveries per batch

ASSUME LoaderAssumption ==
  /\ BatchSize \in Nat
  /\ MaxNumberOfAttempts \in Nat \ {0}
  /\ MaxRepeats \in Nat

VARIABLES
  retryValid,  \* setting FirstRetrySeconds parses to a positive number
  status,      \* per instance: its runtime status
  phase,       \* per batch: what its CallActivityWithRetryAsync waits for
  attempt,     \* per batch: attempts scheduled so far
  executions,  \* per batch: the executions of the activity, oldest first
  repeats      \* per batch: crashes and redeliveries so far

vars == <<retryValid, status, phase, attempt, executions, repeats>>

Batches == 0..(BatchSize - 1)

Settled == {"succeeded", "failed"}
Phases  == {"unscheduled", "scheduled", "waiting"} \cup Settled
Execution == [attempt : 1..MaxNumberOfAttempts,
              state : {"live", "returned", "threw", "crashed"}]

PerTask(v) == [i \in Instances |-> [b \in Batches |-> v]]

Init ==
  /\ retryValid \in BOOLEAN
  /\ status = [i \in Instances |-> "none"]
  /\ phase = PerTask("unscheduled")
  /\ attempt = PerTask(0)
  /\ executions = PerTask(<<>>)
  /\ repeats = PerTask(0)

(* BulkLoader_HttpStart: every request starts an instance of its own.      *)
HttpStart(i) ==
  /\ status[i] = "none"
  /\ status' = [status EXCEPT ![i] = "pending"]
  /\ UNCHANGED <<retryValid, phase, attempt, executions, repeats>>

(* The first turn of RunOrchestrator schedules every activity; a setting   *)
(* that does not parse is 0, which RetryOptions refuses as an interval.    *)
FanOut(i) ==
  /\ status[i] = "pending"
  /\ IF retryValid
       THEN /\ status' = [status EXCEPT ![i] = "running"]
            /\ phase' = [phase EXCEPT ![i] = [b \in Batches |-> "scheduled"]]
            /\ attempt' = [attempt EXCEPT ![i] = [b \in Batches |-> 1]]
       ELSE /\ status' = [status EXCEPT ![i] = "failed"]
            /\ UNCHANGED <<phase, attempt>>
  /\ UNCHANGED <<retryValid, executions, repeats>>

(***************************************************************************)
(* Executions of BulkLoader_Batch.                                         *)
(***************************************************************************)
Live(i, b) == {e \in DOMAIN executions[i][b] : executions[i][b][e].state = "live"}

(* Nobody is executing the scheduled attempt.                              *)
Unattended(i, b) ==
  \A e \in Live(i, b) : executions[i][b][e].attempt # attempt[i][b]

Begin(i, b) ==
  /\ phase[i][b] = "scheduled"
  /\ executions' = [executions EXCEPT ![i][b] =
       Append(@, [attempt |-> attempt[i][b], state |-> "live"])]
  /\ UNCHANGED <<retryValid, status, phase, attempt>>

Deliver(i, b) ==
  /\ Unattended(i, b)
  /\ Begin(i, b)
  /\ UNCHANGED repeats

(* The lock on the message ran out while its worker was still busy.        *)
Redeliver(i, b) ==
  /\ ~Unattended(i, b)
  /\ repeats[i][b] < MaxRepeats
  /\ Begin(i, b)
  /\ repeats' = [repeats EXCEPT ![i][b] = @ + 1]

(* An execution ends.  One that imported only a part of its documents      *)
(* returns like one that imported them all.                                *)
End(i, b, e, how) ==
  /\ executions[i][b][e].state = "live"
  /\ executions' = [executions EXCEPT ![i][b][e].state = how]

(* The outcome of an execution decides its attempt if that is still open.  *)
DecidesAnyAttempt(i, b, e) == phase[i][b] \in {"scheduled", "waiting"}
Decides(i, b, e) ==
  /\ phase[i][b] = "scheduled"
  /\ executions[i][b][e].attempt = attempt[i][b]

Return(i, b, e) ==
  /\ End(i, b, e, "returned")
  /\ phase' = IF Decides(i, b, e) THEN [phase EXCEPT ![i][b] = "succeeded"] ELSE phase
  /\ UNCHANGED <<retryValid, status, attempt, repeats>>

(* An exception: retried after a delay while attempts are left.            *)
AttemptsLeft(i, b)     == attempt[i][b] < MaxNumberOfAttempts

Throw(i, b, e) ==
  /\ End(i, b, e, "threw")
  /\ phase' = IF Decides(i, b, e)
                THEN [phase EXCEPT ![i][b] =
                        IF AttemptsLeft(i, b) THEN "waiting" ELSE "failed"]
                ELSE phase
  /\ UNCHANGED <<retryValid, status, attempt, repeats>>

(* The worker dies: nothing is recorded and the message comes back.        *)
Crash(i, b, e) ==
  /\ repeats[i][b] < MaxRepeats
  /\ End(i, b, e, "crashed")
  /\ repeats' = [repeats EXCEPT ![i][b] = @ + 1]
  /\ UNCHANGED <<retryValid, status, phase, attempt>>

RetryUncounted(i, b) ==
  /\ phase[i][b] = "waiting"
  /\ phase' = [phase EXCEPT ![i][b] = "scheduled"]
  /\ UNCHANGED <<retryValid, status, attempt, executions, repeats>>

RetryTimer(i, b) ==
  /\ phase[i][b] = "waiting"
  /\ phase' = [phase EXCEPT ![i][b] = "scheduled"]
  /\ attempt' = [attempt EXCEPT ![i][b] = @ + 1]
  /\ UNCHANGED <<retryValid, status, executions, repeats>>

(* Task.WhenAll: returns true, or rethrows once every task has settled.    *)
AllInAny(i)     == \E b \in Batches : phase[i][b] \in Settled
AllInSuccess(i) == \A b \in Batches : phase[i][b] = "succeeded"
AllIn(i) == \A b \in Batches : phase[i][b] \in Settled

FanInTasks(i) ==
  /\ status[i] = "running"
  /\ AllIn(i)
  /\ status' = [status EXCEPT ![i] =
       IF \A b \in Batches : phase[i][b] = "succeeded" THEN "completed" ELSE "failed"]
  /\ UNCHANGED <<retryValid, phase, attempt, executions, repeats>>

Orchestrator(i) == FanOut(i) \/ FanInTasks(i) \/ \E b \in Batches : RetryTimer(i, b)

Worker(i, b) == \/ Deliver(i, b)
                \/ \E e \in DOMAIN executions[i][b] : Return(i, b, e) \/ Throw(i, b, e)

Next ==
  \E i \in Instances :
    \/ HttpStart(i)
    \/ Orchestrator(i)
    \/ \E b \in Batches :
         \/ Worker(i, b)
         \/ Redeliver(i, b)
         \/ \E e \in DOMAIN executions[i][b] : Crash(i, b, e)

Spec == Init /\ [][Next]_vars

(***************************************************************************)
(* The framework keeps delivering the messages it holds, so the turns of   *)
(* the orchestrator and the executions of the activity are weakly fair;    *)
(* requests, crashes and redeliveries need not happen.                     *)
(***************************************************************************)
FairSpec ==
  /\ Spec
  /\ \A i \in Instances : /\ WF_vars(Orchestrator(i))
                          /\ \A b \in Batches : WF_vars(Worker(i, b))

-------------------------------------------------------------------------------
TypeOK ==
  /\ retryValid \in BOOLEAN
  /\ status \in [Instances -> {"none", "pending", "running", "completed", "failed"}]
  /\ phase \in [Instances -> [Batches -> Phases]]
  /\ attempt \in [Instances -> [Batches -> 0..MaxNumberOfAttempts]]
  /\ executions \in [Instances -> [Batches -> Seq(Execution)]]
  /\ repeats \in [Instances -> [Batches -> 0..MaxRepeats]]

Ended(i, b, a, how) ==
  \E e \in DOMAIN executions[i][b] :
    executions[i][b][e].attempt = a /\ executions[i][b][e].state = how

(* A new attempt is scheduled only over a failure of the one before it,    *)
(* and a batch is given up only after every attempt the settings allow has *)
(* had an execution that threw: a late exception of an attempt that was    *)
(* already decided uses up no later one.  An orchestration that completed  *)
(* had an execution of the last attempt of every batch return.             *)
AttemptsFollowFailures ==
  \A i \in Instances, b \in Batches :
    /\ \A a \in 1..(attempt[i][b] - 1) : Ended(i, b, a, "threw")
    /\ phase[i][b] = "failed" => \A a \in 1..MaxNumberOfAttempts : Ended(i, b, a, "threw")
    /\ status[i] = "completed" => Ended(i, b, attempt[i][b], "returned")

(* Every execution of a batch beyond the first, and so every document that *)
(* is in the collection twice, is owed to an attempt that threw, to a      *)
(* crash or to a redelivery.                                               *)
RepeatsArePaidFor ==
  \A i \in Instances, b \in Batches :
    Len(executions[i][b]) <= attempt[i][b] + repeats[i][b]

(* The orchestration behaves like a fan-out of tasks that settle once.     *)
Outcome(p) == IF p \in Settled THEN p ELSE "open"

Abstract == INSTANCE FanIn WITH
  result <- [i \in Instances |-> [b \in Batches |-> Outcome(phase[i][b])]]

ImplementsFanIn == Abstract!Spec

(* A started orchestration ends, whatever throws, crashes or is repeated.  *)
OrchestrationEnds ==
  \A i \in Instances : status[i] = "pending" ~> status[i] \in {"completed", "failed"}
===============================================================================
