--------------------------- MODULE BulkLoaderProofs ---------------------------
(***************************************************************************)
(* Proofs about the serverless importer, for any number of orchestrations, *)
(* batches, attempts, crashes and redeliveries: its types, what attempts   *)
(* and repeated executions owe their existence to, and that it implements  *)
(* the fan-out of FanIn.                                                   *)
(***************************************************************************)
EXTENDS BulkLoader, SequenceTheorems, TLAPS

(***************************************************************************)
(* The inductive invariant, told of one batch by the four values kept of   *)
(* it: its phase p, its attempts a, its executions ex and its repeats r.   *)
(***************************************************************************)
EndedIn(ex, k, how) == \E e \in DOMAIN ex : ex[e].attempt = k /\ ex[e].state = how

UnattendedIn(ex, a) == \A e \in DOMAIN ex : ex[e].state = "live" => ex[e].attempt # a

(* The attempts before the last threw, and so did the last when it is      *)
(* waited after or was one too many.                                       *)
AttemptsOK(p, a, ex) ==
  /\ p = "unscheduled" => a = 0 /\ ex = <<>>
  /\ p # "unscheduled" => a > 0
  /\ \A k \in 1..(a - 1) : EndedIn(ex, k, "threw")
  /\ p \in {"waiting", "failed"} => EndedIn(ex, a, "threw")
  /\ p = "waiting" => a < MaxNumberOfAttempts
  /\ p = "failed" => a = MaxNumberOfAttempts
  /\ p = "succeeded" => EndedIn(ex, a, "returned")

(* An attempt nobody attends to has an execution still to come to it.      *)
RepeatsOK(p, a, ex, r) ==
  /\ Len(ex) <= a + r
  /\ p = "scheduled" /\ UnattendedIn(ex, a) => Len(ex) < a + r

BatchOK(i, b) ==
  /\ AttemptsOK(phase[i][b], attempt[i][b], executions[i][b])
  /\ RepeatsOK(phase[i][b], attempt[i][b], executions[i][b], repeats[i][b])

(* What the status of an orchestration says of its batches.                *)
Started(i) == \A b \in Batches : phase[i][b] # "unscheduled"
Resting(i) == \A b \in Batches : phase[i][b] \in Settled \cup {"unscheduled"}

StatusOK(i) ==
  /\ status[i] \in {"none", "pending"} => \A b \in Batches : phase[i][b] = "unscheduled"
  /\ status[i] = "running" => Started(i)
  /\ status[i] = "completed" => AllInSuccess(i)
  /\ status[i] = "failed" => Resting(i)

IInv ==
  /\ TypeOK
  /\ \A i \in Instances : StatusOK(i) /\ \A b \in Batches : BatchOK(i, b)

-------------------------------------------------------------------------------
(* Updating the entry of one batch leaves every other entry as it was.     *)
LEMMA OneEntry ==
  ASSUME NEW S, NEW f \in [Instances -> [Batches -> S]],
         NEW i \in Instances, NEW b \in Batches, NEW v \in S
  PROVE  /\ [f EXCEPT ![i][b] = v] \in [Instances -> [Batches -> S]]
         /\ \A j \in Instances, c \in Batches :
              [f EXCEPT ![i][b] = v][j][c] = IF j = i /\ c = b THEN v ELSE f[j][c]
OBVIOUS

(* An entry that keeps its value is an update too.                         *)
LEMMA SameEntry ==
  ASSUME NEW S, NEW f \in [Instances -> [Batches -> S]],
         NEW i \in Instances, NEW b \in Batches
  PROVE  f = [f EXCEPT ![i][b] = f[i][b]]
OBVIOUS

(* The types of the four values kept of a batch.                           *)
LEMMA EntryTypes ==
  ASSUME TypeOK, NEW i \in Instances, NEW b \in Batches
  PROVE  /\ phase[i][b] \in Phases
         /\ attempt[i][b] \in 0..MaxNumberOfAttempts
         /\ attempt[i][b] \in Nat
         /\ executions[i][b] \in Seq(Execution)
         /\ DOMAIN executions[i][b] = 1..Len(executions[i][b])
         /\ Len(executions[i][b]) \in Nat
         /\ repeats[i][b] \in 0..MaxRepeats
         /\ repeats[i][b] \in Nat
<1>1. phase[i][b] \in Phases /\ repeats[i][b] \in 0..MaxRepeats
  BY DEF TypeOK
<1>2. attempt[i][b] \in 0..MaxNumberOfAttempts
  BY DEF TypeOK
<1>3. executions[i][b] \in Seq(Execution)
  BY DEF TypeOK
<1> QED
  BY <1>1, <1>2, <1>3, LenProperties, LoaderAssumption

(* The outcomes that are on record stay there when an execution begins.    *)
LEMMA AppendKeepsOutcomes ==
  ASSUME NEW ex \in Seq(Execution), NEW x \in Execution,
         NEW k, NEW how, EndedIn(ex, k, how)
  PROVE  EndedIn(Append(ex, x), k, how)
<1>1. PICK e \in DOMAIN ex : ex[e].attempt = k /\ ex[e].state = how
  BY DEF EndedIn
<1>2. /\ DOMAIN ex = 1..Len(ex) /\ Len(ex) \in Nat
      /\ DOMAIN Append(ex, x) = 1..(Len(ex) + 1)
  BY LenProperties, AppendProperties
<1>3. Append(ex, x)[e] = ex[e] /\ e \in DOMAIN Append(ex, x)
  BY <1>1, <1>2, AppendProperties
<1> QED
  BY <1>1, <1>3 DEF EndedIn

(* What becomes of a batch's executions when one of them ends.             *)
EndedAs(ex, e, how, new) ==
  /\ new \in Seq(Execution) /\ Len(new) = Len(ex)
  /\ EndedIn(new, ex[e].attempt, how)
  /\ \A k, h : EndedIn(ex, k, h) /\ h # "live" => EndedIn(new, k, h)
  /\ \A a : UnattendedIn(new, a) /\ ex[e].attempt # a => UnattendedIn(ex, a)

LEMMA EndedExecution ==
  ASSUME NEW ex \in Seq(Execution), NEW e \in DOMAIN ex, ex[e].state = "live",
         NEW how \in {"returned", "threw", "crashed"},
         NEW x \in Execution, x.attempt = ex[e].attempt, x.state = how,
         NEW new, new = [ex EXCEPT ![e] = x]
  PROVE  EndedAs(ex, e, how, new)
<1>1. DOMAIN ex = 1..Len(ex)
  BY LenProperties
<1>4. /\ new \in Seq(Execution) /\ Len(new) = Len(ex)
      /\ \A d \in 1..Len(ex) : new[d] = IF d = e THEN x ELSE ex[d]
  BY <1>1, ExceptSeq
<1>5. DOMAIN new = DOMAIN ex
  BY <1>1, <1>4, LenProperties
<1>6. EndedIn(new, ex[e].attempt, how)
  BY <1>1, <1>4, <1>5 DEF EndedIn
<1>7. ASSUME NEW k, NEW h, EndedIn(ex, k, h), h # "live" PROVE EndedIn(new, k, h)
  <2>1. PICK d \in DOMAIN ex : ex[d].attempt = k /\ ex[d].state = h
    BY <1>7 DEF EndedIn
  <2>2. d # e
    BY <1>7, <2>1
  <2> QED
    BY <1>1, <1>4, <1>5, <2>1, <2>2 DEF EndedIn
<1>8. ASSUME NEW a, UnattendedIn(new, a), ex[e].attempt # a PROVE UnattendedIn(ex, a)
  <2> SUFFICES ASSUME NEW d \in DOMAIN ex, ex[d].state = "live" PROVE ex[d].attempt # a
    BY DEF UnattendedIn
  <2>1. CASE d = e
    BY <1>8, <2>1
  <2>2. CASE d # e
    BY <1>1, <1>4, <1>5, <1>8, <2>2 DEF UnattendedIn
  <2> QED
    BY <2>1, <2>2
<1> QED
  BY <1>4, <1>6, <1>7, <1>8 DEF EndedAs

(***************************************************************************)
(* A step that changes one batch of a running orchestration: it is enough  *)
(* that the new values of the batch fit each other, that a task stays      *)
(* scheduled once it is, and settled as it is once it is.                  *)
(***************************************************************************)
BatchStep(i, b, p, a, ex, r) ==
  /\ UNCHANGED <<retryValid, status>>
  /\ phase' = [phase EXCEPT ![i][b] = p]
  /\ attempt' = [attempt EXCEPT ![i][b] = a]
  /\ executions' = [executions EXCEPT ![i][b] = ex]
  /\ repeats' = [repeats EXCEPT ![i][b] = r]

LEMMA BatchStepHolds ==
  ASSUME IInv, NEW i \in Instances, NEW b \in Batches,
         NEW p \in Phases, NEW a \in 0..MaxNumberOfAttempts,
         NEW ex \in Seq(Execution), NEW r \in 0..MaxRepeats,
         BatchStep(i, b, p, a, ex, r),
         AttemptsOK(p, a, ex), RepeatsOK(p, a, ex, r),
         p = "unscheduled" <=> phase[i][b] = "unscheduled",
         phase[i][b] \in Settled => p = phase[i][b]
  PROVE  IInv'
<1> USE DEF BatchStep
<1>1. /\ phase' \in [Instances -> [Batches -> Phases]]
      /\ \A j \in Instances, c \in Batches :
           phase'[j][c] = IF j = i /\ c = b THEN p ELSE phase[j][c]
  <2> HIDE DEF BatchStep
  <2>1. phase \in [Instances -> [Batches -> Phases]]
    BY DEF IInv, TypeOK
  <2>2. phase' = [phase EXCEPT ![i][b] = p]
    BY DEF BatchStep
  <2> QED
    BY <2>1, <2>2, OneEntry
<1>2. /\ attempt' \in [Instances -> [Batches -> 0..MaxNumberOfAttempts]]
      /\ \A j \in Instances, c \in Batches :
           attempt'[j][c] = IF j = i /\ c = b THEN a ELSE attempt[j][c]
  <2>1. attempt \in [Instances -> [Batches -> 0..MaxNumberOfAttempts]]
    BY DEF IInv, TypeOK
  <2> QED
    BY <2>1, OneEntry
<1>3. /\ executions' \in [Instances -> [Batches -> Seq(Execution)]]
      /\ \A j \in Instances, c \in Batches :
           executions'[j][c] = IF j = i /\ c = b THEN ex ELSE executions[j][c]
  <2>1. executions \in [Instances -> [Batches -> Seq(Execution)]]
    BY DEF IInv, TypeOK
  <2> QED
    BY <2>1, OneEntry
<1>4. /\ repeats' \in [Instances -> [Batches -> 0..MaxRepeats]]
      /\ \A j \in Instances, c \in Batches :
           repeats'[j][c] = IF j = i /\ c = b THEN r ELSE repeats[j][c]
  <2>1. repeats \in [Instances -> [Batches -> 0..MaxRepeats]]
    BY DEF IInv, TypeOK
  <2> QED
    BY <2>1, OneEntry
<1>5. TypeOK'
  BY <1>1, <1>2, <1>3, <1>4 DEF IInv, TypeOK
<1>6. ASSUME NEW j \in Instances PROVE StatusOK(j)'
  <2>1. StatusOK(j) /\ status'[j] = status[j]
    BY DEF IInv
  <2>2. ASSUME NEW c \in Batches
        PROVE  /\ phase'[j][c] = "unscheduled" <=> phase[j][c] = "unscheduled"
               /\ phase[j][c] \in Settled => phase'[j][c] = phase[j][c]
    BY <1>1
  <2> QED
    BY <2>1, <2>2 DEF StatusOK, Started, Resting, AllInSuccess, Settled
<1>7. ASSUME NEW j \in Instances, NEW c \in Batches PROVE BatchOK(j, c)'
  <2>1. CASE j = i /\ c = b
    BY <1>1, <1>2, <1>3, <1>4, <2>1 DEF BatchOK
  <2>2. CASE ~(j = i /\ c = b)
    <3>1. /\ phase'[j][c] = phase[j][c] /\ attempt'[j][c] = attempt[j][c]
          /\ executions'[j][c] = executions[j][c] /\ repeats'[j][c] = repeats[j][c]
      BY <1>1, <1>2, <1>3, <1>4, <2>2
    <3>2. BatchOK(j, c)
      BY DEF IInv
    <3> QED
      BY <3>1, <3>2 DEF BatchOK
  <2> QED
    BY <2>1, <2>2
<1> QED
  BY <1>5, <1>6, <1>7 DEF IInv

-------------------------------------------------------------------------------
(* Nothing is scheduled before the first request.                          *)
LEMMA InitHolds == Init => IInv
<1> SUFFICES ASSUME Init PROVE IInv
  OBVIOUS
<1>1. ASSUME NEW i \in Instances, NEW b \in Batches
      PROVE  /\ phase[i][b] = "unscheduled" /\ attempt[i][b] = 0
             /\ executions[i][b] = <<>> /\ repeats[i][b] = 0
  BY DEF Init, PerTask
<1>2. TypeOK
  <2>1. "unscheduled" \in Phases /\ <<>> \in Seq(Execution)
    BY DEF Phases
  <2>2. 0 \in 0..MaxNumberOfAttempts /\ 0 \in 0..MaxRepeats
    BY LoaderAssumption
  <2> QED
    BY <2>1, <2>2 DEF Init, TypeOK, PerTask
<1>3. ASSUME NEW i \in Instances PROVE StatusOK(i)
  BY <1>1 DEF Init, StatusOK
<1>4. ASSUME NEW i \in Instances, NEW b \in Batches PROVE BatchOK(i, b)
  BY <1>1 DEF BatchOK, AttemptsOK, RepeatsOK
<1> QED
  BY <1>2, <1>3, <1>4 DEF IInv

(* A step that leaves every batch alone needs to keep the status true.     *)
LEMMA StatusStepHolds ==
  ASSUME IInv, UNCHANGED <<retryValid, phase, attempt, executions, repeats>>,
         NEW i \in Instances,
         NEW s \in {"none", "pending", "running", "completed", "failed"},
         status' = [status EXCEPT ![i] = s],
         StatusOK(i)'
  PROVE  IInv'
<1>1. TypeOK'
  BY DEF IInv, TypeOK
<1>2. ASSUME NEW j \in Instances PROVE StatusOK(j)'
  <2>1. CASE j = i
    BY <2>1
  <2>2. CASE j # i
    <3>1. status'[j] = status[j]
      BY <2>2 DEF IInv, TypeOK
    <3>2. StatusOK(j)
      BY DEF IInv
    <3> QED
      BY <3>1, <3>2 DEF StatusOK, Started, Resting, AllInSuccess
  <2> QED
    BY <2>1, <2>2
<1>3. ASSUME NEW j \in Instances, NEW c \in Batches PROVE BatchOK(j, c)'
  <2>1. BatchOK(j, c)
    BY DEF IInv
  <2> QED
    BY <2>1 DEF BatchOK
<1> QED
  BY <1>1, <1>2, <1>3 DEF IInv

LEMMA HttpStartHolds ==
  ASSUME IInv, NEW i \in Instances, HttpStart(i)
  PROVE  IInv'
<1>1. StatusOK(i)'
  <2>1. StatusOK(i) /\ status[i] = "none" /\ status'[i] = "pending"
    BY DEF IInv, TypeOK, HttpStart
  <2> QED
    BY <2>1 DEF HttpStart, StatusOK
<1> QED
  BY <1>1, StatusStepHolds DEF HttpStart

(* The first turn: every batch gets its first attempt, or none does.       *)
LEMMA FanOutHolds ==
  ASSUME IInv, NEW i \in Instances, FanOut(i)
  PROVE  IInv'
<1>1. StatusOK(i) /\ status[i] = "pending" /\ \A b \in Batches : phase[i][b] = "unscheduled"
  BY DEF IInv, FanOut, StatusOK
<1>2. CASE retryValid
  <2>1. /\ status' = [status EXCEPT ![i] = "running"]
        /\ phase' = [phase EXCEPT ![i] = [b \in Batches |-> "scheduled"]]
        /\ attempt' = [attempt EXCEPT ![i] = [b \in Batches |-> 1]]
        /\ UNCHANGED <<retryValid, executions, repeats>>
    BY <1>2 DEF FanOut
  <2>2. 1 \in 0..MaxNumberOfAttempts
    BY LoaderAssumption
  <2>3. TypeOK'
    <3>1. [b \in Batches |-> "scheduled"] \in [Batches -> Phases]
      BY DEF Phases
    <3>2. [b \in Batches |-> 1] \in [Batches -> 0..MaxNumberOfAttempts]
      BY <2>2
    <3>3. phase' \in [Instances -> [Batches -> Phases]]
      BY <2>1, <3>1 DEF IInv, TypeOK
    <3>4. attempt' \in [Instances -> [Batches -> 0..MaxNumberOfAttempts]]
      BY <2>1, <3>2 DEF IInv, TypeOK
    <3>5. status' \in [Instances -> {"none", "pending", "running", "completed", "failed"}]
      BY <2>1 DEF IInv, TypeOK
    <3> QED
      BY <2>1, <3>3, <3>4, <3>5 DEF IInv, TypeOK
  <2>4. ASSUME NEW b \in Batches PROVE phase'[i][b] = "scheduled" /\ attempt'[i][b] = 1
    BY <2>1 DEF IInv, TypeOK
  <2>5. status'[i] = "running"
    BY <2>1 DEF IInv, TypeOK
  <2>6. ASSUME NEW j \in Instances, j # i
        PROVE  status'[j] = status[j] /\ phase'[j] = phase[j] /\ attempt'[j] = attempt[j]
    BY <2>1, <2>6 DEF IInv, TypeOK
  <2>7. ASSUME NEW j \in Instances PROVE StatusOK(j)'
    <3>1. CASE j = i
      BY <2>4, <2>5, <3>1 DEF StatusOK, Started
    <3>2. CASE j # i
      <4>1. StatusOK(j)
        BY DEF IInv
      <4> QED
        BY <2>6, <3>2, <4>1 DEF StatusOK, Started, Resting, AllInSuccess
    <3> QED
      BY <3>1, <3>2
  <2>8. ASSUME NEW j \in Instances, NEW b \in Batches PROVE BatchOK(j, b)'
    <3>1. BatchOK(j, b)
      BY DEF IInv
    <3>2. CASE j = i
      <4>1. executions[j][b] = <<>> /\ repeats[j][b] \in Nat
        BY <1>1, <3>1, <3>2, EntryTypes DEF BatchOK, AttemptsOK, IInv
      <4>2. AttemptsOK("scheduled", 1, <<>>) /\ RepeatsOK("scheduled", 1, <<>>, repeats[j][b])
        BY <4>1 DEF AttemptsOK, RepeatsOK
      <4> QED
        BY <2>1, <2>4, <3>2, <4>1, <4>2 DEF BatchOK
    <3>3. CASE j # i
      BY <2>1, <2>6, <3>1, <3>3 DEF BatchOK
    <3> QED
      BY <3>2, <3>3
  <2> QED
    BY <2>3, <2>7, <2>8 DEF IInv
<1>3. CASE ~retryValid
  <2>1. /\ status' = [status EXCEPT ![i] = "failed"]
        /\ UNCHANGED <<retryValid, phase, attempt, executions, repeats>>
    BY <1>3 DEF FanOut
  <2>2. StatusOK(i)'
    <3>1. status'[i] = "failed"
      BY <2>1 DEF IInv, TypeOK
    <3> QED
      BY <1>1, <2>1, <3>1 DEF StatusOK, Resting
  <2> QED
    BY <2>1, <2>2, StatusStepHolds
<1> QED
  BY <1>2, <1>3

(* Task.WhenAll settles what every task has settled.                       *)
LEMMA FanInTasksHolds ==
  ASSUME IInv, NEW i \in Instances, FanInTasks(i)
  PROVE  IInv'
<1>1. PICK s \in {"completed", "failed"} :
        /\ status' = [status EXCEPT ![i] = s]
        /\ s = "completed" => AllInSuccess(i)
  BY DEF FanInTasks, AllInSuccess
<1>2. StatusOK(i)'
  <2>1. status'[i] = s
    BY <1>1 DEF IInv, TypeOK
  <2> QED
    BY <1>1, <2>1 DEF FanInTasks, AllIn, AllInSuccess, StatusOK, Resting
<1> QED
  BY <1>1, <1>2, StatusStepHolds DEF FanInTasks

-------------------------------------------------------------------------------
(* What the invariant says of the batch a step is about.                   *)
LEMMA BatchFacts ==
  ASSUME IInv, NEW i \in Instances, NEW b \in Batches
  PROVE  /\ AttemptsOK(phase[i][b], attempt[i][b], executions[i][b])
         /\ RepeatsOK(phase[i][b], attempt[i][b], executions[i][b], repeats[i][b])
BY DEF IInv, BatchOK

(* An execution begins, for a delivery (q = r) or a redelivery (q = r + 1),*)
(* when there is room for it.                                              *)
LEMMA BeginHolds ==
  ASSUME IInv, NEW i \in Instances, NEW b \in Batches, Begin(i, b),
         NEW q \in 0..MaxRepeats, repeats' = [repeats EXCEPT ![i][b] = q],
         Len(executions[i][b]) < attempt[i][b] + q
  PROVE  IInv'
<1>1. PICK a : a = attempt[i][b]
  OBVIOUS
<1>2. PICK ex : ex = executions[i][b]
  OBVIOUS
<1>3. PICK x : x = [attempt |-> a, state |-> "live"]
  OBVIOUS
<1>4. phase[i][b] = "scheduled"
  BY DEF Begin
<1>5. /\ a \in 0..MaxNumberOfAttempts /\ a \in Nat /\ ex \in Seq(Execution)
      /\ Len(ex) \in Nat /\ DOMAIN ex = 1..Len(ex)
      /\ AttemptsOK("scheduled", a, ex)
  BY <1>1, <1>2, <1>4, EntryTypes, BatchFacts DEF IInv
<1>6. a \in 1..MaxNumberOfAttempts
  BY <1>5 DEF AttemptsOK
<1>7. x \in Execution
  BY <1>3, <1>6 DEF Execution
<1>8. PICK new : new = Append(ex, x)
  OBVIOUS
<1>9. /\ new \in Seq(Execution) /\ Len(new) = Len(ex) + 1
      /\ new[Len(ex) + 1] = x /\ DOMAIN new = 1..(Len(ex) + 1)
  BY <1>5, <1>7, <1>8, AppendProperties, LenProperties
<1>10. AttemptsOK("scheduled", a, new)
  <2>1. \A k \in 1..(a - 1) : EndedIn(new, k, "threw")
    BY <1>5, <1>7, <1>8, AppendKeepsOutcomes DEF AttemptsOK
  <2> QED
    BY <1>6, <2>1 DEF AttemptsOK
<1>11. RepeatsOK("scheduled", a, new, q)
  <2>1. Len(new) <= a + q
    BY <1>1, <1>2, <1>5, <1>9
  <2>2. ~UnattendedIn(new, a)
    BY <1>3, <1>5, <1>9 DEF UnattendedIn
  <2> QED
    BY <2>1, <2>2 DEF RepeatsOK
<1>12. BatchStep(i, b, "scheduled", a, new, q)
  <2>1. phase' = [phase EXCEPT ![i][b] = "scheduled"]
    BY <1>4, SameEntry DEF Begin, IInv, TypeOK
  <2>2. attempt' = [attempt EXCEPT ![i][b] = a]
    BY <1>1, SameEntry DEF Begin, IInv, TypeOK
  <2>3. executions' = [executions EXCEPT ![i][b] = new]
    BY <1>1, <1>2, <1>3, <1>8 DEF Begin
  <2> QED
    BY <2>1, <2>2, <2>3 DEF Begin, BatchStep
<1> QED
  BY <1>4, <1>5, <1>9, <1>10, <1>11, <1>12, BatchStepHolds DEF Phases, Settled

LEMMA DeliverHolds ==
  ASSUME IInv, NEW i \in Instances, NEW b \in Batches, Deliver(i, b)
  PROVE  IInv'
<1>1. PICK q : q = repeats[i][b]
  OBVIOUS
<1>2. q \in 0..MaxRepeats /\ repeats' = [repeats EXCEPT ![i][b] = q]
  BY <1>1, SameEntry DEF Deliver, IInv, TypeOK
<1>3. UnattendedIn(executions[i][b], attempt[i][b])
  BY DEF Deliver, Unattended, Live, UnattendedIn
<1>4. Len(executions[i][b]) < attempt[i][b] + q
  BY <1>1, <1>3, BatchFacts DEF Deliver, Begin, RepeatsOK
<1> QED
  BY <1>2, <1>4, BeginHolds DEF Deliver

LEMMA RedeliverHolds ==
  ASSUME IInv, NEW i \in Instances, NEW b \in Batches, Redeliver(i, b)
  PROVE  IInv'
<1>1. PICK q : q = repeats[i][b] + 1
  OBVIOUS
<1>2. repeats' = [repeats EXCEPT ![i][b] = q]
  BY <1>1 DEF Redeliver
<1>3. q \in 0..MaxRepeats
  BY <1>1, EntryTypes, LoaderAssumption DEF Redeliver, IInv
<1>4. Len(executions[i][b]) < attempt[i][b] + q
  BY <1>1, EntryTypes, BatchFacts DEF RepeatsOK, IInv
<1> QED
  BY <1>2, <1>3, <1>4, BeginHolds DEF Redeliver

(* An execution ends: with which phase p that leaves the batch, and which  *)
(* number q of repeats, is the business of the three ways to end.  The     *)
(* outcome counts when it decides the attempt that is open.                *)
LEMMA EndHolds ==
  ASSUME IInv, NEW i \in Instances, NEW b \in Batches,
         NEW e \in DOMAIN executions[i][b],
         NEW how \in {"returned", "threw", "crashed"}, End(i, b, e, how),
         UNCHANGED <<retryValid, status, attempt>>,
         NEW p \in Phases \ {"unscheduled"}, phase' = [phase EXCEPT ![i][b] = p],
         NEW q \in 0..MaxRepeats, repeats' = [repeats EXCEPT ![i][b] = q],
         q >= repeats[i][b],
         \/ /\ p = phase[i][b]
            /\ Decides(i, b, e) => q > repeats[i][b]
         \/ /\ Decides(i, b, e) /\ how = "threw"
            /\ p = IF AttemptsLeft(i, b) THEN "waiting" ELSE "failed"
         \/ Decides(i, b, e) /\ how = "returned" /\ p = "succeeded"
  PROVE  IInv'
<1>1. PICK a : a = attempt[i][b]
  OBVIOUS
<1>2. PICK ex : ex = executions[i][b]
  OBVIOUS
<1>3. PICK new : new = [ex EXCEPT ![e].state = how]
  OBVIOUS
<1>4. PICK r : r = repeats[i][b]
  OBVIOUS
<1>5. PICK o : o = phase[i][b]
  OBVIOUS
<1>6. /\ a \in 0..MaxNumberOfAttempts /\ a \in Nat /\ ex \in Seq(Execution)
      /\ Len(ex) \in Nat /\ r \in Nat /\ q \in Nat /\ o \in Phases
      /\ AttemptsOK(o, a, ex) /\ RepeatsOK(o, a, ex, r)
      /\ ex[e].state = "live" /\ e \in DOMAIN ex
  BY <1>1, <1>2, <1>4, <1>5, EntryTypes, BatchFacts, LoaderAssumption DEF IInv, End
<1>7. /\ new \in Seq(Execution) /\ Len(new) = Len(ex)
      /\ EndedIn(new, ex[e].attempt, how)
      /\ \A k, h : EndedIn(ex, k, h) /\ h # "live" => EndedIn(new, k, h)
      /\ (UnattendedIn(new, a) /\ ex[e].attempt # a) => UnattendedIn(ex, a)
  <2>1. ex \in Seq(Execution) /\ e \in DOMAIN ex /\ ex[e].state = "live"
    BY <1>6
  <2>2. PICK x : x = [ex[e] EXCEPT !.state = how]
    OBVIOUS
  <2>4. x \in Execution /\ x.attempt = ex[e].attempt /\ x.state = how
    <3>1. ex[e] \in Execution
      BY <2>1, LenProperties
    <3> QED
      BY <2>2, <3>1 DEF Execution
  <2>5. new = [ex EXCEPT ![e] = x]
    BY <1>3, <2>2
  <2>6. EndedAs(ex, e, how, new)
    BY <2>1, <2>4, <2>5, EndedExecution, Zenon
  <2> QED
    BY <2>6 DEF EndedAs
<1>8. Decides(i, b, e) <=> o = "scheduled" /\ ex[e].attempt = a
  BY <1>1, <1>2, <1>5 DEF Decides
<1>9. o # "unscheduled"
  <2> SUFFICES ASSUME o = "unscheduled" PROVE FALSE
    OBVIOUS
  <2>1. ex = <<>>
    BY <1>6 DEF AttemptsOK
  <2> QED
    BY <1>6, <2>1
<1>10. AttemptsOK(p, a, new)
  <2>1. \A k \in 1..(a - 1) : EndedIn(new, k, "threw")
    BY <1>6, <1>7 DEF AttemptsOK
  <2>2. a > 0
    BY <1>6, <1>9 DEF AttemptsOK
  <2>3. CASE p = o
    <3>1. EndedIn(ex, a, "threw") => EndedIn(new, a, "threw")
      BY <1>7
    <3>2. EndedIn(ex, a, "returned") => EndedIn(new, a, "returned")
      BY <1>7
    <3> QED
      BY <1>6, <1>9, <2>1, <2>2, <2>3, <3>1, <3>2 DEF AttemptsOK
  <2>4. CASE Decides(i, b, e) /\ how = "threw" /\ p = IF AttemptsLeft(i, b) THEN "waiting" ELSE "failed"
    <3>1. EndedIn(new, a, "threw")
      BY <1>7, <1>8, <2>4
    <3>2. IF p = "waiting" THEN a < MaxNumberOfAttempts
          ELSE p = "failed" /\ a = MaxNumberOfAttempts
      BY <1>1, <1>6, <2>4, LoaderAssumption DEF AttemptsLeft
    <3> QED
      BY <2>1, <2>2, <3>1, <3>2 DEF AttemptsOK
  <2>5. CASE Decides(i, b, e) /\ how = "returned" /\ p = "succeeded"
    <3>1. EndedIn(new, a, "returned")
      BY <1>7, <1>8, <2>5
    <3> QED
      BY <2>1, <2>2, <2>5, <3>1 DEF AttemptsOK
  <2> QED
    BY <1>5, <2>3, <2>4, <2>5
<1>11. RepeatsOK(p, a, new, q)
  <2>1. Len(new) <= a + q
    BY <1>4, <1>6, <1>7 DEF RepeatsOK
  <2>2. ASSUME p = "scheduled", UnattendedIn(new, a) PROVE Len(new) < a + q
    <3>1. p = o
      BY <1>5, <1>8, <2>2
    <3>2. CASE ex[e].attempt = a
      BY <1>4, <1>6, <1>7, <1>8, <2>2, <3>1, <3>2, <1>5 DEF RepeatsOK
    <3>3. CASE ex[e].attempt # a
      BY <1>4, <1>6, <1>7, <2>2, <3>1, <3>3 DEF RepeatsOK
    <3> QED
      BY <3>2, <3>3
  <2> QED
    BY <2>1, <2>2 DEF RepeatsOK
<1>12. BatchStep(i, b, p, a, new, q)
  <2>1. attempt' = [attempt EXCEPT ![i][b] = a]
    BY <1>1, SameEntry DEF IInv, TypeOK
  <2>2. executions' = [executions EXCEPT ![i][b] = new]
    BY <1>2, <1>3 DEF End
  <2> QED
    BY <2>1, <2>2 DEF BatchStep
<1>13. phase[i][b] \in Settled => p = phase[i][b]
  BY <1>5, <1>8 DEF Settled
<1> QED
  BY <1>5, <1>6, <1>7, <1>9, <1>10, <1>11, <1>12, <1>13, BatchStepHolds

(* Only a batch that has been scheduled has executions.                    *)
LEMMA BegunIsScheduled ==
  ASSUME IInv, NEW i \in Instances, NEW b \in Batches,
         NEW e \in DOMAIN executions[i][b]
  PROVE  phase[i][b] # "unscheduled"
<1> SUFFICES ASSUME phase[i][b] = "unscheduled" PROVE FALSE
  OBVIOUS
<1>1. executions[i][b] = <<>>
  BY BatchFacts DEF AttemptsOK
<1> QED
  BY <1>1

LEMMA ReturnHolds ==
  ASSUME IInv, NEW i \in Instances, NEW b \in Batches,
         NEW e \in DOMAIN executions[i][b], Return(i, b, e)
  PROVE  IInv'
<1>1. PICK p : p = IF Decides(i, b, e) THEN "succeeded" ELSE phase[i][b]
  OBVIOUS
<1>2. PICK q : q = repeats[i][b]
  OBVIOUS
<1>3. phase' = [phase EXCEPT ![i][b] = p]
  <2>1. CASE Decides(i, b, e)
    BY <1>1, <2>1 DEF Return
  <2>2. CASE ~Decides(i, b, e)
    <3>1. phase' = phase /\ p = phase[i][b]
      BY <1>1, <2>2 DEF Return
    <3> QED
      BY <3>1, SameEntry DEF IInv, TypeOK
  <2> QED
    BY <2>1, <2>2
<1>4. q \in 0..MaxRepeats /\ q >= repeats[i][b] /\ repeats' = [repeats EXCEPT ![i][b] = q]
  <2>1. repeats' = [repeats EXCEPT ![i][b] = q]
    BY <1>2, SameEntry DEF Return, IInv, TypeOK
  <2> QED
    BY <1>2, <2>1, EntryTypes DEF IInv
<1>5. phase[i][b] # "unscheduled"
  BY BegunIsScheduled
<1>6. p \in Phases \ {"unscheduled"}
  BY <1>1, <1>5, EntryTypes DEF IInv, Phases, Settled
<1> QED
  BY <1>1, <1>3, <1>4, <1>6, EndHolds DEF Return

LEMMA ThrowHolds ==
  ASSUME IInv, NEW i \in Instances, NEW b \in Batches,
         NEW e \in DOMAIN executions[i][b], Throw(i, b, e)
  PROVE  IInv'
<1>1. PICK p : p = IF Decides(i, b, e)
                     THEN IF AttemptsLeft(i, b) THEN "waiting" ELSE "failed"
                     ELSE phase[i][b]
  OBVIOUS
<1>2. PICK q : q = repeats[i][b]
  OBVIOUS
<1>3. phase' = [phase EXCEPT ![i][b] = p]
  <2>1. CASE Decides(i, b, e)
    BY <1>1, <2>1 DEF Throw
  <2>2. CASE ~Decides(i, b, e)
    <3>1. phase' = phase /\ p = phase[i][b]
      BY <1>1, <2>2 DEF Throw
    <3> QED
      BY <3>1, SameEntry DEF IInv, TypeOK
  <2> QED
    BY <2>1, <2>2
<1>4. q \in 0..MaxRepeats /\ q >= repeats[i][b] /\ repeats' = [repeats EXCEPT ![i][b] = q]
  <2>1. repeats' = [repeats EXCEPT ![i][b] = q]
    BY <1>2, SameEntry DEF Throw, IInv, TypeOK
  <2> QED
    BY <1>2, <2>1, EntryTypes DEF IInv
<1>5. phase[i][b] # "unscheduled"
  BY BegunIsScheduled
<1>6. p \in Phases \ {"unscheduled"}
  BY <1>1, <1>5, EntryTypes DEF IInv, Phases, Settled
<1> QED
  BY <1>1, <1>3, <1>4, <1>6, EndHolds DEF Throw

(* Nothing of a lost execution is recorded but that it was lost.           *)
LEMMA CrashHolds ==
  ASSUME IInv, NEW i \in Instances, NEW b \in Batches,
         NEW e \in DOMAIN executions[i][b], Crash(i, b, e)
  PROVE  IInv'
<1>1. PICK p : p = phase[i][b]
  OBVIOUS
<1>2. PICK q : q = repeats[i][b] + 1
  OBVIOUS
<1>3. phase' = [phase EXCEPT ![i][b] = p]
  BY <1>1, SameEntry DEF Crash, IInv, TypeOK
<1>4. repeats' = [repeats EXCEPT ![i][b] = q]
  BY <1>2 DEF Crash
<1>5. q \in 0..MaxRepeats /\ q > repeats[i][b]
  BY <1>2, EntryTypes, LoaderAssumption DEF Crash, IInv
<1>6. q >= repeats[i][b]
  BY <1>5, EntryTypes DEF IInv
<1>7. phase[i][b] # "unscheduled"
  BY BegunIsScheduled
<1>8. p \in Phases \ {"unscheduled"}
  BY <1>1, <1>7, EntryTypes DEF IInv
<1> QED
  BY <1>1, <1>3, <1>4, <1>5, <1>6, <1>8, EndHolds DEF Crash

(* The timer of a retry makes room for the executions of a new attempt.    *)
LEMMA RetryTimerHolds ==
  ASSUME IInv, NEW i \in Instances, NEW b \in Batches, RetryTimer(i, b)
  PROVE  IInv'
<1>1. PICK a : a = attempt[i][b]
  OBVIOUS
<1>2. PICK ex : ex = executions[i][b]
  OBVIOUS
<1>3. PICK r : r = repeats[i][b]
  OBVIOUS
<1>4. phase[i][b] = "waiting"
  BY DEF RetryTimer
<1>5. /\ a \in Nat /\ ex \in Seq(Execution) /\ Len(ex) \in Nat
      /\ r \in Nat /\ r \in 0..MaxRepeats
      /\ AttemptsOK("waiting", a, ex) /\ RepeatsOK("waiting", a, ex, r)
  BY <1>1, <1>2, <1>3, <1>4, EntryTypes, BatchFacts DEF IInv
<1>6. a + 1 \in 0..MaxNumberOfAttempts
  BY <1>5, LoaderAssumption DEF AttemptsOK
<1>7. AttemptsOK("scheduled", a + 1, ex)
  <2>1. ASSUME NEW k \in 1..((a + 1) - 1) PROVE EndedIn(ex, k, "threw")
    <3>1. k = a \/ k \in 1..(a - 1)
      BY <1>5
    <3> QED
      BY <1>5, <3>1 DEF AttemptsOK
  <2> QED
    BY <1>5, <2>1 DEF AttemptsOK
<1>8. RepeatsOK("scheduled", a + 1, ex, r)
  BY <1>5 DEF RepeatsOK
<1>9. BatchStep(i, b, "scheduled", a + 1, ex, r)
  <2>1. executions' = [executions EXCEPT ![i][b] = ex]
    BY <1>2, SameEntry DEF RetryTimer, IInv, TypeOK
  <2>2. repeats' = [repeats EXCEPT ![i][b] = r]
    BY <1>3, SameEntry DEF RetryTimer, IInv, TypeOK
  <2> QED
    BY <1>1, <2>1, <2>2 DEF RetryTimer, BatchStep
<1> QED
  BY <1>4, <1>5, <1>6, <1>7, <1>8, <1>9, BatchStepHolds DEF Phases, Settled

LEMMA StepHolds == IInv /\ [Next]_vars => IInv'
<1> SUFFICES ASSUME IInv, [Next]_vars PROVE IInv'
  OBVIOUS
<1>1. CASE UNCHANGED vars
  BY <1>1 DEF vars, IInv, TypeOK, StatusOK, Started, Resting, AllInSuccess, BatchOK
<1>2. ASSUME NEW i \in Instances,
             \/ HttpStart(i)
             \/ Orchestrator(i)
             \/ \E b \in Batches :
                  \/ Worker(i, b)
                  \/ Redeliver(i, b)
                  \/ \E e \in DOMAIN executions[i][b] : Crash(i, b, e)
      PROVE  IInv'
  <2>1. CASE HttpStart(i)
    BY <2>1, HttpStartHolds
  <2>2. CASE Orchestrator(i)
    BY <2>2, FanOutHolds, FanInTasksHolds, RetryTimerHolds DEF Orchestrator
  <2>3. ASSUME NEW b \in Batches, Worker(i, b) PROVE IInv'
    BY <2>3, DeliverHolds, ReturnHolds, ThrowHolds DEF Worker
  <2>4. ASSUME NEW b \in Batches, Redeliver(i, b) PROVE IInv'
    BY <2>4, RedeliverHolds
  <2>5. ASSUME NEW b \in Batches, NEW e \in DOMAIN executions[i][b], Crash(i, b, e)
        PROVE  IInv'
    BY <2>5, CrashHolds
  <2> QED
    BY <1>2, <2>1, <2>2, <2>3, <2>4, <2>5
<1> QED
  BY <1>1, <1>2 DEF Next

THEOREM Invariance == Spec => []IInv
BY InitHolds, StepHolds, PTL DEF Spec

-------------------------------------------------------------------------------
(* The invariant says what the attempts owe to failures: the part for the  *)
(* attempts before the last as it stands, the part for a batch given up    *)
(* because it was given up at the last attempt allowed.                    *)
LEMMA InvImpliesAttempts == IInv => AttemptsFollowFailures
<1> SUFFICES ASSUME IInv, NEW i \in Instances, NEW b \in Batches
             PROVE  /\ \A a \in 1..(attempt[i][b] - 1) : Ended(i, b, a, "threw")
                    /\ phase[i][b] = "failed" =>
                         \A a \in 1..MaxNumberOfAttempts : Ended(i, b, a, "threw")
                    /\ status[i] = "completed" => Ended(i, b, attempt[i][b], "returned")
  BY DEF AttemptsFollowFailures
<1>1. \A k, how : Ended(i, b, k, how) <=> EndedIn(executions[i][b], k, how)
  BY DEF Ended, EndedIn
<1>2. AttemptsOK(phase[i][b], attempt[i][b], executions[i][b])
  BY BatchFacts
<1>3. \A a \in 1..(attempt[i][b] - 1) : Ended(i, b, a, "threw")
  BY <1>1, <1>2 DEF AttemptsOK
<1>4. ASSUME phase[i][b] = "failed", NEW a \in 1..MaxNumberOfAttempts
      PROVE  Ended(i, b, a, "threw")
  <2>1. attempt[i][b] = MaxNumberOfAttempts /\ Ended(i, b, attempt[i][b], "threw")
    BY <1>1, <1>2, <1>4 DEF AttemptsOK
  <2>2. a = MaxNumberOfAttempts \/ a \in 1..(MaxNumberOfAttempts - 1)
    BY <1>4, LoaderAssumption
  <2> QED
    BY <1>3, <2>1, <2>2
<1>5. ASSUME status[i] = "completed" PROVE Ended(i, b, attempt[i][b], "returned")
  <2>1. phase[i][b] = "succeeded"
    BY <1>5 DEF IInv, StatusOK, AllInSuccess
  <2> QED
    BY <1>1, <1>2, <2>1 DEF AttemptsOK
<1> QED
  BY <1>3, <1>4, <1>5

(* The types of the importer's variables: no attempt beyond the settings'  *)
(* number is ever scheduled, whatever is repeated.                         *)
THEOREM TypeCorrect == Spec => []TypeOK
<1>1. IInv => TypeOK
  BY DEF IInv
<1> QED
  BY <1>1, Invariance, PTL

(* Whatever late, repeated and lost executions report, a new attempt is    *)
(* scheduled only over a failure of every attempt before it, a batch is    *)
(* given up only when every attempt of it threw, and an orchestration      *)
(* completes only over an execution of every batch that returned.          *)
THEOREM AttemptsFollow == Spec => []AttemptsFollowFailures
BY Invariance, InvImpliesAttempts, PTL

(* Every execution of a batch beyond the first, and so every document the  *)
(* collection holds twice, is owed to an attempt that threw, a crash or a  *)
(* redelivery.                                                             *)
THEOREM RepeatsPaid == Spec => []RepeatsArePaidFor
<1>1. IInv => RepeatsArePaidFor
  BY BatchFacts DEF RepeatsOK, RepeatsArePaidFor
<1> QED
  BY <1>1, Invariance, PTL

(***************************************************************************)
(* The importer implements FanIn.  A first turn is a FanOut or a Reject, a *)
(* decided outcome a Settle, the end of Task.WhenAll a Complete or a Fail; *)
(* attempts, timers and the rest of the executions are invisible.          *)
(***************************************************************************)
Results == [i \in Instances |-> [b \in Batches |-> Outcome(phase[i][b])]]

LEMMA InitRefines == Init => Abstract!Init
<1> SUFFICES ASSUME Init PROVE Abstract!Init
  OBVIOUS
<1>1. \A i \in Instances, b \in Batches : Outcome(phase[i][b]) = "open"
  BY DEF Init, PerTask, Outcome, Settled
<1> QED
  BY <1>1 DEF Init, Abstract!Init

(* A step that changes no task keeps the results.                          *)
LEMMA SameResults ==
  ASSUME \A i \in Instances, b \in Batches : Outcome(phase'[i][b]) = Outcome(phase[i][b])
  PROVE  Results' = Results
BY DEF Results

(* A batch whose phase changes to p in a running orchestration settles, or *)
(* nothing is seen of it.                                                  *)
LEMMA PhaseRefines ==
  ASSUME IInv, NEW i \in Instances, NEW b \in Batches, NEW p \in Phases,
         UNCHANGED status, phase' = [phase EXCEPT ![i][b] = p],
         p = phase[i][b] \/ {p, phase[i][b]} = {"scheduled", "waiting"}
           \/ (phase[i][b] = "scheduled" /\ p \in Settled)
  PROVE  [Abstract!Next]_(Abstract!vars)
<1>1. \A j \in Instances, c \in Batches :
        phase'[j][c] = IF j = i /\ c = b THEN p ELSE phase[j][c]
  <2>1. phase \in [Instances -> [Batches -> Phases]]
    BY DEF IInv, TypeOK
  <2> QED
    BY <2>1, OneEntry
<1>2. CASE Outcome(p) = Outcome(phase[i][b])
  <2>1. Results' = Results
    BY <1>1, <1>2, SameResults
  <2> QED
    BY <2>1 DEF Results, Abstract!vars
<1>3. CASE phase[i][b] = "scheduled" /\ p \in Settled
  <2>1. status[i] = "running"
    <3>1. StatusOK(i)
      BY DEF IInv
    <3>2. status[i] \in {"none", "pending", "running", "completed", "failed"}
      BY DEF IInv, TypeOK
    <3> QED
      BY <1>3, <3>1, <3>2 DEF StatusOK, Resting, AllInSuccess, Settled
  <2>2. Results[i][b] = "open" /\ Outcome(p) = p
    BY <1>3 DEF Results, Outcome, Settled
  <2>3. Results' = [Results EXCEPT ![i][b] = p]
    <3>1. \A j \in Instances, c \in Batches :
            Outcome(phase'[j][c]) = IF j = i /\ c = b THEN p ELSE Outcome(phase[j][c])
      BY <1>1, <2>2
    <3> QED
      BY <3>1 DEF Results
  <2>4. p \in {"succeeded", "failed"}
    BY <1>3 DEF Settled
  <2>5. Abstract!Settle(i, b)
    BY <2>1, <2>2, <2>3, <2>4 DEF Abstract!Settle, Results
  <2> QED
    BY <2>5 DEF Abstract!Next
<1>4. {p, phase[i][b]} = {"scheduled", "waiting"} => Outcome(p) = Outcome(phase[i][b])
  BY DEF Outcome, Settled
<1> QED
  BY <1>2, <1>3, <1>4

(* A step that leaves every task alone moves the status only.              *)
LEMMA StatusRefines ==
  ASSUME IInv, NEW i \in Instances,
         HttpStart(i) \/ FanOut(i) \/ FanInTasks(i)
  PROVE  [Abstract!Next]_(Abstract!vars)
<1>1. CASE HttpStart(i)
  <2>1. Abstract!Start(i)
    BY <1>1 DEF HttpStart, Abstract!Start
  <2> QED
    BY <2>1 DEF Abstract!Next
<1>2. CASE FanOut(i)
  <2>1. Results' = Results
    <3>1. \A b \in Batches : phase[i][b] = "unscheduled"
      BY <1>2 DEF FanOut, IInv, StatusOK
    <3>2. ASSUME NEW j \in Instances, NEW b \in Batches
          PROVE  Outcome(phase'[j][b]) = Outcome(phase[j][b])
      <4>1. CASE phase' = phase
        BY <4>1
      <4>2. CASE phase' = [phase EXCEPT ![i] = [c \in Batches |-> "scheduled"]]
        <5>1. phase'[j][b] = IF j = i THEN "scheduled" ELSE phase[j][b]
          BY <4>2 DEF IInv, TypeOK
        <5> QED
          BY <3>1, <5>1 DEF Outcome, Settled
      <4> QED
        BY <1>2, <4>1, <4>2 DEF FanOut
    <3> QED
      BY <3>2, SameResults
  <2>2. Abstract!FanOut(i) \/ Abstract!Reject(i)
    BY <1>2, <2>1 DEF FanOut, Results, Abstract!FanOut, Abstract!Reject
  <2> QED
    BY <2>2 DEF Abstract!Next
<1>3. CASE FanInTasks(i)
  <2>1. Results' = Results /\ status[i] = "running"
    BY <1>3 DEF FanInTasks, Results
  <2>2. ASSUME NEW b \in Batches
        PROVE  phase[i][b] \in {"succeeded", "failed"} /\ Results[i][b] = phase[i][b]
    BY <1>3, <2>2 DEF FanInTasks, AllIn, Results, Outcome, Settled
  <2>3. CASE \A b \in Batches : phase[i][b] = "succeeded"
    <3>1. Abstract!Complete(i)
      BY <1>3, <2>1, <2>2, <2>3 DEF FanInTasks, Results, Abstract!Complete
    <3> QED
      BY <3>1 DEF Abstract!Next
  <2>4. CASE \E b \in Batches : phase[i][b] # "succeeded"
    <3>1. Abstract!Fail(i)
      BY <1>3, <2>1, <2>2, <2>4 DEF FanInTasks, Results, Abstract!Fail
    <3> QED
      BY <3>1 DEF Abstract!Next
  <2> QED
    BY <2>3, <2>4
<1> QED
  BY <1>1, <1>2, <1>3

(* A step that leaves the status and the tasks alone is invisible.         *)
LEMMA InvisibleSteps ==
  ASSUME UNCHANGED <<status, phase>>
  PROVE  [Abstract!Next]_(Abstract!vars)
BY DEF Abstract!vars

LEMMA StepRefines == IInv /\ [Next]_vars => [Abstract!Next]_(Abstract!vars)
<1> SUFFICES ASSUME IInv, [Next]_vars PROVE [Abstract!Next]_(Abstract!vars)
  OBVIOUS
<1>1. CASE UNCHANGED vars
  BY <1>1, InvisibleSteps DEF vars
<1>2. ASSUME NEW i \in Instances, HttpStart(i) \/ FanOut(i) \/ FanInTasks(i)
      PROVE  [Abstract!Next]_(Abstract!vars)
  BY <1>2, StatusRefines
<1>3. ASSUME NEW i \in Instances, NEW b \in Batches, RetryTimer(i, b)
      PROVE  [Abstract!Next]_(Abstract!vars)
  <2>1. {"scheduled", phase[i][b]} = {"scheduled", "waiting"} /\ "scheduled" \in Phases
    BY <1>3 DEF RetryTimer, Phases
  <2> QED
    BY <1>3, <2>1, PhaseRefines DEF RetryTimer
<1>4. ASSUME NEW i \in Instances, NEW b \in Batches, NEW e \in DOMAIN executions[i][b],
             Return(i, b, e) \/ Throw(i, b, e)
      PROVE  [Abstract!Next]_(Abstract!vars)
  <2>1. CASE ~Decides(i, b, e)
    BY <1>4, <2>1, InvisibleSteps DEF Return, Throw
  <2>2. CASE Decides(i, b, e)
    <3>1. PICK p \in {"succeeded", "failed", "waiting"} : phase' = [phase EXCEPT ![i][b] = p]
      BY <1>4, <2>2 DEF Return, Throw
    <3>2. phase[i][b] = "scheduled" /\ UNCHANGED status
      BY <1>4, <2>2 DEF Decides, Return, Throw
    <3>3. CASE p = "waiting"
      <4>1. {p, phase[i][b]} = {"scheduled", "waiting"} /\ p \in Phases
        BY <3>2, <3>3 DEF Phases
      <4> QED
        BY <3>1, <3>2, <4>1, PhaseRefines
    <3>4. CASE p # "waiting"
      <4>1. p \in Settled /\ p \in Phases
        BY <3>1, <3>4 DEF Settled, Phases
      <4> QED
        BY <3>1, <3>2, <4>1, PhaseRefines
    <3> QED
      BY <3>3, <3>4
  <2> QED
    BY <2>1, <2>2
<1>5. ASSUME NEW i \in Instances, NEW b \in Batches,
             \/ Deliver(i, b)
             \/ Redeliver(i, b)
             \/ \E e \in DOMAIN executions[i][b] : Crash(i, b, e)
      PROVE  [Abstract!Next]_(Abstract!vars)
  BY <1>5, InvisibleSteps DEF Deliver, Redeliver, Begin, Crash
<1> QED
  BY <1>1, <1>2, <1>3, <1>4, <1>5 DEF Next, Orchestrator, Worker

(* The orchestration, with its retries, repeated deliveries and crashes,   *)
(* is a fan-out of tasks that settle once and that are all awaited.        *)
THEOREM Refinement == Spec => ImplementsFanIn
<1>1. Spec => Abstract!Init /\ [][Abstract!Next]_(Abstract!vars)
  BY InitRefines, StepRefines, Invariance, PTL DEF Spec
<1> QED
  BY <1>1 DEF ImplementsFanIn, Abstract!Spec
===============================================================================
