--------------------------- MODULE BulkImportProofs ---------------------------
(***************************************************************************)
(* Theorems about BulkImport, for every number of documents, batches and   *)
(* process starts.  One inductive invariant, IInv, carries the type        *)
(* invariant and the three counting invariants.                            *)
(***************************************************************************)
EXTENDS BulkImport, TLAPS

(* A batch holds a natural number of documents, whatever the configuration *)
(* asks for.                                                               *)
LEMMA PerBatchType == PerBatch \in Nat
  BY ConfigAssumption DEF PerBatch

(* Arithmetic of whole batches, kept away from the steps that use it.      *)
LEMMA OneMoreBatch ==
  ASSUME NEW n \in Int
  PROVE  /\ n * PerBatch \in Int
         /\ (n + 1) * PerBatch = n * PerBatch + PerBatch
         /\ n <= 0 => n * PerBatch <= 0
  BY PerBatchType

(* The initial states satisfy the inductive invariant: nothing is counted  *)
(* and nothing is stored before the first setup.                           *)
LEMMA InitIInv == Init => IInv
  <1> SUFFICES ASSUME Init PROVE IInv
    OBVIOUS
  <1> USE PerBatchType, ConfigAssumption
  <1>a. stored \in [Runs -> [Batches -> 0..PerBatch]]
    BY DEF Init, Nothing
  <1>b. databases \in [Names -> {"absent", "empty", "ready"}]
    BY DEF Init
  <1>c. failed \in BOOLEAN
    BY DEF Init
  <1>d. /\ run \in Runs
        /\ batch \in 0..NumberOfBatches
        /\ total \in Nat /\ caught \in Nat
    BY DEF Init, Runs
  <1>1. TypeOK
    BY <1>a, <1>b, <1>c, <1>d DEF Init, TypeOK, SetupPCs
  <1>2. ReportIsBounded
    BY PerBatchType DEF Init, ReportIsBounded
  <1> QED
    BY <1>1, <1>2
    DEF Init, IInv, ProgramCounter, SummaryIsFull, SummaryIsPaid, NoAnswerNoProgress,
        CleanRunIsExact, InLoop, SetupPCs, LoopPCs

(* What a call to the service may do to the store keeps its type and       *)
(* touches no other batch.                                                 *)
LEMMA UpsertStored ==
  ASSUME TypeOK, batch \in Batches, NEW n \in 0..PerBatch, Upsert(n)
  PROVE  /\ stored' \in [Runs -> [Batches -> 0..PerBatch]]
         /\ stored'[run][batch] \in n..PerBatch
         /\ \A b \in Batches : b # batch => stored'[run][b] = stored[run][b]
         /\ \A r \in Runs, b \in Batches : stored'[r][b] >= stored[r][b]
  <1>1. PICK s \in AtLeast(stored[run][batch], n)..PerBatch :
               stored' = [stored EXCEPT ![run][batch] = s]
    BY DEF Upsert
  <1>2. stored[run][batch] \in 0..PerBatch
    BY DEF TypeOK
  <1>3. s \in n..PerBatch /\ s >= stored[run][batch]
    BY <1>1, <1>2, PerBatchType DEF AtLeast
  <1>4. ASSUME NEW r \in Runs, NEW b \in Batches
        PROVE  stored'[r][b] >= stored[r][b]
    BY <1>1, <1>3, PerBatchType DEF TypeOK
  <1> QED
    BY <1>1, <1>3, <1>4, PerBatchType DEF TypeOK

(* Dropping the database empties the store and keeps the types.            *)
LEMMA DropStored ==
  ASSUME TypeOK, DropDatabase
  PROVE  /\ databases' \in [Names -> {"absent", "empty", "ready"}]
         /\ stored' \in [Runs -> [Batches -> 0..PerBatch]]
  BY PerBatchType DEF TypeOK, DropDatabase, Nothing, Names

(* Every step keeps the types.                                             *)
LEMMA TypeStep == IInv /\ [Next]_vars => TypeOK'
  <1> SUFFICES ASSUME IInv, [Next]_vars PROVE TypeOK'
    OBVIOUS
  <1> USE PerBatchType, ConfigAssumption
  <1>0. TypeOK /\ ProgramCounter
    BY DEF IInv
  <1>1. CASE DeleteOldDatabase
    BY <1>0, <1>1, DropStored DEF TypeOK, DeleteOldDatabase, SetupPCs
  <1>2. CASE CreateDatabase \/ CreateCollection
    BY <1>0, <1>2 DEF TypeOK, CreateDatabase, CreateCollection, Fault, SetupPCs, StoppedPCs, Names
  <1>3. CASE FindCollection \/ Initialize
    BY <1>0, <1>3 DEF TypeOK, FindCollection, Initialize, Fault, SetupPCs, LoopPCs, StoppedPCs
  <1>4. CASE StartBatch
    BY <1>0, <1>4 DEF TypeOK, StartBatch, LoopPCs
  <1>5. ASSUME NEW n \in 0..PerBatch, ImportReturns(n) PROVE TypeOK'
    <2>1. batch \in Batches
      BY <1>0, <1>5 DEF TypeOK, ProgramCounter, ImportReturns, Batches
    <2>2. stored' \in [Runs -> [Batches -> 0..PerBatch]]
      BY <1>0, <1>5, <2>1, UpsertStored DEF ImportReturns
    <2> QED
      BY <1>0, <1>5, <2>2 DEF TypeOK, ImportReturns, LoopPCs
  <1>6. CASE ImportThrows
    <2>1. batch \in Batches
      BY <1>0, <1>6 DEF TypeOK, ProgramCounter, ImportThrows, Batches
    <2>2. stored' \in [Runs -> [Batches -> 0..PerBatch]]
      BY <1>0, <1>6, <2>1, UpsertStored DEF ImportThrows
    <2> QED
      BY <1>0, <1>6, <2>2 DEF TypeOK, ImportThrows, LoopPCs
  <1>7. CASE Summarise
    BY <1>0, <1>7
    DEF TypeOK, ProgramCounter, Summarise, Fault, AddedToTotal, LoopPCs, StoppedPCs
  <1>8. CASE FinishLoop
    BY <1>0, <1>8 DEF TypeOK, FinishLoop, LoopPCs, StoppedPCs
  <1>9. CASE CleanupOnFinish
    BY <1>0, <1>9, DropStored DEF TypeOK, CleanupOnFinish, StoppedPCs
  <1>10. CASE SetupThrows \/ CleanupThrows
    BY <1>0, <1>10 DEF TypeOK, SetupThrows, CleanupThrows, ServiceThrows, Fault, StoppedPCs
  <1>11. CASE HostStops
    <2>1. stored' \in [Runs -> [Batches -> 0..PerBatch]]
      <3>1. CASE pc = "import"
        <4>1. batch \in Batches /\ Upsert(0)
          BY <1>0, <1>11, <3>1 DEF TypeOK, ProgramCounter, HostStops, Batches
        <4> QED
          BY <1>0, <4>1, UpsertStored
      <3>2. CASE pc # "import"
        BY <1>0, <1>11, <3>2 DEF TypeOK, HostStops
      <3> QED
        BY <3>1, <3>2
    <2> QED
      BY <1>0, <1>11, <2>1 DEF TypeOK, HostStops, StoppedPCs
  <1>12. CASE Restart
    <2>1. run' \in Runs /\ total' \in Nat /\ caught' \in Nat /\ batch' \in 0..NumberOfBatches
      BY <1>0, <1>12 DEF TypeOK, Restart, Runs
    <2>2. failed' \in BOOLEAN /\ config' \in Config
      BY <1>12 DEF Restart
    <2> QED
      BY <1>0, <1>12, <2>1, <2>2 DEF TypeOK, Restart, SetupPCs
  <1>13. CASE UNCHANGED vars
    BY <1>0, <1>13 DEF TypeOK, vars
  <1> QED
    BY <1>1, <1>2, <1>3, <1>4, <1>5, <1>6, <1>7, <1>8, <1>9, <1>10, <1>11, <1>12, <1>13
    DEF Next, Setup, Import, Failure, ImportShort, ImportComplete

(* The step that carries the argument: the summary of a batch adds a full  *)
(* response, or one that an exception has already paid for.                *)
LEMMA SummariseStep == IInv /\ TypeOK' /\ Summarise => IInv'
  <1> SUFFICES ASSUME IInv, TypeOK', Summarise PROVE IInv'
    OBVIOUS
  <1> USE PerBatchType
  <1>0. TypeOK /\ ProgramCounter /\ NoAnswerNoProgress /\ ReportIsBounded
        /\ CleanRunIsExact /\ SummaryIsFull /\ SummaryIsPaid
    BY DEF IInv
  <1>1. CASE response = Null
    <2>1. pc' = "faulted" /\ UNCHANGED <<batch, total, config, stored, run, response, caught>>
      BY <1>1 DEF Summarise, Fault
    <2> QED
      BY <1>0, <2>1
      DEF IInv, ProgramCounter, NoAnswerNoProgress, ReportIsBounded, CleanRunIsExact,
          SummaryIsFull, SummaryIsPaid, InLoop, LoadedUpTo, SetupPCs, LoopPCs
  <1>2. CASE response # Null
    <2>1. /\ pc = "summary" /\ pc' = "loop"
          /\ batch' = batch + 1 /\ total' = total + response
          /\ UNCHANGED <<config, stored, run, response, caught>>
      BY <1>2 DEF Summarise, AddedToTotal
    <2>2. /\ batch \in Int /\ caught \in Int /\ total \in Int
          /\ response \in 0..PerBatch
      BY <1>0, <1>2 DEF TypeOK
    <2>3. ReportIsBounded'
      <3>1. (batch + 1) * PerBatch = batch * PerBatch + PerBatch /\ batch * PerBatch \in Int
        BY <2>2, OneMoreBatch
      <3>2. /\ (batch - caught + 1) * PerBatch = (batch - caught) * PerBatch + PerBatch
            /\ (batch - caught) * PerBatch \in Int
        BY <2>2, OneMoreBatch
      <3>3. total + response <= (batch + 1) * PerBatch
        BY <1>0, <2>2, <3>1 DEF ReportIsBounded
      <3>4. total + response >= (batch - caught + 1) * PerBatch
        <4>1. CASE response = PerBatch
          BY <1>0, <2>2, <3>2, <4>1 DEF ReportIsBounded
        <4>2. CASE response # PerBatch
          <5>1. batch + 1 - caught = batch - caught + 1
            BY <2>2
          <5>2. total >= (batch - caught + 1) * PerBatch
            BY <1>0, <2>1, <4>2, <5>1 DEF SummaryIsPaid
          <5> QED
            BY <2>2, <3>2, <5>2
        <4> QED
          BY <4>1, <4>2
      <3>5. batch' - caught' = batch - caught + 1
        BY <2>1, <2>2
      <3> QED
        BY <2>1, <3>3, <3>4, <3>5 DEF ReportIsBounded
    <2>4. CleanRunIsExact'
      <3> SUFFICES ASSUME caught = 0
                   PROVE  total' = batch' * PerBatch /\ LoadedUpTo(batch)'
        BY <2>1 DEF CleanRunIsExact
      <3>1. total = batch * PerBatch /\ LoadedUpTo(batch)
        BY <1>0, <2>1 DEF CleanRunIsExact, InLoop, LoopPCs
      <3>2. response = PerBatch /\ stored[run][batch] = PerBatch
        BY <1>0, <2>1 DEF SummaryIsFull
      <3>3. (batch + 1) * PerBatch = batch * PerBatch + PerBatch
        BY <2>2, OneMoreBatch
      <3>4. \A b \in Batches : b < batch + 1 => b < batch \/ b = batch
        BY <1>0 DEF TypeOK, Batches, ProgramCounter
      <3> QED
        BY <2>1, <3>1, <3>2, <3>3, <3>4 DEF LoadedUpTo
    <2> QED
      BY <1>0, <1>2, <2>1, <2>3, <2>4
      DEF IInv, ProgramCounter, NoAnswerNoProgress, SummaryIsFull, SummaryIsPaid, SetupPCs
  <1> QED
    BY <1>1, <1>2

(* A call that returns ends the batch only with a full response, and then  *)
(* the service holds the whole batch.                                      *)
LEMMA ImportReturnsStep ==
  ASSUME IInv, TypeOK', NEW n \in 0..PerBatch, ImportReturns(n)
  PROVE  IInv'
  <1> USE PerBatchType
  <1>0. TypeOK /\ ProgramCounter /\ NoAnswerNoProgress /\ ReportIsBounded
        /\ CleanRunIsExact
    BY DEF IInv
  <1>1. /\ pc = "import" /\ response' = n
        /\ UNCHANGED <<config, run, batch, total, caught>>
    BY DEF ImportReturns
  <1>2. pc' = "import" \/ (pc' = "summary" /\ n = PerBatch)
    BY DEF ImportReturns, Incomplete
  <1>3. batch \in Batches
    BY <1>0, <1>1, ConfigAssumption DEF TypeOK, ProgramCounter, Batches
  <1>4. /\ stored'[run][batch] \in n..PerBatch
        /\ \A b \in Batches : b # batch => stored'[run][b] = stored[run][b]
    BY <1>0, <1>3, UpsertStored DEF ImportReturns
  <1>5. n = PerBatch => stored'[run][batch] = PerBatch
    BY <1>4
  <1>6. CleanRunIsExact'
    BY <1>0, <1>1, <1>2, <1>3, <1>4 DEF CleanRunIsExact, InLoop, LoopPCs, LoadedUpTo, Batches
  <1>7. SummaryIsFull' /\ SummaryIsPaid'
    BY <1>1, <1>2, <1>5 DEF SummaryIsFull, SummaryIsPaid
  <1>8. response' # Null
    BY <1>1, ConfigAssumption
  <1> QED
    BY <1>0, <1>1, <1>2, <1>6, <1>7, <1>8
    DEF IInv, ProgramCounter, NoAnswerNoProgress, ReportIsBounded, SetupPCs

(* A call that throws is counted in caught, which pays for the batch.      *)
LEMMA ImportThrowsStep == IInv /\ TypeOK' /\ ImportThrows => IInv'
  <1> SUFFICES ASSUME IInv, TypeOK', ImportThrows PROVE IInv'
    OBVIOUS
  <1> USE PerBatchType
  <1>0. TypeOK /\ ProgramCounter /\ NoAnswerNoProgress /\ ReportIsBounded
    BY DEF IInv
  <1>1. /\ pc = "import" /\ pc' = "summary" /\ caught' = caught + 1
        /\ UNCHANGED <<config, run, batch, total, response>>
    BY DEF ImportThrows
  <1>2. batch \in Int /\ caught \in Nat /\ total \in Nat
    BY <1>0 DEF TypeOK
  <1>3. batch + 1 - (caught + 1) = batch - caught
    BY <1>2
  <1>4. SummaryIsPaid'
    BY <1>0, <1>1, <1>3 DEF SummaryIsPaid, ReportIsBounded
  <1>5. /\ (batch - caught - 1 + 1) * PerBatch = (batch - caught - 1) * PerBatch + PerBatch
        /\ (batch - caught - 1) * PerBatch \in Int
    BY <1>2, OneMoreBatch
  <1>6. batch - caught - 1 + 1 = batch - caught /\ batch - (caught + 1) = batch - caught - 1
    BY <1>2
  <1>7. total >= (batch - (caught + 1)) * PerBatch
    BY <1>0, <1>2, <1>5, <1>6 DEF ReportIsBounded
  <1>8. ReportIsBounded'
    BY <1>0, <1>1, <1>7 DEF ReportIsBounded
  <1>9. caught' # 0
    BY <1>1, <1>2
  <1> QED
    BY <1>0, <1>1, <1>4, <1>8, <1>9
    DEF IInv, ProgramCounter, NoAnswerNoProgress, SummaryIsFull, CleanRunIsExact, SetupPCs

(* Every other step leaves the counters alone, or resets them all.         *)
LEMMA OtherSteps ==
  ASSUME IInv, TypeOK',
         \/ Setup \/ StartBatch \/ FinishLoop \/ CleanupOnFinish
         \/ SetupThrows \/ CleanupThrows \/ HostStops \/ Restart \/ UNCHANGED vars
  PROVE  IInv'
  <1> USE PerBatchType
  <1>0. TypeOK /\ ProgramCounter /\ NoAnswerNoProgress /\ ReportIsBounded
        /\ CleanRunIsExact /\ SummaryIsFull /\ SummaryIsPaid
    BY DEF IInv
  <1> USE DEF IInv, ProgramCounter, NoAnswerNoProgress, ReportIsBounded, CleanRunIsExact,
              SummaryIsFull, SummaryIsPaid, InLoop, SetupPCs, LoopPCs
  <1>1. CASE DeleteOldDatabase \/ CreateDatabase \/ CreateCollection \/ FindCollection
    BY <1>0, <1>1 DEF DeleteOldDatabase, CreateDatabase, CreateCollection, FindCollection, Fault
  <1>2. CASE Initialize
    <2>1. LoadedUpTo(0)'
      BY DEF LoadedUpTo, Batches
    <2> QED
      BY <1>0, <1>2, <2>1 DEF Initialize
  <1>3. CASE StartBatch \/ FinishLoop
    BY <1>0, <1>3 DEF StartBatch, FinishLoop, LoadedUpTo
  <1>4. CASE CleanupOnFinish
    BY <1>0, <1>4 DEF CleanupOnFinish
  <1>5. CASE SetupThrows \/ CleanupThrows \/ HostStops
    BY <1>0, <1>5 DEF SetupThrows, CleanupThrows, ServiceThrows, Fault, HostStops
  <1>6. CASE Restart
    BY <1>0, <1>6 DEF Restart
  <1>7. CASE UNCHANGED vars
    BY <1>0, <1>7 DEF vars, LoadedUpTo
  <1> QED
    BY <1>1, <1>2, <1>3, <1>4, <1>5, <1>6, <1>7 DEF Setup

(* The invariant is inductive.                                             *)
LEMMA StepIInv == IInv /\ [Next]_vars => IInv'
  <1> SUFFICES ASSUME IInv, [Next]_vars PROVE IInv'
    OBVIOUS
  <1>1. TypeOK'
    BY TypeStep
  <1>2. 0..(PerBatch - 1) \subseteq 0..PerBatch /\ PerBatch \in 0..PerBatch
    BY PerBatchType
  <1>3. CASE ImportShort \/ ImportComplete
    BY <1>1, <1>2, <1>3, ImportReturnsStep DEF ImportShort, ImportComplete
  <1>4. CASE Summarise
    BY <1>1, <1>4, SummariseStep
  <1>5. CASE ImportThrows
    BY <1>1, <1>5, ImportThrowsStep
  <1>6. CASE \/ Setup \/ StartBatch \/ FinishLoop \/ CleanupOnFinish
             \/ SetupThrows \/ CleanupThrows \/ HostStops \/ Restart \/ UNCHANGED vars
    BY <1>1, <1>6, OtherSteps
  <1> QED
    BY <1>3, <1>4, <1>5, <1>6 DEF Next, Import, Failure

(* RunBulkImportAsync keeps its inductive invariant.                       *)
THEOREM Invariance == Spec => []IInv
  BY InitIInv, StepIInv, PTL DEF Spec

(* The variables of RunBulkImportAsync keep their types.                   *)
THEOREM TypeCorrect == Spec => []TypeOK
  <1>1. IInv => TypeOK
    BY DEF IInv
  <1> QED
    BY <1>1, Invariance, PTL

(* For any number of documents and batches, a run of RunBulkImportAsync    *)
(* none of whose calls threw counts every batch once and in full, and the  *)
(* store holds them, whatever was resent.                                  *)
THEOREM CleanRuns == Spec => []CleanRunIsExact
  <1>1. IInv => CleanRunIsExact
    BY DEF IInv
  <1> QED
    BY <1>1, Invariance, PTL

(* The totals that RunBulkImportAsync reports are wrong by at most one     *)
(* batch per import call that threw, never above the batches tried, and    *)
(* count nothing before the service has given an answer.                   *)
THEOREM BoundedReports == Spec => []TotalsAreSound
  <1>1. IInv => TotalsAreSound
    BY DEF IInv, TotalsAreSound
  <1> QED
    BY <1>1, Invariance, PTL

(* Documents disappear from the store only through the two cleanups.       *)
LEMMA DropsStep == IInv /\ [Next]_vars => [DropStep]_vars
  <1> SUFFICES ASSUME IInv, Next,
                      NEW r \in Runs, NEW b \in Batches,
                      stored'[r][b] < stored[r][b]
               PROVE  \/ config.onStart /\ pc = "setup"
                      \/ config.onFinish /\ batch = NumberOfBatches
    BY DEF DropStep
  <1> USE PerBatchType, ConfigAssumption
  <1>0. TypeOK /\ ProgramCounter /\ stored[r][b] \in Int
    BY DEF IInv, TypeOK
  <1>1. stored' # stored
    BY <1>0
  <1>2. ASSUME Upsert(0) \/ \E n \in 0..PerBatch : Upsert(n), pc = "import"
        PROVE  FALSE
    <2>1. batch \in Batches
      BY <1>0, <1>2 DEF ProgramCounter, TypeOK, Batches
    <2>2. PICK n \in 0..PerBatch : Upsert(n)
      BY <1>2
    <2> QED
      BY <1>0, <2>1, <2>2, UpsertStored
  <1>3. CASE ImportShort \/ ImportComplete
    BY <1>2, <1>3 DEF ImportShort, ImportComplete, ImportReturns
  <1>4. CASE ImportThrows \/ HostStops
    BY <1>1, <1>2, <1>4 DEF ImportThrows, HostStops
  <1>5. CASE DeleteOldDatabase
    BY <1>5 DEF DeleteOldDatabase
  <1>6. CASE CleanupOnFinish
    BY <1>0, <1>6 DEF CleanupOnFinish, ProgramCounter
  <1> QED
    BY <1>1, <1>3, <1>4, <1>5, <1>6
    DEF Next, Setup, Import, Failure, CreateDatabase, CreateCollection, FindCollection,
        Initialize, StartBatch, Summarise, FinishLoop, SetupThrows, CleanupThrows,
        ServiceThrows, Restart

(* No step of the importer, its host or the service loses stored documents *)
(* unless the configuration asks for the database to be deleted there.     *)
THEOREM DropsAreAsked == Spec => DropsOnlyWhenAsked
  BY Invariance, DropsStep, PTL DEF Spec, DropsOnlyWhenAsked
===============================================================================
