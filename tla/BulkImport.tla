------------------------------ MODULE BulkImport ------------------------------
(***************************************************************************)
(* The console importer of nosql/: the hosted CosmosService starts         *)
(* CosmosHelper.RunBulkImportAsync in the background, which prepares a     *)
(* Cosmos DB collection and loads NumberOfBatches batches into it, one     *)
(* after the other, retrying each batch until the bulk executor reports    *)
(* that the whole of it was imported.                                      *)
(*                                                                         *)
(* A document is only counted: documents of one batch are interchangeable, *)
(* and stored[r][b] is how many of batch b of the r-th run the service     *)
(* holds.  A batch keeps its ids across retries (they are drawn once,      *)
(* before the retry loop) and imports upsert, so stored[r][b] can never    *)
(* pass PerBatch; a new run draws new ids.                                 *)
(***************************************************************************)
EXTENDS Integers

CONSTANTS
  NumberOfDocumentsToImport,  \* CosmosConfig: documents asked for
  NumberOfBatches,            \* CosmosConfig: batches to split them into
  DatabaseName,               \* CosmosConfig: id of the target database
  CollectionPartitionKey,     \* CosmosConfig: partition key path
  MaxRuns,                    \* bound: process starts that are explored
  Null                        \* the C# null

ASSUME ConfigAssumption ==
  /\ NumberOfDocumentsToImport \in Nat
  /\ NumberOfBatches \in Nat
  /\ MaxRuns \in Nat \ {0}
  /\ Null \notin Int
  /\ DatabaseName # CollectionPartitionKey

VARIABLES
  config,     \* the two cleanup flags of this run
  databases,  \* per database id: "absent", "empty" or "ready" (has the collection)
  stored,     \* documents held by the service, per run and batch
  run,        \* index of the process that is running
  pc,         \* where RunBulkImportAsync is
  batch,      \* i, the batch loop variable
  response,   \* bulkImportResponse: documents imported by the last answered call
  total,      \* totalNumberOfDocumentsInserted
  caught,     \* history: import calls of this run that threw
  failed      \* history: some service call of this run threw

vars == <<config, databases, stored, run, pc, batch, response, total, caught, failed>>

(***************************************************************************)
(* Static data.                                                            *)
(***************************************************************************)
PerBatch == IF NumberOfBatches = 0 THEN 0
            ELSE NumberOfDocumentsToImport \div NumberOfBatches

Runs    == 1..MaxRuns
Batches == 0..(NumberOfBatches - 1)
Names   == {DatabaseName, CollectionPartitionKey}
Config  == [onStart : BOOLEAN, onFinish : BOOLEAN]
Nothing == [r \in Runs |-> [b \in Batches |-> 0]]

SetupPCs   == {"setup", "createDatabase", "createCollection", "initialize"}
LoopPCs    == {"loop", "import", "summary", "finish"}
StoppedPCs == {"done", "faulted", "killed"}
Working    == pc \in SetupPCs \cup LoopPCs

AtLeast(a, b) == IF a < b THEN b ELSE a

(***************************************************************************)
(* A start of the process: CosmosService.StartAsync hands the import to a  *)
(* background task.  The service may hold the database or not, with or     *)
(* without its collection, when the first run starts.                      *)
(***************************************************************************)
Init ==
  /\ config \in Config
  /\ \E s \in {"absent", "empty", "ready"} :
       databases = [n \in Names |-> IF n = DatabaseName THEN s ELSE "absent"]
  /\ stored = Nothing
  /\ run = 1
  /\ pc = "setup"
  /\ batch = 0
  /\ response = Null
  /\ total = 0
  /\ caught = 0
  /\ failed = FALSE

(* An exception leaves RunBulkImportAsync: nobody awaits or observes it.   *)
Fault == pc' = "faulted"

(* The same, because a call to the service threw.                          *)
ServiceThrows ==
  /\ Fault
  /\ failed' = TRUE
  /\ UNCHANGED <<config, databases, stored, run, batch, response, total, caught>>

(* Deleting the database deletes every document any run has put in it.     *)
DropDatabase ==
  /\ databases' = [databases EXCEPT ![DatabaseName] = "absent"]
  /\ stored' = Nothing

(***************************************************************************)
(* SetupCosmosCollection.                                                  *)
(***************************************************************************)
DeleteOldDatabase ==
  /\ pc = "setup" /\ config.onStart
  /\ \/ /\ databases[DatabaseName] # "absent"
        /\ DropDatabase
     \/ /\ databases[DatabaseName] = "absent"
        /\ UNCHANGED <<databases, stored>>
  /\ pc' = "createDatabase"
  /\ UNCHANGED <<config, run, batch, response, total, caught, failed>>

CreateDatabase ==
  /\ pc = "createDatabase"
  /\ databases' = [databases EXCEPT ![DatabaseName] = "empty"]
  /\ pc' = "createCollection"
  /\ UNCHANGED <<config, stored, run, batch, response, total, caught, failed>>

(* The call passes (DatabaseName, CollectionPartitionKey) to parameters    *)
(* declared as (collectionPartitionKey, databaseName).                     *)
CreatedPath == DatabaseName
CreatedIn   == CollectionPartitionKey

(* The service accepts a collection in a database that exists, keyed by a  *)
(* partition key path.                                                     *)
CreationAccepted == databases[CreatedIn] # "absent" /\ CreatedPath = CollectionPartitionKey

CreateCollection ==
  /\ pc = "createCollection"
  /\ IF CreationAccepted
       THEN /\ databases' = [databases EXCEPT ![CreatedIn] = "ready"]
            /\ pc' = "initialize"
       ELSE /\ Fault
            /\ UNCHANGED databases
  /\ UNCHANGED <<config, stored, run, batch, response, total, caught, failed>>

FindCollection ==
  /\ pc = "setup" /\ ~config.onStart
  /\ IF databases[DatabaseName] = "ready" THEN pc' = "initialize" ELSE Fault
  /\ UNCHANGED <<config, databases, stored, run, batch, response, total, caught, failed>>

(* bulkExecutor.InitializeAsync, then the counters are declared.           *)
Initialize ==
  /\ pc = "initialize"
  /\ pc' = "loop"
  /\ UNCHANGED <<config, databases, stored, run, batch, response, total, caught, failed>>

SetupThrows == pc \in SetupPCs /\ ServiceThrows

(***************************************************************************)
(* The batch loop.                                                         *)
(***************************************************************************)
StartBatch ==
  /\ pc = "loop" /\ batch < NumberOfBatches
  /\ pc' = "import"
  /\ UNCHANGED <<config, databases, stored, run, batch, response, total, caught, failed>>

(* While a call is under way the service upserts some of the batch: at     *)
(* least the n documents it will acknowledge, never more than the batch.   *)
UpsertFreshIds(n) == stored' = [stored EXCEPT ![run][batch] = @ + n]
Upsert(n) ==
  \E s \in AtLeast(stored[run][batch], n)..PerBatch :
    stored' = [stored EXCEPT ![run][batch] = s]

(* while (bulkImportResponse.NumberOfDocumentsImported < Count)            *)
IncompleteLoops(n) == n <= PerBatch
IncompleteAny(n)   == n = 0
Incomplete(n)      == n < PerBatch

(* A call that returns: it replaces the shared response.  The loop resends *)
(* the whole batch while the response is short.                            *)
ImportReturns(n) ==
  /\ pc = "import"
  /\ Upsert(n)
  /\ response' = n
  /\ pc' = IF Incomplete(n) THEN "import" ELSE "summary"
  /\ UNCHANGED <<config, databases, run, batch, total, caught, failed>>

ImportShort    == \E n \in 0..(PerBatch - 1) : ImportReturns(n)
ImportComplete == ImportReturns(PerBatch)

(* Both catch blocks print and break: the response stays as it was.        *)
ImportThrows ==
  /\ pc = "import"
  /\ Upsert(0)
  /\ caught' = caught + 1
  /\ failed' = TRUE
  /\ pc' = "summary"
  /\ UNCHANGED <<config, databases, run, batch, response, total>>

(* What one batch adds to the totals.                                      *)
AddedToTotalTwice(t) == t + response + response
AddedToTotal(t) == t + response

(* The summary of a batch: the null response of a first call that threw is *)
(* dereferenced, and the exception comes out of Task.WhenAll.              *)
Summarise ==
  /\ pc = "summary"
  /\ IF response = Null
       THEN Fault /\ UNCHANGED <<batch, total>>
       ELSE /\ total' = AddedToTotal(total)
            /\ batch' = batch + 1
            /\ pc' = "loop"
  /\ UNCHANGED <<config, databases, stored, run, response, caught, failed>>

(***************************************************************************)
(* The overall summary and the cleanup on finish.                          *)
(***************************************************************************)
FinishLoop ==
  /\ pc = "loop" /\ batch = NumberOfBatches
  /\ pc' = IF config.onFinish THEN "finish" ELSE "done"
  /\ UNCHANGED <<config, databases, stored, run, batch, response, total, caught, failed>>

CleanupOnFinish ==
  /\ pc = "finish"
  /\ DropDatabase
  /\ pc' = "done"
  /\ UNCHANGED <<config, run, batch, response, total, caught, failed>>

CleanupThrows == pc = "finish" /\ ServiceThrows

(***************************************************************************)
(* StopAsync returns at once and the process ends whatever the import is   *)
(* doing; a call under way may still land.  Somebody starts it again, with *)
(* the flags as they then are in the settings file.                        *)
(***************************************************************************)
HostStopsCleansUp ==
  /\ Working
  /\ pc' = "killed"
  /\ IF config.onFinish THEN DropDatabase ELSE UNCHANGED <<databases, stored>>
  /\ UNCHANGED <<config, run, batch, response, total, caught, failed>>

HostStops ==
  /\ Working
  /\ pc' = "killed"
  /\ IF pc = "import" THEN Upsert(0) ELSE UNCHANGED stored
  /\ UNCHANGED <<config, databases, run, batch, response, total, caught, failed>>

Restart ==
  /\ pc \in StoppedPCs /\ run < MaxRuns
  /\ run' = run + 1
  /\ config' \in Config
  /\ pc' = "setup"
  /\ batch' = 0
  /\ response' = Null
  /\ total' = 0
  /\ caught' = 0
  /\ failed' = FALSE
  /\ UNCHANGED <<databases, stored>>

Setup == \/ DeleteOldDatabase \/ CreateDatabase \/ CreateCollection
         \/ FindCollection \/ Initialize

Import == \/ StartBatch \/ ImportShort \/ ImportComplete \/ Summarise
          \/ FinishLoop \/ CleanupOnFinish

Failure == SetupThrows \/ ImportThrows \/ CleanupThrows

Next == Setup \/ Import \/ Failure \/ HostStops \/ Restart

Spec == Init /\ [][Next]_vars

(***************************************************************************)
(* The background task is scheduled like any other: its own steps are      *)
(* taken, and a call to the bulk executor returns or throws.  Nothing is   *)
(* assumed of what a call returns, for the retry loop has no limit of its  *)
(* own and the service may answer short for ever.                          *)
(***************************************************************************)
OwnStep == Setup \/ StartBatch \/ Summarise \/ FinishLoop \/ CleanupOnFinish
Answer  == ImportShort \/ ImportComplete \/ ImportThrows

FairSpec == Spec /\ WF_vars(OwnStep) /\ WF_vars(Answer)

-------------------------------------------------------------------------------
TypeOK ==
  /\ config \in Config
  /\ databases \in [Names -> {"absent", "empty", "ready"}]
  /\ stored \in [Runs -> [Batches -> 0..PerBatch]]
  /\ run \in Runs
  /\ pc \in SetupPCs \cup LoopPCs \cup StoppedPCs
  /\ batch \in 0..NumberOfBatches
  /\ response \in (0..PerBatch) \cup {Null}
  /\ total \in Nat
  /\ caught \in Nat
  /\ failed \in BOOLEAN

(* The documents of the first n batches of this run are all in the store.  *)
LoadedUpTo(n) == \A b \in Batches : b < n => stored[run][b] = PerBatch

InLoop == pc \in LoopPCs \/ (pc = "done" /\ ~config.onFinish)

(* A run none of whose import calls threw has counted every batch it has   *)
(* finished once and in full, and the store holds them, however often a    *)
(* batch was resent because the executor imported only a part of it.       *)
CleanRunIsExact ==
  InLoop /\ caught = 0 => /\ total = batch * PerBatch
                          /\ LoadedUpTo(batch)

(* What the summary reports: never more than the batches attempted hold,   *)
(* and never less than the batches whose calls did not throw hold.  A      *)
(* batch that threw adds the response of an earlier call, whatever it was. *)
ReportIsBounded ==
  /\ total <= batch * PerBatch
  /\ total >= (batch - caught) * PerBatch

(* A run that reaches its second batch has had an answer in the first: an  *)
(* exception before any answer ends the run with nothing counted.          *)
NoAnswerNoProgress == response = Null => batch = 0 /\ total = 0

(* The overall summary, when it is printed at all, is within those bounds. *)
TotalsAreSound == ReportIsBounded /\ NoAnswerNoProgress

(* The strengthening that makes the two counting invariants inductive.     *)
(* Between an import call and its summary, a batch whose calls did not     *)
(* throw has a full response and is in the store; one that threw has been  *)
(* paid for by caught.                                                     *)
ProgramCounter ==
  /\ pc \in {"import", "summary"} => batch < NumberOfBatches
  /\ pc \in SetupPCs => /\ batch = 0 /\ total = 0 /\ caught = 0
                        /\ response = Null
  /\ pc = "finish" => config.onFinish /\ batch = NumberOfBatches

SummaryIsFull ==
  pc = "summary" /\ caught = 0 =>
    response = PerBatch /\ stored[run][batch] = PerBatch

SummaryIsPaid ==
  pc = "summary" => \/ response = PerBatch
                    \/ total >= (batch + 1 - caught) * PerBatch

IInv ==
  /\ TypeOK
  /\ ProgramCounter
  /\ SummaryIsFull
  /\ SummaryIsPaid
  /\ NoAnswerNoProgress
  /\ ReportIsBounded
  /\ CleanRunIsExact

(* Stored documents disappear only where the configuration asked for it:   *)
(* before anything else in a run with cleanup on start, or after the last  *)
(* batch of a run with cleanup on finish.  A run that faults or is killed  *)
(* in between leaves what it imported.                                     *)
DropStep ==
  (\E r \in Runs, b \in Batches : stored'[r][b] < stored[r][b])
    => \/ config.onStart /\ pc = "setup"
       \/ config.onFinish /\ batch = NumberOfBatches

DropsOnlyWhenAsked == [][DropStep]_vars

(* The loop holds a batch whose last answer was short.                     *)
Resending == pc = "import" /\ response \in 0..(PerBatch - 1)

(* A run ends (it finishes, faults, or the host stops it) but for one      *)
(* reason: from some point on it resends one batch whose every answer is   *)
(* short, which do/while puts no limit to.  A batch that was answered in   *)
(* full is left, and no other step of the run can keep it from its end.    *)
RunEndsOrResends == []<>~Working \/ <>[]Resending

(* "Cleanup on start if set in config.": unless the service fails, a run   *)
(* with cleanup on start gets its collection.                              *)
CleanupOnStartWorks == config.onStart /\ pc = "faulted" => failed
===============================================================================
