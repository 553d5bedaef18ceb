---------------------------- MODULE PortalFunctions ----------------------------
(***************************************************************************)
(* The function "OCR" of the training portal: an upload event makes it     *)
(* post the blob's address to the recognition service, poll for the        *)
(* result, compare the score with the online profile, and upsert a         *)
(* document under the id of the event.  Run is "async void": the runtime   *)
(* counts the event as handled when Run first waits, and an exception      *)
(* after that ends the host with every invocation in it.  Between its      *)
(* waits Run reads nothing that other invocations write but the headers of *)
(* the host's one HttpClient, to which every Run adds the subscription key *)
(* once more: its waits are one wait here, at any moment of which the      *)
(* service may refuse a request with several keys.                         *)
(***************************************************************************)
EXTENDS PortalCloud

CONSTANT MaxRuns  \* bound: deliveries of one event

ASSUME FunctionsAssumption == MaxRuns \in Nat \ {0}

VARIABLES
  run,  \* per blob and delivery of its event: where Run is
  keys  \* values of the key's header in the host's client; MaxKeys stands for more

functionVars == <<run, keys>>

MaxKeys == 2

Invocations == Blobs \X (1..MaxRuns)

FunctionsInit ==
  /\ run = [i \in Invocations |-> "none"]
  /\ keys = 0

AddKey == keys' = IF keys < MaxKeys THEN keys + 1 ELSE keys

(* An event that does not wait for the blob.                               *)
DeliverEarly(i) ==
  /\ run[i] = "none"
  /\ i[2] > 1 => run[<<i[1], i[2] - 1>>] # "none"
  /\ run' = [run EXCEPT ![i] = "running"]
  /\ AddKey
  /\ UNCHANGED cloudVars

(* Deliveries are numbered in the order they are made.                     *)
Deliver(i) ==
  /\ Exists(i[1])
  /\ run[i] = "none"
  /\ i[2] > 1 => run[<<i[1], i[2] - 1>>] # "none"
  /\ run' = [run EXCEPT ![i] = "running"]
  /\ AddKey
  /\ UNCHANGED cloudVars

(* A loop that waits for a status the service never gives.                 *)
RecognisedNever(i) == run[i] = "running" /\ blob[i[1]] = Nothing

(* Any status but "Succeeded" keeps the loop going: an operation that ends *)
(* in "Failed" is polled for as long as the host lives.                    *)
Recognised(i) == run[i] = "running" /\ blob[i[1]] \in Readable

Store(i) ==
  /\ Recognised(i)
  /\ docs' = docs \cup {i[1]}
  /\ changed' = changed \cup {i[1]}
  /\ run' = [run EXCEPT ![i] = "done"]
  /\ UNCHANGED <<blob, faults, keys>>

(* The next host has a client of its own.                                  *)
HostEnds ==
  /\ run' = [j \in Invocations |->
               IF run[j] \in {"running", "refused"} THEN "lost" ELSE run[j]]
  /\ keys' = 0

(* Refused, the post has no "Operation-Location", and First of null throws; *)
(* a refused poll is one more answer that is not "Succeeded".              *)
KeysRefused(i) ==
  /\ run[i] = "running"
  /\ keys > 1
  /\ \/ HostEnds
     \/ run' = [run EXCEPT ![i] = "refused"] /\ UNCHANGED keys
  /\ UNCHANGED cloudVars

(* A result without a score or a profile is dereferenced all the same.     *)
NothingFound(i) ==
  /\ run[i] = "running"
  /\ blob[i[1]] \notin Readable
  /\ HostEnds
  /\ UNCHANGED cloudVars

CallThrows(i) ==
  /\ run[i] = "running"
  /\ Fault
  /\ HostEnds
  /\ UNCHANGED <<blob, docs, changed>>
===============================================================================
