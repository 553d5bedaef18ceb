------------------------------ MODULE PortalCloud ------------------------------
(***************************************************************************)
(* What the two halves of the training portal share: the container the     *)
(* page uploads to, the Cosmos collection the functions write to, and the  *)
(* change feed of that collection.  All of it is outside the repository    *)
(* and modelled from how the portal uses it.                               *)
(***************************************************************************)
EXTENDS Naturals, FiniteSets

CONSTANTS
  Clicks,     \* uploads of the modelled page: UploadFile draws a name for each
  Others,     \* uploads by other users
  Pictures,   \* what can be uploaded
  Readable,   \* the pictures in which the OCR finds a score and a profile
  Nothing,    \* null
  MaxFaults   \* bound: calls that fail

ASSUME CloudAssumption ==
  /\ IsFiniteSet(Clicks) /\ IsFiniteSet(Others)
  /\ Clicks \cap Others = {}
  /\ Readable \subseteq Pictures
  /\ Nothing \notin Pictures
  /\ MaxFaults \in Nat

(* A blob, the event about it and the document it leads to are named alike.*)
Blobs == Clicks \cup Others

VARIABLES
  blob,     \* per name: the picture in the container, or Nothing
  docs,     \* the documents of type submission
  changed,  \* documents whose change the feed has yet to hand out
  faults    \* history: how many calls have failed

cloudVars == <<blob, docs, changed, faults>>

CloudInit ==
  /\ blob = [b \in Blobs |-> Nothing]
  /\ docs = {}
  /\ changed = {}
  /\ faults = 0

Fault == faults < MaxFaults /\ faults' = faults + 1

Exists(b) == blob[b] # Nothing
===============================================================================
