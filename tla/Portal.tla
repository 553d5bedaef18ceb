-------------------------------- MODULE Portal ---------------------------------
(***************************************************************************)
(* The training portal as a whole: the page uploads, the upload event      *)
(* starts the OCR, the OCR stores a document, the change feed has          *)
(* OnDocumentChanged send one message per changed document, and the page   *)
(* answers a message by listing all documents again.                       *)
(***************************************************************************)
EXTENDS PortalFunctions, PortalPage

CONSTANT MaxUses  \* bound: uploads, readings, repeated deliveries and failures in all

ASSUME UsesAssumption == MaxUses \in Nat

vars == <<cloudVars, functionVars, pageVars>>

Init == CloudInit /\ FunctionsInit /\ PageInit

(* The first sent of the batch's messages go out; sending the next throws, *)
(* and the feed does not come back to what it has handed out.              *)
OnDocumentChanged(batch, sent) ==
  /\ batch \subseteq changed
  /\ changed' = changed \ batch
  /\ IF sent = Cardinality(batch) THEN UNCHANGED faults ELSE Fault
  /\ IF page = "connected" THEN notes' = notes + sent ELSE UNCHANGED notes
  /\ missed' = IF page = "connected" /\ sent = Cardinality(batch) THEN missed
               ELSE missed \cup batch
  /\ UNCHANGED <<blob, docs, functionVars, formVars, shown, page, submissions, list, overlapped>>

FeedStep ==
  \E batch \in (SUBSET changed) \ {{}} : OnDocumentChanged(batch, Cardinality(batch))
FeedFails ==
  \E batch \in (SUBSET changed) \ {{}} :
    \E sent \in 0..(Cardinality(batch) - 1) : OnDocumentChanged(batch, sent)

(* Other users matter by the documents they cause.                         *)
OtherUpload(b, p) ==
  /\ ~Exists(b)
  /\ blob' = [blob EXCEPT ![b] = p]
  /\ UNCHANGED <<docs, changed, faults, functionVars, pageVars>>

(* Event Grid delivers every event; that it does so again is left open.    *)
FirstDelivery == \E b \in Blobs : Deliver(<<b, 1>>)
Redelivery == \E b \in Blobs, n \in 2..MaxRuns : Deliver(<<b, n>>)

FunctionsFail ==
  \E i \in Invocations : NothingFound(i) \/ CallThrows(i) \/ KeysRefused(i)
FunctionsProgress == FirstDelivery \/ \E i \in Invocations : Store(i)

Uses ==
  faults + Cardinality(choosing)
         + Cardinality({b \in Blobs : IF b \in Clicks THEN click[b].at # "none" ELSE Exists(b)})
         + Cardinality({i \in Invocations : i[2] > 1 /\ run[i] # "none"})

Step ==
  \/ (FunctionsProgress \/ Redelivery \/ FunctionsFail)
     /\ UNCHANGED pageVars
  \/ FeedStep \/ FeedFails
  \/ (PageSteps \/ UserActs \/ PageFails) /\ UNCHANGED functionVars
  \/ \E b \in Others, p \in Readable : OtherUpload(b, p)

Next == Step /\ Uses' <= MaxUses

Spec == Init /\ [][Next]_vars

(* The services deliver and answer, and the page's thread runs what is     *)
(* ready; nothing is assumed of users and of failures.                     *)
FairSpec ==
  /\ Spec
  /\ WF_vars(FunctionsProgress /\ UNCHANGED pageVars)
  /\ WF_vars(FeedStep)
  /\ WF_vars(PageSteps /\ UNCHANGED functionVars)

-------------------------------------------------------------------------------
ClickState == [at : {"none", "sas", "putting", "answered", "done", "threw"},
               picked : Choices, sent : Choices]
ListState == [at : {"none", "asked", "answered"}, rows : SUBSET docs]
Rows == {Nothing} \cup SUBSET docs

(* The variables have their types, a document stands for a blob that was   *)
(* uploaded, no run began before its upload, and the page shows documents  *)
(* that exist.                                                             *)
TypeOK ==
  /\ blob \in [Blobs -> Choices]
  /\ docs \subseteq {b \in Blobs : Exists(b)}
  /\ changed \subseteq docs /\ missed \subseteq docs
  /\ faults \in 0..MaxFaults
  /\ run \in [Invocations -> {"none", "running", "refused", "done", "lost"}]
  /\ keys \in 0..MaxKeys
  /\ \A i \in Invocations : run[i] # "none" => Exists(i[1])
  /\ page \in {"listing", "connecting", "connected", "closed"}
  /\ submissions \in Rows
  /\ uploading \in BOOLEAN
  /\ files \in Choices
  /\ choosing \subseteq Choices
  /\ shown \in [rows : Rows, modal : BOOLEAN]
  /\ click \in [Clicks -> ClickState]
  /\ list \in [Lists -> ListState]
  /\ notes \in Nat
  /\ overlapped \in BOOLEAN
  /\ disturbed \subseteq Clicks

(* A connected page on which nothing is under way shows every document,    *)
(* but for those whose message was sent while it was not connected; two    *)
(* Handles at once may leave the older of their lists on the page.         *)
QuietPageIsComplete ==
  (/\ page = "connected" /\ submissions # Nothing
   /\ notes = 0 /\ Open = {} /\ changed = {}
   /\ ~overlapped)
    => shown.rows # Nothing /\ docs \ shown.rows \subseteq missed

(* UploadFile sends the file the page held when it was clicked, though it  *)
(* reads the field only after a wait, as long as its dialog stays, no      *)
(* other UploadFile is under way, and no choice was still being read at    *)
(* the click: such a choice is assigned behind the dialog.                 *)
SentWhatWasPicked ==
  \A c \in Clicks \ disturbed :
    /\ click[c].at \in {"putting", "answered"} => click[c].sent = click[c].picked
    /\ click[c].at = "threw" => faults > 0 \/ click[c].picked = Nothing

RunFailed == \E i \in Invocations : run[i] \in {"lost", "refused"}

(* In the end every readable upload has led to a document, unless the host *)
(* that worked on it was brought down, for the event of such an upload has *)
(* been acknowledged and does not come back, or its poll was refused.      *)
RecognisedIsRecorded ==
  <>[](\A b \in Blobs : blob[b] \in Readable =>
         b \in docs \/ \E n \in 1..MaxRuns : run[<<b, n>>] \in {"lost", "refused"})

(* "Hang on while we take a look at your submission" goes away by itself,  *)
(* unless something failed or was refused, or a picture was not readable.  *)
DialogCloses ==
  []<>(\/ ~shown.modal
       \/ faults > 0 \/ RunFailed
       \/ \E c \in Clicks : click[c].at = "threw" \/ (Exists(c) /\ blob[c] \notin Readable))

(* In the end the page shows every document, unless a call failed, a       *)
(* message was sent too early, or handlers overlapped.                     *)
RecordedIsShown ==
  <>[](\/ shown.rows # Nothing /\ docs \subseteq shown.rows \cup missed
       \/ faults > 0 \/ overlapped)
===============================================================================
