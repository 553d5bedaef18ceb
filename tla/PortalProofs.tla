------------------------------ MODULE PortalProofs -----------------------------
(***************************************************************************)
(* Theorems about the training portal, for any number of users, uploads,   *)
(* deliveries and failures.  The invariant has a part for the list and a   *)
(* part for the form; most actions touch only one of them.                 *)
(***************************************************************************)
EXTENDS Portal, FiniteSetTheorems, TLAPS

(* A list misses no document but those still to be announced, and those    *)
(* that were announced in vain.                                            *)
Covered(rows) == docs \ rows \subseteq missed \cup changed

(* Before the page is connected there is the first listing only; then what *)
(* is rendered is the field.                                               *)
PageInv ==
  /\ page \in {"listing", "connecting"} => Open = {} /\ notes = 0
  /\ page # "listing" => list[0].at = "none"
  /\ page = "connected" /\ submissions # Nothing => shown.rows = submissions

(* Every list that will be on a quiet page is covered.                     *)
LoneHandler ==
  /\ \A g, h \in Open : g = h
  /\ Open # {} => submissions = Nothing
  /\ \A h \in Open : notes = 0 /\ list[h].at = "answered" => Covered(list[h].rows)
  /\ Open = {} /\ notes = 0 /\ submissions # Nothing => Covered(submissions)

ListInv ==
  /\ page = "listing" /\ list[0].at = "answered" => Covered(list[0].rows)
  /\ page = "connecting" => Covered(submissions)
  /\ page = "connected" /\ ~overlapped => LoneHandler

(* An undisturbed UploadFile is the only one and keeps its dialog open,    *)
(* behind which nobody can choose another file and no choice is being read.*)
FormInv ==
  /\ \A c \in Clicks : click[c].at = "putting" => click[c].sent # Nothing
  /\ \A c \in Running \ disturbed : \A d \in Running : c = d
  /\ \A c \in Clicks \ disturbed :
       click[c].at = "sas" =>
         files = click[c].picked /\ uploading /\ shown.modal /\ choosing = {}
  /\ SentWhatWasPicked

IInv == TypeOK /\ PageInv /\ ListInv /\ FormInv

-------------------------------------------------------------------------------
(* The invariant holds when the page is opened.                            *)
LEMMA InitIInv == Init => IInv
<1> SUFFICES ASSUME Init PROVE IInv
  OBVIOUS
<1> USE DEF Init, CloudInit, FunctionsInit, PageInit
<1>1. TypeOK
  <2>1. list \in [Lists -> ListState]
    BY DEF Lists, ListState, Closed
  <2>2. shown \in [rows : Rows, modal : BOOLEAN] /\ submissions \in Rows
    BY DEF Rendered, Rows
  <2>3. click \in [Clicks -> ClickState]
    BY DEF ClickState, Choices
  <2>4. uploading \in BOOLEAN /\ overlapped \in BOOLEAN
    OBVIOUS
  <2>5. faults \in 0..MaxFaults /\ notes \in Nat
    BY CloudAssumption
  <2>6. blob \in [Blobs -> Choices] /\ files \in Choices
    BY DEF Choices
  <2>7. /\ run \in [Invocations -> {"none", "running", "refused", "done", "lost"}]
        /\ keys \in 0..MaxKeys
    BY DEF MaxKeys
  <2> QED
    BY <2>1, <2>2, <2>3, <2>4, <2>5, <2>6, <2>7 DEF TypeOK
<1>2. list[0].at = "asked" /\ \A h \in Handles : list[h].at = "none"
  BY PageAssumption DEF Lists, Handles, Closed
<1>3. PageInv /\ ListInv
  BY <1>2 DEF PageInv, ListInv, Open
<1>4. FormInv
  BY DEF FormInv, Running, SentWhatWasPicked
<1> QED
  BY <1>1, <1>3, <1>4 DEF IInv

-------------------------------------------------------------------------------
(* Types.                                                                  *)

(* A step that touches neither the cloud nor the page's lists.             *)
LEMMA FunctionsType ==
  ASSUME TypeOK, NEW i \in Invocations, UNCHANGED pageVars,
         Deliver(i) \/ Store(i) \/ NothingFound(i) \/ CallThrows(i) \/ KeysRefused(i)
  PROVE  TypeOK'
<1> USE DEF TypeOK, cloudVars, pageVars, formVars, listVars, Exists
<1>0. i[1] \in Blobs
  BY DEF Invocations
<1>1. CASE Deliver(i)
  BY <1>0, <1>1 DEF Deliver, AddKey, MaxKeys, ListState, Rows
<1>2. CASE Store(i)
  <2>1. blob[i[1]] # Nothing
    BY <1>2, CloudAssumption DEF Store, Recognised
  <2>2. docs \subseteq docs' /\ docs' \subseteq {b \in Blobs : Exists(b)}' /\ changed' \subseteq docs'
    BY <1>0, <1>2, <2>1 DEF Store
  <2>3. list' \in [Lists -> ListState]' /\ submissions' \in Rows' /\ shown' \in [rows : Rows, modal : BOOLEAN]'
    BY <2>2 DEF ListState, Rows
  <2>4. run' \in [Invocations -> {"none", "running", "refused", "done", "lost"}]
    BY <1>2 DEF Store
  <2>5. \A j \in Invocations : run'[j] # "none" => Exists(j[1])'
    BY <1>2, <2>1 DEF Store
  <2> QED
    BY <1>2, <2>2, <2>3, <2>4, <2>5 DEF Store
<1>3. CASE NothingFound(i)
  BY <1>3 DEF NothingFound, HostEnds, MaxKeys, ListState, Rows
<1>4. CASE CallThrows(i)
  <2>1. faults' \in 0..MaxFaults
    BY <1>4, CloudAssumption DEF CallThrows, Fault
  <2> QED
    BY <1>4, <2>1 DEF CallThrows, HostEnds, MaxKeys, ListState, Rows
<1>5. CASE KeysRefused(i)
  BY <1>5 DEF KeysRefused, HostEnds, MaxKeys, ListState, Rows
<1> QED
  BY <1>1, <1>2, <1>3, <1>4, <1>5

(* The page's listings.                                                    *)
LEMMA ListType ==
  ASSUME TypeOK, UNCHANGED functionVars,
         \/ \E h \in Lists : Answer(h)
         \/ Listed \/ Connect \/ InitThrows \/ Disconnected
         \/ \E h \in Handles : Handle(h) \/ Handled(h) \/ HandleThrows(h)
  PROVE  TypeOK'
<1> USE DEF TypeOK, cloudVars, functionVars, formVars, Exists
<1>0. /\ 0 \in Lists /\ Handles \subseteq Lists
      /\ Closed \in ListState /\ [at |-> "asked", rows |-> {}] \in ListState
  BY PageAssumption DEF Lists, Handles, Closed, ListState
<1>1. ASSUME NEW h \in Lists, Answer(h) PROVE TypeOK'
  <2>1. list' \in [Lists -> ListState]'
    BY <1>1 DEF Answer, ListState
  <2> QED
    BY <1>1, <2>1 DEF Answer, Rows
<1>2. CASE Listed
  <2>1. list' \in [Lists -> ListState]'
    BY <1>0, <1>2 DEF Listed, ListState
  <2>2. submissions' \in Rows'
    BY <1>0, <1>2 DEF Listed, ListState, Rows
  <2> QED
    BY <1>2, <2>1, <2>2 DEF Listed, Rows
<1>3. CASE Connect
  BY <1>3 DEF Connect, Rendered, ListState, Rows
<1>4. ASSUME NEW h \in Handles, Handle(h) PROVE TypeOK'
  <2>1. list' \in [Lists -> ListState]'
    BY <1>0, <1>4 DEF Handle, ListState
  <2>2. notes' \in Nat
    BY <1>4 DEF Handle
  <2>3. disturbed' \subseteq Clicks
    BY <1>4 DEF Handle, Running
  <2>4. overlapped' \in BOOLEAN /\ uploading' \in BOOLEAN
    BY <1>4 DEF Handle
  <2> QED
    BY <1>4, <2>1, <2>2, <2>3, <2>4 DEF Handle, Rows
<1>5. ASSUME NEW h \in Handles, Handled(h) PROVE TypeOK'
  <2>1. list' \in [Lists -> ListState]'
    BY <1>0, <1>5 DEF Handled, ListState
  <2>2. submissions' \in Rows'
    BY <1>0, <1>5 DEF Handled, ListState, Rows
  <2>3. shown' \in [rows : Rows, modal : BOOLEAN]'
    BY <1>5, <2>2 DEF Handled, Rendered, Rows
  <2> QED
    BY <1>5, <2>1, <2>2, <2>3 DEF Handled
<1>6. ASSUME NEW h \in Handles, HandleThrows(h) PROVE TypeOK'
  <2>1. list' \in [Lists -> ListState]'
    BY <1>0, <1>6 DEF HandleThrows, ListState
  <2>2. faults' \in 0..MaxFaults
    BY <1>6, CloudAssumption DEF HandleThrows, Fault
  <2> QED
    BY <1>6, <2>1, <2>2 DEF HandleThrows, Rows
<1>7. ASSUME NEW lists \in [Lists -> ListState], Close(lists) PROVE TypeOK'
  <2>1. faults' \in 0..MaxFaults
    BY <1>7, CloudAssumption DEF Close, Fault
  <2> QED
    BY <1>7, <2>1 DEF Close, Rows, ListState
<1>8. [list EXCEPT ![0] = Closed] \in [Lists -> ListState]
  BY <1>0
<1>9. CASE InitThrows \/ Disconnected
  BY <1>7, <1>8, <1>9 DEF InitThrows, Disconnected
<1> QED
  BY <1>1, <1>2, <1>3, <1>4, <1>5, <1>6, <1>9

(* The form: which call of UploadFile goes where.                          *)
LEMMA FormType ==
  ASSUME TypeOK, UNCHANGED functionVars, FormInv,
         \/ \E p \in Choices : SetFileRef(p) \/ FilesRead(p) \/ ReadThrows(p)
         \/ \E c \in Clicks : \/ UploadFile(c) \/ Sas(c) \/ PutBlob(c) \/ PutRefused(c)
                             \/ Uploaded(c) \/ UploadThrows(c)
         \/ Cancel
  PROVE  TypeOK'
<1> USE DEF TypeOK, cloudVars, functionVars, listVars, Exists
<1>0. Rendered(submissions, uploading') \in [rows : Rows, modal : BOOLEAN]
        <=> uploading' \in BOOLEAN
  BY DEF Rendered
<1>1. ASSUME NEW p \in Choices, SetFileRef(p) \/ FilesRead(p) PROVE TypeOK'
  BY <1>1, <1>0 DEF SetFileRef, FilesRead, Rows, ListState
<1>9. ASSUME NEW p \in Choices, ReadThrows(p) PROVE TypeOK'
  <2>1. faults' \in 0..MaxFaults
    BY <1>9, CloudAssumption DEF ReadThrows, Fault
  <2> QED
    BY <1>9, <2>1 DEF ReadThrows, Rows, ListState
<1>2. ASSUME NEW c \in Clicks, UploadFile(c) PROVE TypeOK'
  <2>1. click' \in [Clicks -> ClickState]
    BY <1>2 DEF UploadFile, ClickState, Choices
  <2>2. uploading' \in BOOLEAN /\ shown' \in [rows : Rows, modal : BOOLEAN]
    BY <1>2, <1>0 DEF UploadFile
  <2>3. disturbed' \subseteq Clicks
    BY <1>2 DEF UploadFile, Running
  <2> QED
    BY <1>2, <2>1, <2>2, <2>3 DEF UploadFile, Rows, ListState
<1>3. ASSUME NEW c \in Clicks, Sas(c) PROVE TypeOK'
  <2>1. click' \in [Clicks -> ClickState]
    BY <1>3 DEF Sas, ClickState
  <2> QED
    BY <1>3, <2>1 DEF Sas, Rows, ListState
<1>4. ASSUME NEW c \in Clicks, PutBlob(c) PROVE TypeOK'
  <2>1. click' \in [Clicks -> ClickState]
    BY <1>4 DEF PutBlob, ClickState
  <2>2. click[c].sent \in Choices /\ click[c].sent # Nothing /\ c \in Blobs
    BY <1>4 DEF PutBlob, FormInv, ClickState, Blobs
  <2>3. /\ blob' \in [Blobs -> Choices]
        /\ \A b \in Blobs : blob[b] # Nothing => blob'[b] # Nothing
    BY <1>4, <2>2 DEF PutBlob
  <2>4. \A i \in Invocations : run'[i] # "none" => blob'[i[1]] # Nothing
    BY <2>3 DEF Invocations
  <2> QED
    BY <1>4, <2>1, <2>3, <2>4 DEF PutBlob, Rows, ListState
<1>5. ASSUME NEW c \in Clicks, PutRefused(c) PROVE TypeOK'
  <2>1. click' \in [Clicks -> ClickState]
    BY <1>5 DEF PutRefused, ClickState
  <2>2. faults' \in 0..MaxFaults
    BY <1>5, CloudAssumption DEF PutRefused, Fault
  <2> QED
    BY <1>5, <2>1, <2>2 DEF PutRefused, Rows, ListState
<1>6. ASSUME NEW c \in Clicks, Uploaded(c) PROVE TypeOK'
  <2>1. click' \in [Clicks -> ClickState]
    BY <1>6 DEF Uploaded, ClickState, Choices
  <2>2. files' \in Choices /\ shown' \in [rows : Rows, modal : BOOLEAN]
    BY <1>6, <1>0 DEF Uploaded, Choices
  <2> QED
    BY <1>6, <2>1, <2>2 DEF Uploaded, Rows, ListState
<1>7. ASSUME NEW c \in Clicks, UploadThrows(c) PROVE TypeOK'
  <2>1. click' \in [Clicks -> ClickState]
    BY <1>7 DEF UploadThrows, ClickState
  <2>2. faults' \in 0..MaxFaults
    BY <1>7, CloudAssumption DEF UploadThrows, Fault
  <2> QED
    BY <1>7, <2>1, <2>2 DEF UploadThrows, Rows, ListState
<1>8. CASE Cancel
  <2>1. uploading' \in BOOLEAN /\ shown' \in [rows : Rows, modal : BOOLEAN]
    BY <1>8, <1>0 DEF Cancel
  <2>2. disturbed' \subseteq Clicks
    BY <1>8 DEF Cancel, Running
  <2> QED
    BY <1>8, <2>1, <2>2 DEF Cancel, Rows, ListState
<1> QED
  BY <1>1, <1>2, <1>3, <1>4, <1>5, <1>6, <1>7, <1>8, <1>9

(* The feed and other users.                                               *)
LEMMA FeedType ==
  ASSUME TypeOK, NEW batch, NEW sent \in Nat, OnDocumentChanged(batch, sent)
  PROVE  TypeOK'
<1> USE DEF TypeOK, functionVars, formVars, Exists
<1>1. faults' \in 0..MaxFaults /\ notes' \in Nat
  BY CloudAssumption DEF OnDocumentChanged, Fault
<1>2. missed' \subseteq docs' /\ changed' \subseteq docs'
  BY DEF OnDocumentChanged
<1> QED
  BY <1>1, <1>2 DEF OnDocumentChanged, Rows, ListState

LEMMA OtherType ==
  ASSUME TypeOK, NEW b \in Others, NEW p \in Readable, OtherUpload(b, p)
  PROVE  TypeOK'
<1> USE DEF TypeOK, functionVars, pageVars, formVars, listVars, Exists
<1>1. b \in Blobs /\ p \in Choices /\ p # Nothing
  BY CloudAssumption DEF Blobs, Choices
<1>2. /\ blob' \in [Blobs -> Choices]
      /\ \A a \in Blobs : blob[a] # Nothing => blob'[a] # Nothing
  BY <1>1 DEF OtherUpload
<1>3. \A i \in Invocations : run'[i] # "none" => blob'[i[1]] # Nothing
  BY <1>2 DEF OtherUpload, Invocations
<1> QED
  BY <1>2, <1>3 DEF OtherUpload, Rows, ListState

-------------------------------------------------------------------------------
(* The list.                                                               *)

(* What the list's invariant is about.                                     *)
listState == <<docs, changed, missed, page, submissions, list, notes, overlapped>>

(* A step that leaves the lists alone, or renders the field.               *)
LEMMA ListUntouched ==
  ASSUME PageInv, ListInv, UNCHANGED listState,
         shown'.rows = shown.rows \/ shown'.rows = submissions
  PROVE  PageInv' /\ ListInv'
<1> USE DEF listState
<1>1. Open' = Open
  BY DEF Open
<1>2. PageInv'
  BY <1>1 DEF PageInv
<1>3. LoneHandler => LoneHandler'
  BY <1>1 DEF LoneHandler, Covered
<1>4. ListInv'
  BY <1>3 DEF ListInv, Covered
<1> QED
  BY <1>2, <1>4

(* A step that adds documents and announces them later, or in vain.        *)
LEMMA ListAnnounced ==
  ASSUME TypeOK, PageInv, ListInv,
         UNCHANGED <<page, submissions, list, overlapped, shown>>,
         page = "connected" \/ notes' = notes,
         notes' \in Nat,
         \/ notes' = notes /\ docs' \ docs \subseteq missed' \cup changed'
              /\ missed \cup changed \subseteq missed' \cup changed'
         \/ page = "connected" /\ notes' > 0
  PROVE  PageInv' /\ ListInv'
<1>1. Open' = Open
  BY DEF Open
<1>2. PageInv'
  BY <1>1 DEF PageInv
<1>3. ASSUME NEW rows, Covered(rows), notes' = notes,
             docs' \ docs \subseteq missed' \cup changed',
             missed \cup changed \subseteq missed' \cup changed'
      PROVE  docs' \ rows \subseteq missed' \cup changed'
  BY <1>3 DEF Covered
<1>4. LoneHandler => LoneHandler'
  <2>1. CASE notes' > 0
    BY <1>1, <2>1 DEF LoneHandler
  <2>2. CASE notes' = notes
    BY <1>1, <1>3, <2>2 DEF LoneHandler, Covered
  <2> QED
    BY <2>1, <2>2
<1>5. ListInv'
  BY <1>3, <1>4 DEF ListInv, Covered
<1> QED
  BY <1>2, <1>5

(* The actions of the lists themselves.                                    *)
LEMMA ListStep ==
  ASSUME TypeOK, PageInv, ListInv,
         \/ \E h \in Lists : Answer(h)
         \/ Listed \/ Connect \/ InitThrows \/ Disconnected
         \/ \E h \in Handles : Handle(h) \/ Handled(h) \/ HandleThrows(h)
  PROVE  PageInv' /\ ListInv'
<1> USE DEF TypeOK, cloudVars
<1>0. /\ 0 \in Lists /\ 0 \notin Handles /\ Lists = Handles \cup {0}
      /\ \A h \in Lists : list[h].at \in {"none", "asked", "answered"}
  BY PageAssumption DEF Lists, Handles, ListState
<1>1. ASSUME NEW h \in Lists, Answer(h) PROVE PageInv' /\ ListInv'
  <2>1. list'[h].at = "answered" /\ list'[h].rows = docs /\ list[h].at = "asked"
    BY <1>1 DEF Answer
  <2>2. \A g \in Lists \ {h} : list'[g] = list[g]
    BY <1>1 DEF Answer
  <2>3. Open' = Open
    BY <1>0, <2>1, <2>2 DEF Open
  <2>4. PageInv'
    BY <1>0, <1>1, <2>1, <2>2, <2>3 DEF Answer, PageInv
  <2>5. Covered(docs)'
    BY <1>1 DEF Answer, Covered
  <2>6. CASE h = 0
    <3>1. page = "listing"
      BY <2>1, <2>6 DEF PageInv
    <3> QED
      BY <1>1, <2>1, <2>4, <2>5, <2>6, <3>1 DEF Answer, ListInv, Covered
  <2>7. CASE h \in Handles
    <3>1. h \in Open /\ page \notin {"listing", "connecting"}
      BY <1>0, <2>1, <2>7 DEF Open, PageInv
    <3>2. LoneHandler => LoneHandler'
      <4> SUFFICES ASSUME LoneHandler PROVE LoneHandler'
        OBVIOUS
      <4>1. Open' = {h}
        BY <2>3, <3>1 DEF LoneHandler
      <4> QED
        BY <1>1, <2>1, <3>1, <4>1 DEF LoneHandler, Answer, Covered
    <3> QED
      BY <1>1, <2>4, <3>1, <3>2 DEF Answer, ListInv
  <2> QED
    BY <1>0, <2>6, <2>7
<1>2. CASE Listed
  <2>1. page = "listing"
    BY <1>2 DEF Listed, PageInv
  <2>2. Open' = Open /\ list'[0].at = "none"
    BY <1>0, <1>2 DEF Listed, Open, Closed
  <2>3. PageInv'
    BY <1>2, <2>1, <2>2 DEF Listed, PageInv
  <2>4. ListInv'
    BY <1>2, <2>1 DEF Listed, ListInv, Covered
  <2> QED
    BY <2>3, <2>4
<1>3. CASE Connect
  <2>1. Open' = Open /\ Open = {} /\ list[0].at = "none"
    BY <1>3 DEF Connect, Open, PageInv
  <2>2. PageInv'
    BY <1>3, <2>1 DEF Connect, PageInv, Rendered
  <2>3. ListInv'
    BY <1>3, <2>1 DEF Connect, ListInv, LoneHandler, Covered
  <2> QED
    BY <2>2, <2>3
<1>4. ASSUME NEW h \in Handles, Handle(h) PROVE PageInv' /\ ListInv'
  <2>1. list'[h].at = "asked" /\ \A g \in Lists \ {h} : list'[g] = list[g]
    BY <1>0, <1>4 DEF Handle
  <2>2. Open' = Open \cup {h}
    BY <1>0, <2>1 DEF Open
  <2>3. PageInv'
    BY <1>0, <1>4, <2>1 DEF Handle, PageInv
  <2>4. ~overlapped' => LoneHandler'
    <3> SUFFICES ASSUME ~overlapped' PROVE LoneHandler'
      OBVIOUS
    <3>1. Open' = {h}
      BY <1>4, <2>2 DEF Handle
    <3> QED
      BY <1>4, <2>1, <3>1 DEF Handle, LoneHandler
  <2> QED
    BY <1>4, <2>3, <2>4 DEF Handle, ListInv
<1>5. ASSUME NEW h \in Handles, Handled(h) PROVE PageInv' /\ ListInv'
  <2>1. list'[h].at = "none" /\ \A g \in Lists \ {h} : list'[g] = list[g]
    BY <1>0, <1>5 DEF Handled, Closed
  <2>2. Open' = Open \ {h} /\ h \in Open
    BY <1>0, <1>5, <2>1 DEF Open, Handled
  <2>3. PageInv'
    BY <1>0, <1>5, <2>1, <2>2 DEF Handled, PageInv, Rendered
  <2>4. LoneHandler => LoneHandler'
    <3> SUFFICES ASSUME LoneHandler PROVE LoneHandler'
      OBVIOUS
    <3>1. Open' = {}
      BY <2>2 DEF LoneHandler
    <3> QED
      BY <1>5, <2>2, <3>1 DEF Handled, LoneHandler, Covered
  <2> QED
    BY <1>5, <2>2, <2>3, <2>4 DEF Handled, ListInv, PageInv
<1>6. ASSUME NEW h \in Handles, HandleThrows(h) PROVE PageInv' /\ ListInv'
  <2>1. list'[h].at = "none" /\ \A g \in Lists \ {h} : list'[g] = list[g]
    BY <1>0, <1>6 DEF HandleThrows, Closed
  <2>2. Open' = Open \ {h} /\ h \in Open
    BY <1>0, <1>6, <2>1 DEF Open, HandleThrows
  <2>3. PageInv'
    BY <1>0, <1>6, <2>1, <2>2 DEF HandleThrows, PageInv
  <2>4. LoneHandler => LoneHandler'
    <3> SUFFICES ASSUME LoneHandler PROVE LoneHandler'
      OBVIOUS
    <3>1. Open' = {} /\ submissions = Nothing
      BY <2>2 DEF LoneHandler
    <3> QED
      BY <1>6, <3>1 DEF HandleThrows, LoneHandler
  <2> QED
    BY <1>6, <2>2, <2>3, <2>4 DEF HandleThrows, ListInv, PageInv
<1>7. CASE InitThrows \/ Disconnected
  <2>1. page' = "closed" /\ list'[0].at = "none"
    BY <1>0, <1>7 DEF InitThrows, Disconnected, Close, Closed, PageInv
  <2> QED
    BY <2>1 DEF PageInv, ListInv
<1> QED
  BY <1>1, <1>2, <1>3, <1>4, <1>5, <1>6, <1>7

-------------------------------------------------------------------------------
(* The form.                                                               *)

(* A step that leaves the form alone, or renders the field Uploading.      *)
LEMMA FormUntouched ==
  ASSUME TypeOK, FormInv, UNCHANGED formVars, faults' \in Nat, faults' >= faults,
         shown'.modal = shown.modal \/ shown'.modal = uploading
  PROVE  FormInv'
<1>1. faults \in Nat /\ Running' = Running
  BY CloudAssumption DEF TypeOK, formVars, Running
<1>2. SentWhatWasPicked'
  BY <1>1 DEF FormInv, SentWhatWasPicked, formVars
<1> QED
  BY <1>1, <1>2 DEF FormInv, formVars

(* A step that takes the dialog away disturbs whoever is under way.        *)
LEMMA FormDisturbed ==
  ASSUME FormInv, UNCHANGED <<click, faults>>, disturbed' = disturbed \cup Running
  PROVE  FormInv'
<1>1. Running' = Running
  BY DEF Running
<1> QED
  BY <1>1 DEF FormInv, SentWhatWasPicked, Running

(* A step of one UploadFile.                                               *)
LEMMA FormStep ==
  ASSUME TypeOK, FormInv, NEW c \in Clicks,
         \/ UploadFile(c) \/ Sas(c) \/ PutBlob(c) \/ PutRefused(c)
         \/ Uploaded(c) \/ UploadThrows(c)
  PROVE  FormInv'
<1> USE DEF TypeOK, cloudVars, listVars
<1>0. faults \in Nat /\ \A d \in Clicks : click[d] \in ClickState
  BY CloudAssumption
<1>1. CASE UploadFile(c)
  <2>1. /\ click'[c] = [at |-> "sas", picked |-> files, sent |-> Nothing]
        /\ \A d \in Clicks \ {c} : click'[d] = click[d]
    BY <1>1 DEF UploadFile
  <2>2. Running' = Running \cup {c} /\ c \notin Running
    BY <1>1, <2>1 DEF UploadFile, Running
  <2>3. \A d \in Running' \ disturbed' : Running = {} /\ choosing = {} /\ d = c
    BY <1>1, <2>2 DEF UploadFile
  <2>4. \A d \in Running' \ disturbed' : \A e \in Running' : d = e
    BY <2>2, <2>3
  <2>5. shown'.modal = TRUE /\ uploading' = TRUE /\ files' = files /\ choosing' = choosing
    BY <1>1 DEF UploadFile, Rendered
  <2>6. \A d \in Clicks \ disturbed' :
          click'[d].at = "sas" =>
            files' = click'[d].picked /\ uploading' /\ shown'.modal /\ choosing' = {}
    BY <2>1, <2>3, <2>5 DEF Running
  <2>7. SentWhatWasPicked'
    BY <1>1, <2>1 DEF UploadFile, FormInv, SentWhatWasPicked
  <2>8. \A d \in Clicks : click'[d].at = "putting" => click'[d].sent # Nothing
    BY <2>1 DEF FormInv
  <2> QED
    BY <2>4, <2>6, <2>7, <2>8 DEF FormInv
<1>2. CASE Sas(c)
  <2>1. /\ click'[c].at = IF files = Nothing THEN "threw" ELSE "putting"
        /\ click'[c].sent = files /\ click'[c].picked = click[c].picked
        /\ \A d \in Clicks \ {c} : click'[d] = click[d]
    BY <1>0, <1>2 DEF Sas, ClickState
  <2>2. Running' \subseteq Running
    BY <1>2, <2>1 DEF Sas, Running
  <2>3. SentWhatWasPicked'
    BY <1>2, <2>1 DEF Sas, FormInv, SentWhatWasPicked
  <2> QED
    BY <1>2, <2>1, <2>2, <2>3 DEF Sas, FormInv
<1>3. CASE PutBlob(c) \/ PutRefused(c)
  <2>1. /\ click'[c].at = "answered" /\ click[c].at = "putting"
        /\ click'[c].sent = click[c].sent /\ click'[c].picked = click[c].picked
        /\ \A d \in Clicks \ {c} : click'[d] = click[d]
    BY <1>0, <1>3 DEF PutBlob, PutRefused, ClickState
  <2>2. Running' = Running
    BY <2>1 DEF Running
  <2>3. faults' \in Nat /\ faults' >= faults
    BY <1>0, <1>3 DEF PutBlob, PutRefused, Fault
  <2>4. UNCHANGED <<disturbed, files, choosing, uploading, shown>>
    BY <1>3 DEF PutBlob, PutRefused
  <2>5. SentWhatWasPicked'
    BY <1>0, <2>1, <2>3, <2>4 DEF FormInv, SentWhatWasPicked
  <2> QED
    BY <2>1, <2>2, <2>4, <2>5 DEF FormInv
<1>4. CASE Uploaded(c)
  <2>1. /\ click'[c].at = "done"
        /\ \A d \in Clicks \ {c} : click'[d] = click[d]
    BY <1>4 DEF Uploaded
  <2>2. Running' = Running \ {c} /\ c \in Running
    BY <1>4, <2>1 DEF Uploaded, Running
  <2>3. Running' \subseteq disturbed'
    BY <1>4, <2>2 DEF Uploaded, FormInv
  <2>4. SentWhatWasPicked'
    BY <1>4, <2>1 DEF Uploaded, FormInv, SentWhatWasPicked
  <2>5. \A d \in Clicks \ disturbed' : click'[d].at # "sas"
    BY <2>3 DEF Running
  <2> QED
    BY <2>1, <2>3, <2>4, <2>5 DEF FormInv
<1>5. CASE UploadThrows(c)
  <2>1. /\ click'[c].at = "threw"
        /\ \A d \in Clicks \ {c} : click'[d] = click[d]
    BY <1>0, <1>5 DEF UploadThrows, ClickState
  <2>2. Running' \subseteq Running
    BY <1>5, <2>1 DEF UploadThrows, Running
  <2>3. faults' \in Nat /\ faults' > 0
    BY <1>0, <1>5 DEF UploadThrows, Fault
  <2>4. SentWhatWasPicked'
    BY <1>5, <2>1, <2>3 DEF UploadThrows, FormInv, SentWhatWasPicked
  <2> QED
    BY <1>5, <2>1, <2>2, <2>4 DEF UploadThrows, FormInv
<1> QED
  BY <1>1, <1>2, <1>3, <1>4, <1>5

-------------------------------------------------------------------------------
(* Each group of actions keeps the invariant.                              *)

(* The functions add documents and changes, and touch nothing of the page. *)
LEMMA FunctionsKeepIInv ==
  ASSUME IInv, NEW i \in Invocations, UNCHANGED pageVars,
         Deliver(i) \/ Store(i) \/ NothingFound(i) \/ CallThrows(i) \/ KeysRefused(i)
  PROVE  IInv'
<1> USE DEF IInv, pageVars, formVars, listVars
<1>1. TypeOK'
  BY FunctionsType
<1>2. /\ docs' \ docs \subseteq missed' \cup changed'
      /\ missed \cup changed \subseteq missed' \cup changed'
  BY DEF Deliver, Store, NothingFound, CallThrows, KeysRefused, cloudVars
<1>3. PageInv' /\ ListInv'
  <2>1. notes' \in Nat
    BY DEF TypeOK
  <2> QED
    BY <1>2, <2>1, ListAnnounced
<1>4. faults \in Nat /\ faults' \in Nat /\ faults' >= faults
  <2>1. faults \in Nat
    BY CloudAssumption DEF TypeOK
  <2> QED
    BY <2>1 DEF Deliver, Store, NothingFound, CallThrows, KeysRefused, Fault, cloudVars
<1>5. FormInv'
  BY <1>4, FormUntouched
<1> QED
  BY <1>1, <1>3, <1>5

(* The names are finitely many, and so are the messages of a batch.        *)
LEMMA BatchIsFinite ==
  ASSUME TypeOK, NEW batch \in (SUBSET changed) \ {{}}
  PROVE  Cardinality(batch) \in Nat \ {0}
<1>1. IsFiniteSet(Blobs)
  BY CloudAssumption, FS_Union DEF Blobs
<1>2. batch \subseteq Blobs
  BY DEF TypeOK
<1>3. IsFiniteSet(batch)
  BY <1>1, <1>2, FS_Subset
<1> QED
  BY <1>3, FS_CardinalityType, FS_EmptySet

(* What the feed hands out is announced, or was announced in vain.         *)
LEMMA FeedKeepsIInv ==
  ASSUME IInv, NEW batch \in (SUBSET changed) \ {{}}, NEW sent \in 0..Cardinality(batch),
         OnDocumentChanged(batch, sent)
  PROVE  IInv'
<1> USE DEF IInv
<1>0. Cardinality(batch) \in Nat \ {0} /\ sent \in Nat /\ notes \in Nat
  BY BatchIsFinite DEF TypeOK
<1>1. TypeOK'
  BY <1>0, FeedType
<1>2. UNCHANGED <<docs, page, submissions, list, overlapped, shown, formVars>>
  BY DEF OnDocumentChanged
<1>3. PageInv' /\ ListInv'
  <2>1. CASE page = "connected" /\ sent > 0
    BY <1>0, <1>2, <2>1, ListAnnounced DEF OnDocumentChanged
  <2>2. CASE page # "connected" \/ sent = 0
    <3>1. notes' = notes /\ missed' = missed \cup batch /\ changed' = changed \ batch
      BY <1>0, <2>2 DEF OnDocumentChanged
    <3> QED
      BY <1>0, <1>2, <3>1, ListAnnounced
  <2> QED
    BY <1>0, <2>1, <2>2
<1>4. faults \in Nat /\ faults' \in Nat /\ faults' >= faults
  <2>1. faults \in Nat
    BY CloudAssumption DEF TypeOK
  <2> QED
    BY <2>1 DEF OnDocumentChanged, Fault
<1>5. FormInv'
  BY <1>2, <1>4, FormUntouched
<1> QED
  BY <1>1, <1>3, <1>5

(* The listings, and what ends the page's connection.                      *)
LEMMA ListsKeepIInv ==
  ASSUME IInv, UNCHANGED functionVars,
         \/ \E h \in Lists : Answer(h)
         \/ Listed \/ Connect \/ InitThrows \/ Disconnected
         \/ \E h \in Handles : Handle(h) \/ Handled(h) \/ HandleThrows(h)
  PROVE  IInv'
<1> USE DEF IInv
<1>1. TypeOK'
  BY ListType
<1>2. PageInv' /\ ListInv'
  BY ListStep
<1>3. CASE \E h \in Handles : Handle(h)
  <2>1. UNCHANGED <<click, faults>> /\ disturbed' = disturbed \cup Running
    BY <1>3 DEF Handle, cloudVars
  <2> QED
    BY <1>1, <1>2, <2>1, FormDisturbed
<1>4. CASE ~\E h \in Handles : Handle(h)
  <2>1. faults \in Nat
    BY CloudAssumption DEF TypeOK
  <2>2. /\ UNCHANGED formVars /\ faults' \in Nat /\ faults' >= faults
        /\ shown'.modal = shown.modal \/ shown'.modal = uploading
    BY <1>4, <2>1 DEF Answer, Listed, Connect, InitThrows, Disconnected, Handled, HandleThrows,
                      Close, Fault, Rendered, cloudVars
  <2>3. FormInv'
    BY <2>2, FormUntouched
  <2> QED
    BY <1>1, <1>2, <2>3
<1> QED
  BY <1>1, <1>2, <1>3, <1>4

(* The form.                                                               *)
LEMMA FormKeepsIInv ==
  ASSUME IInv, UNCHANGED functionVars,
         \/ \E p \in Choices : SetFileRef(p) \/ FilesRead(p) \/ ReadThrows(p)
         \/ \E c \in Clicks : \/ UploadFile(c) \/ Sas(c) \/ PutBlob(c) \/ PutRefused(c)
                             \/ Uploaded(c) \/ UploadThrows(c)
         \/ Cancel
  PROVE  IInv'
<1> USE DEF IInv
<1>1. TypeOK'
  BY FormType
<1>2. PageInv' /\ ListInv'
  <2>1. UNCHANGED <<docs, changed, listVars>>
    BY DEF cloudVars, SetFileRef, FilesRead, ReadThrows, UploadFile, Sas, PutBlob,
           PutRefused, Uploaded, UploadThrows, Cancel
  <2>2. shown' = shown \/ \E modal : shown' = Rendered(submissions, modal)
    BY DEF SetFileRef, FilesRead, ReadThrows, UploadFile, Sas, PutBlob, PutRefused,
           Uploaded, UploadThrows, Cancel
  <2>3. shown'.rows = shown.rows \/ shown'.rows = submissions
    BY <2>2 DEF Rendered
  <2> QED
    BY <2>1, <2>3, ListUntouched DEF listState, listVars
<1>3. FormInv'
  <2>1. ASSUME NEW p \in Choices, SetFileRef(p) PROVE FormInv'
    <3>1. UNCHANGED <<click, disturbed, faults>> /\ ~shown.modal
      BY <2>1 DEF SetFileRef, FormVisible, cloudVars
    <3>2. Running' = Running
      BY <3>1 DEF Running
    <3> QED
      BY <3>1, <3>2 DEF FormInv, SentWhatWasPicked
  <2>2. ASSUME NEW p \in Choices, FilesRead(p) PROVE FormInv'
    <3>1. UNCHANGED <<click, disturbed, faults>> /\ choosing # {}
      BY <2>2 DEF FilesRead, cloudVars
    <3>2. Running' = Running
      BY <3>1 DEF Running
    <3> QED
      BY <3>1, <3>2 DEF FormInv, SentWhatWasPicked
  <2>3. ASSUME NEW p \in Choices, ReadThrows(p) PROVE FormInv'
    <3>1. UNCHANGED <<click, disturbed>> /\ choosing # {} /\ faults' > 0
      BY <2>3, CloudAssumption DEF ReadThrows, Fault, TypeOK
    <3>2. Running' = Running
      BY <3>1 DEF Running
    <3> QED
      BY <3>1, <3>2 DEF FormInv, SentWhatWasPicked
  <2>4. CASE Cancel
    BY <2>4, FormDisturbed DEF Cancel, cloudVars
  <2> QED
    BY <2>1, <2>2, <2>3, <2>4, FormStep
<1> QED
  BY <1>1, <1>2, <1>3

(* Another user's upload, which this page does not see.                    *)
LEMMA OtherKeepsIInv ==
  ASSUME IInv, NEW b \in Others, NEW p \in Readable, OtherUpload(b, p)
  PROVE  IInv'
<1> USE DEF IInv
<1>1. TypeOK'
  BY OtherType
<1>2. UNCHANGED <<listState, formVars, shown, faults>>
  BY DEF OtherUpload, pageVars, listVars, listState
<1>3. PageInv' /\ ListInv'
  BY <1>2, ListUntouched
<1>4. FormInv'
  <2>1. faults \in Nat
    BY CloudAssumption DEF TypeOK
  <2> QED
    BY <1>2, <2>1, FormUntouched
<1> QED
  BY <1>1, <1>3, <1>4

(* The invariant is inductive.                                             *)
LEMMA StepIInv == IInv /\ [Next]_vars => IInv'
<1> SUFFICES ASSUME IInv, Step \/ UNCHANGED vars PROVE IInv'
  BY DEF Next
<1>1. ASSUME NEW i \in Invocations, UNCHANGED pageVars,
             Deliver(i) \/ Store(i) \/ NothingFound(i) \/ CallThrows(i) \/ KeysRefused(i)
      PROVE  IInv'
  BY <1>1, FunctionsKeepIInv
<1>2. ASSUME FirstDelivery \/ Redelivery PROVE \E i \in Invocations : Deliver(i)
  <2>1. \A b \in Blobs, n \in 1..MaxRuns : <<b, n>> \in Invocations
    BY DEF Invocations
  <2>2. 1 \in 1..MaxRuns /\ 2..MaxRuns \subseteq 1..MaxRuns
    BY FunctionsAssumption
  <2> QED
    BY <1>2, <2>1, <2>2 DEF FirstDelivery, Redelivery
<1>3. ASSUME NEW batch \in (SUBSET changed) \ {{}}, NEW sent \in 0..Cardinality(batch),
             OnDocumentChanged(batch, sent)
      PROVE  IInv'
  BY <1>3, FeedKeepsIInv
<1>4. ASSUME FeedStep \/ FeedFails PROVE IInv'
  <2>1. TypeOK
    BY DEF IInv
  <2>2. \A batch \in (SUBSET changed) \ {{}} :
          /\ Cardinality(batch) \in 0..Cardinality(batch)
          /\ 0..(Cardinality(batch) - 1) \subseteq 0..Cardinality(batch)
    BY <2>1, BatchIsFinite
  <2> QED
    BY <1>3, <1>4, <2>2 DEF FeedStep, FeedFails
<1>5. ASSUME PageSteps \/ UserActs \/ PageFails, UNCHANGED functionVars PROVE IInv'
  BY <1>5, ListsKeepIInv, FormKeepsIInv DEF PageSteps, UserActs, UserChooses, PageFails
<1>6. ASSUME NEW b \in Others, NEW p \in Readable, OtherUpload(b, p) PROVE IInv'
  BY <1>6, OtherKeepsIInv
<1>7. CASE UNCHANGED vars
  <2>1. UNCHANGED <<listState, formVars, shown, faults, cloudVars, listVars, functionVars>>
    BY <1>7 DEF vars, pageVars, listVars, cloudVars, listState
  <2>2. TypeOK'
    BY <2>1 DEF IInv, TypeOK, formVars, cloudVars, functionVars, listVars, Exists, ListState, Rows
  <2>3. faults \in Nat
    BY CloudAssumption DEF IInv, TypeOK
  <2>4. PageInv' /\ ListInv'
    BY <2>1, ListUntouched DEF IInv
  <2>5. FormInv'
    BY <2>1, <2>3, FormUntouched DEF IInv
  <2> QED
    BY <2>2, <2>4, <2>5 DEF IInv
<1> QED
  BY <1>1, <1>2, <1>4, <1>5, <1>6, <1>7 DEF Step, FunctionsProgress, FunctionsFail

-------------------------------------------------------------------------------
(* The strengthened invariant holds in every state of the portal.          *)
THEOREM Invariance == Spec => []IInv
  BY InitIInv, StepIInv, PTL DEF Spec

(* The portal's variables keep their types, however often an event is      *)
(* delivered and whatever fails.                                           *)
THEOREM TypeCorrect == Spec => []TypeOK
<1>1. IInv => TypeOK
  BY DEF IInv
<1> QED
  BY <1>1, Invariance, PTL

(* Handle's listing and its re-rendering leave no document out of a page   *)
(* that is connected and quiet, but for those announced in vain.           *)
THEOREM QuietPages == Spec => []QuietPageIsComplete
<1>1. IInv => QuietPageIsComplete
  BY DEF IInv, PageInv, ListInv, LoneHandler, Covered, QuietPageIsComplete
<1> QED
  BY <1>1, Invariance, PTL

(* UploadFile reads its field after a wait, and still sends the file the   *)
(* page held at the click, as long as it is alone behind its dialog and no *)
(* choice was still being read at the click.                               *)
THEOREM SentFiles == Spec => []SentWhatWasPicked
<1>1. IInv => SentWhatWasPicked
  BY DEF IInv, FormInv
<1> QED
  BY <1>1, Invariance, PTL
===============================================================================
