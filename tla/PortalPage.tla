------------------------------ MODULE PortalPage -------------------------------
(***************************************************************************)
(* The submissions page of the training portal.  Its code runs on one      *)
(* thread and is interleaved where it awaits: the listing and connection   *)
(* of OnInitAsync, every SetFileRef, every UploadFile and every Handle may *)
(* be under way at once over the same fields.  What the user sees, and so  *)
(* can click, is what was last rendered.                                   *)
(***************************************************************************)
EXTENDS PortalCloud

CONSTANTS
  MaxHandles,  \* bound: handlers of "submissionUpdated" under way at once
  MaxChoices   \* bound: choices of a file, each another one, being read at once

ASSUME PageAssumption == MaxHandles \in Nat \ {0} /\ MaxChoices \in Nat

VARIABLES
  page,         \* OnInitAsync: "listing", "connecting", then "connected" or "closed"
  submissions,  \* the field: Nothing or a list of documents
  uploading,    \* the field Uploading
  files,        \* the field: the chosen file or Nothing
  choosing,     \* choices that EnumerateFilesAsync is reading
  shown,        \* what was last rendered: [rows, modal]
  click,        \* per UploadFile: [at, picked, sent]; picked is history
  list,         \* per ListSubmissions: [at, rows]; 0 is OnInitAsync's
  notes,        \* "submissionUpdated" messages on their way to the page
  missed,       \* history: documents since the last answered list without a message
  overlapped,   \* history: the handler that began last did not begin and end alone
  disturbed     \* history: UploadFiles that met another, met a choice being read,
                \* or lost their dialog

formVars == <<uploading, files, choosing, click, disturbed>>
listVars == <<page, submissions, list, notes, missed, overlapped>>
pageVars == <<formVars, listVars, shown>>

Choices == Pictures \cup {Nothing}
Handles == 1..MaxHandles
Lists == 0..MaxHandles
Closed == [at |-> "none", rows |-> {}]
Rendered(rows, modal) == [rows |-> rows, modal |-> modal]

PageInit ==
  /\ page = "listing"
  /\ submissions = Nothing
  /\ uploading = FALSE
  /\ files = Nothing
  /\ choosing = {}
  /\ shown = Rendered(Nothing, FALSE)
  /\ click = [c \in Clicks |-> [at |-> "none", picked |-> Nothing, sent |-> Nothing]]
  /\ list = [h \in Lists |-> IF h = 0 THEN [at |-> "asked", rows |-> {}] ELSE Closed]
  /\ notes = 0
  /\ missed = {}
  /\ overlapped = FALSE
  /\ disturbed = {}

-------------------------------------------------------------------------------
(* ListSubmissions and what follows it in its two callers.                 *)

(* GetAll answers with the documents there are.                            *)
Answer(h) ==
  /\ list[h].at = "asked"
  /\ list' = [list EXCEPT ![h] = [at |-> "answered", rows |-> docs]]
  /\ missed' = {}
  /\ UNCHANGED <<cloudVars, formVars, shown, page, submissions, notes, overlapped>>

Listed ==
  /\ list[0].at = "answered"
  /\ submissions' = list[0].rows
  /\ list' = [list EXCEPT ![0] = Closed]
  /\ page' = "connecting"
  /\ UNCHANGED <<cloudVars, formVars, shown, notes, missed, overlapped>>

Connect ==
  /\ page = "connecting"
  /\ page' = "connected"
  /\ shown' = Rendered(submissions, uploading)
  /\ UNCHANGED <<cloudVars, formVars, submissions, list, notes, missed, overlapped>>

Open == {h \in Handles : list[h].at # "none"}
FirstFree(h) == h \notin Open /\ 1..(h - 1) \subseteq Open
Running == {c \in Clicks : click[c].at \in {"sas", "putting", "answered"}}

(* A handler that leaves the dialog to the user.                           *)
HandleKeepsDialog(h) ==
  /\ page = "connected"
  /\ notes > 0
  /\ FirstFree(h)
  /\ notes' = notes - 1
  /\ submissions' = Nothing
  /\ list' = [list EXCEPT ![h] = [at |-> "asked", rows |-> {}]]
  /\ overlapped' = (Open # {})
  /\ UNCHANGED <<cloudVars, shown, page, formVars, missed>>

Handle(h) ==
  /\ page = "connected"
  /\ notes > 0
  /\ FirstFree(h)
  /\ notes' = notes - 1
  /\ uploading' = FALSE
  /\ submissions' = Nothing
  /\ list' = [list EXCEPT ![h] = [at |-> "asked", rows |-> {}]]
  /\ overlapped' = (Open # {})
  /\ disturbed' = disturbed \cup Running
  /\ UNCHANGED <<cloudVars, shown, page, files, choosing, click, missed>>

(* A handler that forgets StateHasChanged.                                 *)
HandledUnseen(h) ==
  /\ list[h].at = "answered"
  /\ submissions' = list[h].rows
  /\ list' = [list EXCEPT ![h] = Closed]
  /\ UNCHANGED <<cloudVars, formVars, shown, page, notes, missed, overlapped>>

Handled(h) ==
  /\ list[h].at = "answered"
  /\ submissions' = list[h].rows
  /\ list' = [list EXCEPT ![h] = Closed]
  /\ shown' = Rendered(submissions', uploading)
  /\ UNCHANGED <<cloudVars, formVars, page, notes, missed, overlapped>>

(* The exception ends the handler, and what it had cleared stays cleared.  *)
HandleThrows(h) ==
  /\ list[h].at = "asked"
  /\ Fault
  /\ list' = [list EXCEPT ![h] = Closed]
  /\ UNCHANGED <<blob, docs, changed, formVars, shown, page, submissions, notes, missed,
                 overlapped>>

Close(lists) ==
  /\ Fault
  /\ page' = "closed"
  /\ list' = lists
  /\ notes' = 0
  /\ UNCHANGED <<blob, docs, changed, formVars, shown, submissions, missed, overlapped>>

(* OnInitAsync throws, or the connection, which nothing reopens, is lost.  *)
InitThrows ==
  \/ page = "listing" /\ list[0].at = "asked" /\ Close([list EXCEPT ![0] = Closed])
  \/ page = "connecting" /\ Close(list)
Disconnected == page = "connected" /\ Close(list)

-------------------------------------------------------------------------------
(* The form and its dialog.                                                *)

FormVisible == shown.rows # Nothing /\ ~shown.modal

(* The user picks a file; the field changes once it was enumerated.        *)
SetFileRef(p) ==
  /\ FormVisible
  /\ p \notin choosing
  /\ Cardinality(choosing) < MaxChoices
  /\ choosing' = choosing \cup {p}
  /\ shown' = Rendered(submissions, uploading)
  /\ UNCHANGED <<cloudVars, listVars, uploading, files, click, disturbed>>

(* Whatever was clicked since, and also behind the dialog.                 *)
FilesRead(p) ==
  /\ p \in choosing
  /\ files' = p
  /\ choosing' = choosing \ {p}
  /\ shown' = Rendered(submissions, uploading)
  /\ UNCHANGED <<cloudVars, listVars, uploading, click, disturbed>>

ReadThrows(p) ==
  /\ p \in choosing
  /\ Fault
  /\ choosing' = choosing \ {p}
  /\ UNCHANGED <<blob, docs, changed, listVars, shown, uploading, files, click, disturbed>>

(* A form that stays open to the user while a file is being sent.          *)
UploadFileOpenly(c) ==
  /\ FormVisible
  /\ click[c].at = "none"
  /\ click' = [click EXCEPT ![c] = [at |-> "sas", picked |-> files, sent |-> Nothing]]
  /\ shown' = Rendered(submissions, uploading)
  /\ disturbed' = IF Running = {} /\ choosing = {} THEN disturbed
                  ELSE disturbed \cup Running \cup {c}
  /\ UNCHANGED <<cloudVars, listVars, uploading, files, choosing>>

UploadFile(c) ==
  /\ FormVisible
  /\ click[c].at = "none"
  /\ click' = [click EXCEPT ![c] = [at |-> "sas", picked |-> files, sent |-> Nothing]]
  /\ uploading' = TRUE
  /\ shown' = Rendered(submissions, uploading')
  /\ disturbed' = IF Running = {} /\ choosing = {} THEN disturbed
                  ELSE disturbed \cup Running \cup {c}
  /\ UNCHANGED <<cloudVars, listVars, files, choosing>>

(* files is read after the wait for the signature; First of null throws.   *)
Sas(c) ==
  /\ click[c].at = "sas"
  /\ click' = [click EXCEPT ![c].at = IF files = Nothing THEN "threw" ELSE "putting",
                            ![c].sent = files]
  /\ UNCHANGED <<cloudVars, listVars, shown, uploading, files, choosing, disturbed>>

PutBlob(c) ==
  /\ click[c].at = "putting"
  /\ blob' = [blob EXCEPT ![c] = click[c].sent]
  /\ click' = [click EXCEPT ![c].at = "answered"]
  /\ UNCHANGED <<docs, changed, faults, listVars, shown, uploading, files, choosing,
                 disturbed>>

(* The status of the answer is not looked at.                              *)
PutRefused(c) ==
  /\ click[c].at = "putting"
  /\ Fault
  /\ click' = [click EXCEPT ![c].at = "answered"]
  /\ UNCHANGED <<blob, docs, changed, listVars, shown, uploading, files, choosing,
                 disturbed>>

Uploaded(c) ==
  /\ click[c].at = "answered"
  /\ files' = Nothing
  /\ click' = [click EXCEPT ![c] = [at |-> "done", picked |-> Nothing, sent |-> Nothing]]
  /\ shown' = Rendered(submissions, uploading)
  /\ disturbed' = disturbed \ {c}
  /\ UNCHANGED <<cloudVars, listVars, uploading, choosing>>

UploadThrows(c) ==
  /\ c \in Running
  /\ Fault
  /\ click' = [click EXCEPT ![c].at = "threw"]
  /\ UNCHANGED <<blob, docs, changed, listVars, shown, uploading, files, choosing,
                 disturbed>>

Cancel ==
  /\ shown.modal
  /\ uploading' = FALSE
  /\ shown' = Rendered(submissions, uploading')
  /\ disturbed' = disturbed \cup Running
  /\ UNCHANGED <<cloudVars, listVars, files, choosing, click>>

-------------------------------------------------------------------------------
PageFails ==
  \/ \E h \in Handles : HandleThrows(h)
  \/ InitThrows
  \/ Disconnected
  \/ \E c \in Clicks : PutRefused(c) \/ UploadThrows(c)
  \/ \E p \in Choices : ReadThrows(p)

(* A choice, and the reading of it, which nothing else waits for.          *)
UserChooses == \E p \in Choices : SetFileRef(p) \/ FilesRead(p)

UserActs ==
  \/ UserChooses
  \/ \E c \in Clicks : UploadFile(c)
  \/ Cancel

PageSteps ==
  \/ \E h \in Lists : Answer(h)
  \/ Listed
  \/ Connect
  \/ \E h \in Handles : Handle(h) \/ Handled(h)
  \/ \E c \in Clicks : Sas(c) \/ PutBlob(c) \/ Uploaded(c)
===============================================================================
