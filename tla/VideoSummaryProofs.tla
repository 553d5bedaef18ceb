-------------------------- MODULE VideoSummaryProofs --------------------------
(***************************************************************************)
(* Proofs about the thumbnail summary, for any number of deliveries,       *)
(* events, assets and pages, and any number of host crashes.               *)
(***************************************************************************)
EXTENDS VideoSummary, TLAPS

(* A listing that is still being read has not reached its last page.       *)
ListGoesOn ==
  \A x \in Executions :
    pc[x] = "list" /\ listing[x] # Null =>
      listing[x].page < NumPages[listing[x].asset]

(* Without an exception the finally block comes after an upload.           *)
HasUploaded(x) == \E u \in uploads : u.execution = x
CleanMeansUploaded ==
  \A x \in Executions : pc[x] = "finally" /\ x \notin thrown => HasUploaded(x)

(* The static container belongs to every event that runs undisturbed, and  *)
(* so does all that lies in its directory.                                 *)
OwnContainer ==
  \A x \in Executions :
    Active(x) /\ EventOf[x] \notin overlapped => container = Asset(x)

OwnDirectory ==
  \A j \in Events \ overlapped :
    dir[j] # Null => /\ dir[j].thumbs \subseteq {AssetOf[j]}
                     /\ dir[j].summary \in {Null, AssetOf[j]}

IInv == /\ TypeOK /\ ListGoesOn /\ NoLeak
        /\ CleanMeansUploaded /\ ReturnedUploaded
        /\ OwnContainer /\ OwnDirectory /\ AloneMeansOwn

(* The parts of an execution that the constants determine.                 *)
LEMMA ExecutionParts ==
  ASSUME NEW x \in Executions
  PROVE  EventOf[x] \in Events /\ Asset(x) \in Assets /\ Asset(x) # Null
BY SummaryAssumption DEF Asset

(* Null is neither a page nor a directory.                                 *)
LEMMA NullIsApart ==
  /\ \A l \in Listings : l # Null
  /\ \A d \in Directories : d # Null
  /\ EmptyDir \in Directories
BY SummaryAssumption DEF EmptyDir, Directories

(* Moving one execution leaves the others where they are.                  *)
LEMMA OneMoves ==
  ASSUME TypeOK, NEW x \in Executions, NEW to \in PCs, pc' = [pc EXCEPT ![x] = to]
  PROVE  /\ pc' \in [Executions -> PCs]
         /\ pc'[x] = to
         /\ \A y \in Executions \ {x} : pc'[y] = pc[y]
BY DEF TypeOK

(* Nothing has been delivered: no directory, no listing, no upload.        *)
LEMMA InitHolds == Init => IInv
<1> SUFFICES ASSUME Init PROVE IInv
  OBVIOUS
<1>1. TypeOK
  <2>1. connectionValid \in BOOLEAN
    BY DEF Init
  <2>2. pc \in [Executions -> PCs]
    BY DEF Init, PCs
  <2>3. crashes \in 0..MaxCrashes
    BY SummaryAssumption DEF Init
  <2> QED
    BY <2>1, <2>2, <2>3 DEF Init, TypeOK, Active, ActivePCs, InTry
<1> QED
  BY <1>1 DEF Init, IInv, ListGoesOn, NoLeak, CleanMeansUploaded, ReturnedUploaded,
     OwnContainer, OwnDirectory, AloneMeansOwn, Active, ActivePCs, InTry

(* A step of one execution that stays inside Run, does not touch the       *)
(* static container, and leaves every directory of another event alone.    *)
LEMMA StayInRun ==
  ASSUME IInv, NEW x \in Executions, NEW to \in ActivePCs, Active(x),
         pc' = [pc EXCEPT ![x] = to],
         thrown' \in {thrown, thrown \cup {x}},
         UNCHANGED <<connectionValid, container, overlapped, crashes>>,
         dir' \in [Events -> Directories \cup {Null}],
         \A j \in Events \ {EventOf[x]} : dir'[j] = dir[j],
         OwnDirectory',
         listing' \in [Executions -> Listings \cup {Null}],
         \A y \in Executions \ {x} : listing'[y] = listing[y],
         listing'[x] # Null => listing'[x].page <= NumPages[listing'[x].asset],
         to # "finally" => to = "list" \/ listing'[x] # Null,
         to = "list" /\ listing'[x] # Null =>
           listing'[x].page < NumPages[listing'[x].asset],
         uploads \subseteq uploads',
         uploads' \subseteq [execution : Executions, to : Assets, of : Assets],
         AloneMeansOwn',
         to = "finally" => x \in thrown' \/ \E u \in uploads' : u.execution = x
  PROVE  IInv'
<1>1. TypeOK /\ to \in PCs
  BY DEF IInv, PCs
<1>2. /\ pc' \in [Executions -> PCs]
      /\ pc'[x] = to
      /\ \A y \in Executions \ {x} : pc'[y] = pc[y]
  BY <1>1, OneMoves
<1>3. \A y \in Executions : Active(y)' <=> Active(y)
  BY <1>2 DEF Active
<1>4. TypeOK'
  <2>1. connectionValid' \in BOOLEAN
    BY <1>1 DEF TypeOK
  <2>2. \A y \in Executions :
          /\ Active(y)' => container' # Null
          /\ listing'[y] # Null => listing'[y].page <= NumPages[listing'[y].asset]
          /\ pc'[y] \in {"download", "ffmpeg", "upload"} => listing'[y] # Null
    BY <1>1, <1>2, <1>3 DEF TypeOK
  <2> QED
    BY <1>1, <1>2, <2>1, <2>2 DEF TypeOK
<1>5. ListGoesOn'
  BY <1>2 DEF IInv, ListGoesOn
<1>6. NoLeak'
  <2> SUFFICES ASSUME NEW j \in Events, dir'[j] # Null, connectionValid
               PROVE  \E y \in Executions :
                        EventOf[y] = j /\ (Active(y)' \/ pc'[y] = "scheduled")
    BY DEF NoLeak
  <2>1. CASE j = EventOf[x]
    BY <1>3, <2>1
  <2>2. CASE j # EventOf[x]
    <3>1. PICK y \in Executions : EventOf[y] = j /\ (Active(y) \/ pc[y] = "scheduled")
      BY <2>2 DEF IInv, NoLeak
    <3> QED
      BY <1>2, <1>3, <2>2, <3>1
  <2> QED
    BY <2>1, <2>2
<1>7. CleanMeansUploaded' /\ ReturnedUploaded'
  BY <1>2 DEF IInv, CleanMeansUploaded, ReturnedUploaded, HasUploaded, ActivePCs, InTry
<1>8. OwnContainer'
  BY <1>3 DEF IInv, OwnContainer, Asset
<1> QED
  BY <1>4, <1>5, <1>6, <1>7, <1>8 DEF IInv

(* The special case of a step that changes neither directories nor         *)
(* listings nor uploads and does not return to the listing.                *)
LEMMA OnlyMoves ==
  ASSUME IInv, NEW x \in Executions, Active(x),
         NEW to \in {"ffmpeg", "upload", "finally"},
         to # "finally" => listing[x] # Null,
         to = "finally" => x \in thrown',
         pc' = [pc EXCEPT ![x] = to],
         thrown' \in {thrown, thrown \cup {x}},
         UNCHANGED <<connectionValid, container, dir, listing, overlapped, uploads,
                     crashes>>
  PROVE  IInv'
<1>1. to \in ActivePCs
  BY DEF ActivePCs, InTry
<1>2. dir' \in [Events -> Directories \cup {Null}]
  BY DEF IInv, TypeOK
<1>3. listing' \in [Executions -> Listings \cup {Null}]
  BY DEF IInv, TypeOK
<1>4. OwnDirectory' /\ AloneMeansOwn'
  BY DEF IInv, OwnDirectory, AloneMeansOwn, Asset
<1>5. listing'[x] # Null => listing'[x].page <= NumPages[listing'[x].asset]
  BY DEF IInv, TypeOK
<1>6. uploads' \subseteq [execution : Executions, to : Assets, of : Assets]
  BY DEF IInv, TypeOK
<1> QED
  BY <1>1, <1>2, <1>3, <1>4, <1>5, <1>6, StayInRun

(* An exception inside the try block leads to the finally block.           *)
LEMMA ThrowsStep ==
  ASSUME IInv, NEW x \in Executions, pc[x] \in InTry, Throws(x),
         UNCHANGED <<connectionValid, container, dir, listing, overlapped, uploads,
                     crashes>>
  PROVE  IInv'
<1>1. Active(x)
  BY DEF Active, ActivePCs
<1> QED
  BY <1>1, OnlyMoves DEF Throws

(* Every page asked for exists in the container it is asked of, also when  *)
(* the token came from another container.                                  *)
LEMMA ListPageStep ==
  ASSUME IInv, NEW x \in Executions, ListPage(x) PROVE IInv'
<1>1. TypeOK /\ Active(x) /\ container \in Assets
  BY DEF IInv, TypeOK, ListPage, Active, ActivePCs, InTry
<1>2. PICK p \in PagesAnswered(x) :
        /\ listing' = [listing EXCEPT ![x] = [asset |-> container, page |-> p]]
        /\ Proceeds(x, IF LastPage(container, p) THEN "download" ELSE "list")
  BY DEF ListPage
<1>3. NumPages[container] \in Nat \ {0}
  BY <1>1, SummaryAssumption
<1>4. p \in 1..NumPages[container]
  <2>1. CASE listing[x] = Null
    BY <1>3, <2>1 DEF PagesAnswered
  <2>2. CASE listing[x] # Null /\ listing[x].asset = container
    <3>1. listing[x].page \in Nat \ {0} /\ listing[x].page < NumPages[container]
      BY <1>1, <2>2 DEF IInv, ListGoesOn, ListPage, TypeOK, Listings
    <3>2. p = listing[x].page + 1
      BY <2>2 DEF PagesAnswered, NextPage
    <3> QED
      BY <1>3, <3>1, <3>2
  <2>3. CASE listing[x] # Null /\ listing[x].asset # container
    BY <2>3 DEF PagesAnswered
  <2> QED
    BY <2>1, <2>2, <2>3
<1> DEFINE l == [asset |-> container, page |-> p]
           to == IF p = NumPages[container] THEN "download" ELSE "list"
<1>5. l \in Listings /\ l # Null
  BY <1>1, <1>3, <1>4, NullIsApart DEF Listings
<1>6. /\ listing' \in [Executions -> Listings \cup {Null}]
      /\ listing'[x] = l
      /\ \A y \in Executions \ {x} : listing'[y] = listing[y]
  BY <1>1, <1>2, <1>5 DEF TypeOK
<1>7. /\ listing'[x].page <= NumPages[listing'[x].asset]
      /\ p # NumPages[container] => listing'[x].page < NumPages[listing'[x].asset]
  BY <1>3, <1>4, <1>6
<1>8. pc' = [pc EXCEPT ![x] = to] /\ thrown' = thrown
  BY <1>2 DEF Proceeds, LastPage
<1>9. to \in ActivePCs /\ to # "finally"
  BY DEF ActivePCs, InTry
<1>10. OwnDirectory' /\ AloneMeansOwn'
  BY DEF IInv, OwnDirectory, AloneMeansOwn, ListPage, Asset
<1>11. dir' \in [Events -> Directories \cup {Null}]
  BY <1>1 DEF TypeOK, ListPage
<1>12. uploads' \subseteq [execution : Executions, to : Assets, of : Assets]
  BY <1>1 DEF TypeOK, ListPage
<1>13. PICK t : t = to
  OBVIOUS
<1> HIDE DEF to, l
<1>14. t = "list" => p # NumPages[container]
  BY <1>13 DEF to
<1>15. t \in ActivePCs /\ t # "finally" /\ pc' = [pc EXCEPT ![x] = t]
  BY <1>8, <1>9, <1>13
<1>16. listing'[x] # Null
  BY <1>5, <1>6
<1>17. UNCHANGED <<connectionValid, container, dir, overlapped, uploads, crashes>>
  BY DEF ListPage
<1> QED
  BY <1>1, <1>6, <1>7, <1>8, <1>10, <1>11, <1>12, <1>14, <1>15, <1>16, <1>17, StayInRun

(* A step that changes only the contents of the directory of x.            *)
LEMMA WritesDirectory ==
  ASSUME IInv, NEW x \in Executions, Active(x),
         NEW to \in {"ffmpeg", "upload"}, listing[x] # Null,
         Proceeds(x, to),
         NEW d \in Directories,
         dir[EventOf[x]] # Null,
         dir' = [dir EXCEPT ![EventOf[x]] = d],
         EventOf[x] \notin overlapped =>
           d.thumbs \subseteq {Asset(x)} /\ d.summary \in {Null, Asset(x)},
         UNCHANGED <<connectionValid, container, listing, overlapped, uploads, crashes>>
  PROVE  IInv'
<1>1. TypeOK /\ EventOf[x] \in Events
  BY ExecutionParts DEF IInv
<1>2. /\ dir' \in [Events -> Directories \cup {Null}]
      /\ dir'[EventOf[x]] = d
      /\ \A j \in Events \ {EventOf[x]} : dir'[j] = dir[j]
  BY <1>1 DEF TypeOK
<1>3. OwnDirectory'
  BY <1>1, <1>2 DEF IInv, OwnDirectory, Asset
<1>4. AloneMeansOwn'
  BY DEF IInv, AloneMeansOwn, Asset
<1>5. listing'[x] # Null => listing'[x].page <= NumPages[listing'[x].asset]
  BY <1>1 DEF TypeOK
<1>6. uploads' \subseteq [execution : Executions, to : Assets, of : Assets]
  BY <1>1 DEF TypeOK
<1>7. listing' \in [Executions -> Listings \cup {Null}]
  BY <1>1 DEF TypeOK
<1>8. to \in ActivePCs
  BY DEF ActivePCs, InTry
<1> QED
  BY <1>2, <1>3, <1>4, <1>5, <1>6, <1>7, <1>8, StayInRun DEF Proceeds

(* A thumbnail comes from the static container, which is the event's own   *)
(* unless it was overlapped.                                               *)
LEMMA DownloadStep ==
  ASSUME IInv, NEW x \in Executions, Download(x) PROVE IInv'
<1> DEFINE j == EventOf[x]
           d == [dir[j] EXCEPT !.thumbs = @ \cup {container}]
<1>1. /\ TypeOK /\ Active(x) /\ j \in Events /\ container \in Assets
      /\ listing[x] # Null
  BY ExecutionParts DEF IInv, TypeOK, Download, Active, ActivePCs, InTry
<1>2. CASE Throws(x) /\ UNCHANGED dir
  BY <1>2, ThrowsStep DEF Download, InTry
<1>3. CASE /\ dir[j] # Null /\ Proceeds(x, "ffmpeg")
           /\ dir' = [dir EXCEPT ![j].thumbs = @ \cup {container}]
  <2>1. dir[j] \in Directories
    BY <1>1, <1>3 DEF TypeOK
  <2>2. /\ d \in Directories
        /\ d.thumbs = dir[j].thumbs \cup {container}
        /\ d.summary = dir[j].summary
    BY <1>1, <2>1 DEF Directories
  <2>3. dir' = [dir EXCEPT ![j] = d]
    BY <1>3
  <2>4. j \notin overlapped =>
          d.thumbs \subseteq {Asset(x)} /\ d.summary \in {Null, Asset(x)}
    BY <1>1, <1>3, <2>2 DEF IInv, OwnContainer, OwnDirectory, Asset
  <2> QED
    BY <1>1, <1>3, <2>2, <2>3, <2>4, WritesDirectory DEF Download
<1> QED
  BY <1>2, <1>3 DEF Download

(* The summary is made of what lies in the directory.                      *)
LEMMA RunFFMpegStep ==
  ASSUME IInv, NEW x \in Executions, RunFFMpeg(x) PROVE IInv'
<1> DEFINE j == EventOf[x]
<1>1. TypeOK /\ Active(x) /\ j \in Events /\ listing[x] # Null
  BY ExecutionParts DEF IInv, TypeOK, RunFFMpeg, Active, ActivePCs, InTry
<1>2. CASE dir[j] = Null
  BY <1>2, ThrowsStep DEF RunFFMpeg, InTry
<1>3. CASE dir[j] # Null
  <2>1. PICK s \in dir[j].thumbs \cup {Null} :
          dir' = [dir EXCEPT ![j].summary = IF @ = Null THEN s ELSE @]
    BY <1>3 DEF RunFFMpeg
  <2>2. dir[j] \in Directories
    BY <1>1, <1>3 DEF TypeOK
  <2> DEFINE d == [dir[j] EXCEPT !.summary = IF @ = Null THEN s ELSE @]
  <2>3. /\ d \in Directories
        /\ d.thumbs = dir[j].thumbs
        /\ d.summary \in {dir[j].summary, s}
    BY <2>2 DEF Directories
  <2>4. dir' = [dir EXCEPT ![j] = d]
    BY <2>1
  <2>5. j \notin overlapped =>
          d.thumbs \subseteq {Asset(x)} /\ d.summary \in {Null, Asset(x)}
    BY <1>1, <1>3, <2>1, <2>3 DEF IInv, OwnDirectory, Asset
  <2> QED
    BY <1>1, <1>3, <2>3, <2>4, <2>5, WritesDirectory DEF RunFFMpeg
<1> QED
  BY <1>2, <1>3

(* The static container and the directory agree for an event that was not  *)
(* overlapped.                                                             *)
LEMMA UploadStep ==
  ASSUME IInv, NEW x \in Executions, Upload(x) PROVE IInv'
<1> DEFINE j == EventOf[x]
<1>1. TypeOK /\ Active(x) /\ j \in Events /\ container \in Assets /\ listing[x] # Null
  BY ExecutionParts DEF IInv, TypeOK, Upload, Active, ActivePCs, InTry
<1>2. dir[j] \in Directories /\ dir[j].summary \in Assets /\ dir[j].summary # Null
  BY <1>1 DEF TypeOK, Upload, HasSummary, Directories
<1>3. PICK u : u = [execution |-> x, to |-> container, of |-> dir[j].summary]
  OBVIOUS
<1>4. /\ u \in [execution : Executions, to : Assets, of : Assets]
      /\ u.execution = x /\ u.to = container /\ u.of = dir[j].summary
  BY <1>1, <1>2, <1>3
<1>5. uploads' = uploads \cup {u}
  BY <1>3 DEF Upload
<1>6. /\ uploads \subseteq uploads'
      /\ uploads' \subseteq [execution : Executions, to : Assets, of : Assets]
      /\ \E w \in uploads' : w.execution = x
  BY <1>1, <1>4, <1>5 DEF TypeOK
<1>7. dir[j] # Null
  BY DEF Upload, HasSummary
<1>8. j \notin overlapped => u.to = Asset(x) /\ u.of = Asset(x)
  BY <1>1, <1>2, <1>4, <1>7 DEF IInv, OwnContainer, OwnDirectory, Asset
<1>9. AloneMeansOwn'
  BY <1>4, <1>5, <1>8 DEF IInv, AloneMeansOwn, Upload, Asset
<1>10. OwnDirectory'
  BY DEF IInv, OwnDirectory, Upload
<1>11. dir' \in [Events -> Directories \cup {Null}]
  BY <1>1 DEF TypeOK, Upload
<1>12. listing' \in [Executions -> Listings \cup {Null}]
  BY <1>1 DEF TypeOK, Upload
<1>13. listing'[x] # Null => listing'[x].page <= NumPages[listing'[x].asset]
  BY <1>1 DEF TypeOK, Upload
<1>14. "finally" \in ActivePCs
  BY DEF ActivePCs
<1> QED
  BY <1>1, <1>6, <1>9, <1>10, <1>11, <1>12, <1>13, <1>14, StayInRun DEF Upload, Proceeds

(* The steps of the try block that only throw.                             *)
LEMMA ThrowingSteps ==
  ASSUME IInv, NEW x \in Executions,
         NothingDownloaded(x) \/ UploadMissing(x) \/ ServiceThrows(x)
  PROVE  IInv'
<1>1. pc[x] \in InTry /\ Throws(x)
  BY DEF NothingDownloaded, UploadMissing, ServiceThrows, InTry
<1> QED
  BY <1>1, ThrowsStep DEF NothingDownloaded, UploadMissing, ServiceThrows

(* A step of an execution that is outside Run before and after, and the    *)
(* one of Finally that leaves the directory to another execution.          *)
LEMMA OutsideRun ==
  ASSUME IInv, NEW x \in Executions, NEW to \in PCs \ (ActivePCs \cup {"returned"}),
         pc' = [pc EXCEPT ![x] = to],
         pc[x] # "scheduled",
         Active(x) => \E y \in Executions \ {x} : EventOf[y] = EventOf[x] /\ Active(y),
         UNCHANGED <<connectionValid, container, dir, listing, thrown, overlapped,
                     uploads, crashes>>
  PROVE  IInv'
<1>1. TypeOK
  BY DEF IInv
<1>2. /\ pc' \in [Executions -> PCs]
      /\ pc'[x] = to
      /\ \A y \in Executions \ {x} : pc'[y] = pc[y]
  BY <1>1, OneMoves
<1>3. \A y \in Executions : /\ Active(y)' => Active(y)
                            /\ y # x => (Active(y)' <=> Active(y))
  BY <1>2 DEF Active
<1>4. TypeOK'
  <2>1. connectionValid' \in BOOLEAN
    BY <1>1 DEF TypeOK
  <2>2. \A y \in Executions : pc'[y] \in {"download", "ffmpeg", "upload"} => listing[y] # Null
    BY <1>1, <1>2 DEF TypeOK, ActivePCs, InTry
  <2> QED
    BY <1>1, <1>2, <1>3, <2>1, <2>2 DEF TypeOK
<1>5. ListGoesOn' /\ CleanMeansUploaded' /\ ReturnedUploaded'
  BY <1>2 DEF IInv, ListGoesOn, CleanMeansUploaded, ReturnedUploaded, HasUploaded,
              ActivePCs, InTry
<1>6. NoLeak'
  BY <1>2, <1>3 DEF IInv, NoLeak
<1>7. OwnContainer' /\ OwnDirectory' /\ AloneMeansOwn'
  BY <1>3 DEF IInv, OwnContainer, OwnDirectory, AloneMeansOwn, Asset
<1> QED
  BY <1>4, <1>5, <1>6, <1>7 DEF IInv

(* A delivery changes nothing but the place of its execution.              *)
LEMMA EventGridStartStep ==
  ASSUME IInv, NEW x \in Executions, EventGridStart(x) PROVE IInv'
<1>1. PICK to \in {"started", "ignored"} : pc' = [pc EXCEPT ![x] = to]
  BY DEF EventGridStart
<1>2. to \in PCs \ (ActivePCs \cup {"returned"})
  BY DEF PCs, ActivePCs, InTry, EndedPCs
<1>3. pc[x] # "scheduled" /\ ~Active(x)
  BY DEF EventGridStart, Active, ActivePCs, InTry
<1> QED
  BY <1>1, <1>2, <1>3, OutsideRun DEF EventGridStart

(* Scheduling the activity changes nothing but the place of the execution. *)
LEMMA RunOrchestratorStep ==
  ASSUME IInv, NEW x \in Executions, RunOrchestrator(x) PROVE IInv'
<1>1. PICK to \in {"threw", "scheduled"} : pc' = [pc EXCEPT ![x] = to]
  BY DEF RunOrchestrator
<1>2. to \in PCs \ (ActivePCs \cup {"returned"})
  BY DEF PCs, ActivePCs, InTry, EndedPCs
<1>3. pc[x] # "scheduled" /\ ~Active(x)
  BY DEF RunOrchestrator, Active, ActivePCs, InTry
<1> QED
  BY <1>1, <1>2, <1>3, OutsideRun DEF RunOrchestrator

(* The finally block removes the directory, unless an execution that is    *)
(* writing into it, and will remove it, is in the way.                     *)
LEMMA FinallyStep ==
  ASSUME IInv, NEW x \in Executions, Finally(x) PROVE IInv'
<1> DEFINE j == EventOf[x]
<1>1. TypeOK /\ Active(x) /\ j \in Events /\ pc[x] = "finally"
  BY ExecutionParts DEF IInv, Finally, Active, ActivePCs
<1>2. CASE dir[j] # Null /\ Writers(x) # {} /\ UNCHANGED dir
           /\ pc' = [pc EXCEPT ![x] = "threw"]
  <2>1. PICK y \in Executions \ {x} : EventOf[y] = j /\ Active(y)
    BY <1>2 DEF Writers, Active, ActivePCs, InTry
  <2>2. "threw" \in PCs \ (ActivePCs \cup {"returned"})
    BY DEF PCs, ActivePCs, InTry, EndedPCs
  <2> QED
    BY <1>1, <1>2, <2>1, <2>2, OutsideRun DEF Finally
<1>3. CASE /\ dir' = [dir EXCEPT ![j] = Null]
           /\ pc' = [pc EXCEPT ![x] = IF x \in thrown \/ dir[j] = Null
                                        THEN "threw" ELSE "returned"]
  <2>1. PICK to \in {"threw", "returned"} :
          pc' = [pc EXCEPT ![x] = to] /\ (to = "returned" => x \notin thrown)
    BY <1>3
  <2>2. to \in PCs /\ to \notin ActivePCs
    BY DEF PCs, ActivePCs, InTry, EndedPCs
  <2>3. /\ pc' \in [Executions -> PCs]
        /\ pc'[x] = to
        /\ \A y \in Executions \ {x} : pc'[y] = pc[y]
    BY <1>1, <2>1, <2>2, OneMoves
  <2>4. \A y \in Executions : /\ Active(y)' => Active(y)
                              /\ y # x => (Active(y)' <=> Active(y))
    BY <2>2, <2>3 DEF Active
  <2>5. /\ dir' \in [Events -> Directories \cup {Null}]
        /\ dir'[j] = Null
        /\ \A k \in Events \ {j} : dir'[k] = dir[k]
    BY <1>1, <1>3 DEF TypeOK
  <2>6. TypeOK'
    <3>1. connectionValid' \in BOOLEAN
      BY <1>1 DEF TypeOK, Finally
    <3>2. \A y \in Executions :
            pc'[y] \in {"download", "ffmpeg", "upload"} => listing[y] # Null
      BY <1>1, <2>1, <2>3 DEF TypeOK
    <3> QED
      BY <1>1, <2>3, <2>4, <2>5, <3>1, <3>2 DEF TypeOK, Finally
  <2>7. NoLeak'
    BY <1>1, <2>3, <2>4, <2>5 DEF IInv, NoLeak, Finally
  <2>8. ListGoesOn' /\ CleanMeansUploaded'
    BY <2>1, <2>3 DEF IInv, ListGoesOn, CleanMeansUploaded, HasUploaded, Finally
  <2>9. ReturnedUploaded'
    BY <1>1, <2>1, <2>3 DEF IInv, CleanMeansUploaded, ReturnedUploaded, HasUploaded, Finally
  <2>10. OwnContainer' /\ OwnDirectory' /\ AloneMeansOwn'
    BY <2>4, <2>5 DEF IInv, OwnContainer, OwnDirectory, AloneMeansOwn, Asset, Finally
  <2> QED
    BY <2>6, <2>7, <2>8, <2>9, <2>10 DEF IInv
<1> QED
  BY <1>2, <1>3 DEF Finally

(* Begin marks an event as overlapped before the static container can do   *)
(* it any harm.                                                            *)
LEMMA BeginOverlaps ==
  ASSUME IInv, NEW x \in Executions, Begin(x), connectionValid,
         NEW y \in Executions, Active(y), EventOf[y] \notin overlapped'
  PROVE  Asset(y) = Asset(x)
BY DEF Begin, BesideAnother

(* Beginning takes the static container away from others only after they   *)
(* count as overlapped.                                                    *)
LEMMA BeginStep ==
  ASSUME IInv, NEW x \in Executions, Begin(x) PROVE IInv'
<1> DEFINE j == EventOf[x]
<1>1. TypeOK /\ j \in Events /\ pc[x] = "scheduled" /\ Asset(x) \in Assets
  BY ExecutionParts DEF IInv, Begin
<1>2. PICK to \in {"list", "threw"} :
        /\ pc' = [pc EXCEPT ![x] = to]
        /\ to = "list" <=> connectionValid
  BY DEF Begin
<1>3. to \in PCs
  BY DEF PCs, ActivePCs, InTry, EndedPCs
<1>4. /\ pc' \in [Executions -> PCs]
      /\ pc'[x] = to
      /\ \A y \in Executions \ {x} : pc'[y] = pc[y]
  BY <1>1, <1>2, <1>3, OneMoves
<1>5. \A y \in Executions \ {x} : Active(y)' <=> Active(y)
  BY <1>4 DEF Active
<1>6. /\ dir' \in [Events -> Directories \cup {Null}]
      /\ dir'[j] \in {dir[j], EmptyDir}
      /\ \A k \in Events \ {j} : dir'[k] = dir[k]
  BY <1>1, NullIsApart DEF TypeOK, Begin
<1>7. /\ listing' \in [Executions -> Listings \cup {Null}]
      /\ listing'[x] = Null
      /\ \A y \in Executions \ {x} : listing'[y] = listing[y]
  BY <1>1 DEF TypeOK, Begin
<1>8. overlapped \subseteq overlapped' /\ overlapped' \subseteq Events
  <2>1. \A y \in Executions : EventOf[y] \in Events
    BY ExecutionParts
  <2> QED
    BY <1>1, <2>1 DEF TypeOK, Begin, BesideAnother
<1>9. TypeOK'
  <2>1. connectionValid' \in BOOLEAN
    BY <1>1 DEF TypeOK, Begin
  <2>2. container' \in Assets \cup {Null}
    BY <1>1 DEF TypeOK, Begin, Connect
  <2>3. \A y \in Executions : Active(y)' => container' # Null
    <3>1. CASE connectionValid
      BY <3>1, ExecutionParts DEF Begin, Connect
    <3>2. CASE ~connectionValid
      BY <1>1, <1>2, <1>4, <1>5, <3>2 DEF TypeOK, Begin, Active, ActivePCs, InTry
    <3> QED
      BY <3>1, <3>2
  <2>4. \A y \in Executions :
          listing'[y] # Null => listing'[y].page <= NumPages[listing'[y].asset]
    BY <1>1, <1>7 DEF TypeOK
  <2>5. \A y \in Executions :
          pc'[y] \in {"download", "ffmpeg", "upload"} => listing'[y] # Null
    BY <1>1, <1>4, <1>7 DEF TypeOK
  <2>6. thrown' \subseteq Executions /\ UNCHANGED <<uploads, crashes>>
    BY <1>1 DEF TypeOK, Begin
  <2> QED
    BY <1>1, <1>4, <1>6, <1>7, <1>8, <2>1, <2>2, <2>3, <2>4, <2>5, <2>6 DEF TypeOK
<1>10. ListGoesOn'
  BY <1>4, <1>7 DEF IInv, ListGoesOn
<1>11. NoLeak'
  <2> SUFFICES ASSUME NEW k \in Events, dir'[k] # Null, connectionValid
               PROVE  \E y \in Executions :
                        EventOf[y] = k /\ (Active(y)' \/ pc'[y] = "scheduled")
    BY DEF NoLeak, Begin
  <2>1. CASE k = j
    BY <1>2, <1>4, <2>1 DEF Active, ActivePCs, InTry
  <2>2. CASE k # j
    <3>1. PICK y \in Executions : EventOf[y] = k /\ (Active(y) \/ pc[y] = "scheduled")
      BY <1>6, <2>2 DEF IInv, NoLeak
    <3> QED
      BY <1>4, <1>5, <2>2, <3>1
  <2> QED
    BY <2>1, <2>2
<1>12. CleanMeansUploaded' /\ ReturnedUploaded'
  BY <1>2, <1>4 DEF IInv, CleanMeansUploaded, ReturnedUploaded, HasUploaded, Begin
<1>13. OwnContainer'
  <2> SUFFICES ASSUME NEW y \in Executions, Active(y)', EventOf[y] \notin overlapped'
               PROVE  container' = Asset(y)
    BY DEF OwnContainer, Asset
  <2>1. CASE y = x
    BY <1>4, <1>2, <2>1 DEF Begin, Connect, Active, ActivePCs, InTry
  <2>2. CASE y # x /\ connectionValid
    BY <1>5, <2>2, BeginOverlaps DEF Begin, Connect
  <2>3. CASE y # x /\ ~connectionValid
    BY <1>5, <1>8, <2>3 DEF IInv, OwnContainer, Begin
  <2> QED
    BY <2>1, <2>2, <2>3
<1>14. OwnDirectory'
  BY <1>1, <1>6, <1>8 DEF IInv, OwnDirectory, EmptyDir
<1>15. AloneMeansOwn'
  BY <1>8 DEF IInv, AloneMeansOwn, Begin, Asset
<1> QED
  BY <1>9, <1>10, <1>11, <1>12, <1>13, <1>14, <1>15 DEF IInv

(* After a crash every directory belongs to an execution that will be      *)
(* delivered again.                                                        *)
LEMMA HostCrashStep == ASSUME IInv, HostCrash PROVE IInv'
<1>1. TypeOK
  BY DEF IInv
<1>2. /\ pc' \in [Executions -> PCs]
      /\ \A x \in Executions : pc'[x] = IF Active(x) THEN "scheduled" ELSE pc[x]
  BY <1>1 DEF TypeOK, HostCrash, PCs
<1>3. \A x \in Executions : ~Active(x)'
  BY <1>2 DEF Active, ActivePCs, InTry
<1>4. crashes' \in 0..MaxCrashes
  BY <1>1, SummaryAssumption DEF TypeOK, HostCrash
<1>5. TypeOK'
  <2>1. connectionValid' \in BOOLEAN
    BY <1>1 DEF TypeOK, HostCrash
  <2>2. \A x \in Executions : pc'[x] \notin {"download", "ffmpeg", "upload"}
    BY <1>2, <1>3 DEF Active, ActivePCs, InTry
  <2> QED
    BY <1>1, <1>2, <1>3, <1>4, <2>1, <2>2 DEF TypeOK, HostCrash
<1>6. NoLeak'
  BY <1>2 DEF IInv, NoLeak, HostCrash
<1>7. \A x \in Executions : pc'[x] \notin {"list", "finally"}
                          /\ (pc'[x] = "returned" => pc[x] = "returned")
  BY <1>2, <1>3 DEF Active, ActivePCs, InTry
<1>8. ListGoesOn' /\ CleanMeansUploaded' /\ ReturnedUploaded'
  BY <1>7 DEF IInv, ListGoesOn, CleanMeansUploaded, ReturnedUploaded, HasUploaded, HostCrash
<1>9. OwnContainer' /\ OwnDirectory' /\ AloneMeansOwn'
  BY <1>3 DEF IInv, OwnContainer, OwnDirectory, AloneMeansOwn, Asset, HostCrash
<1> QED
  BY <1>5, <1>6, <1>8, <1>9 DEF IInv

(* Every step preserves the inductive invariant.                           *)
LEMMA StepHolds == IInv /\ [Next]_vars => IInv'
<1> SUFFICES ASSUME IInv, [Next]_vars PROVE IInv'
  OBVIOUS
<1>1. CASE UNCHANGED vars
  <2>1. connectionValid' \in BOOLEAN
    BY <1>1 DEF IInv, TypeOK, vars
  <2>2. TypeOK'
    BY <1>1, <2>1 DEF IInv, TypeOK, Active, vars
  <2> QED
    BY <1>1, <2>2 DEF IInv, ListGoesOn, NoLeak, CleanMeansUploaded, ReturnedUploaded,
       HasUploaded, OwnContainer, OwnDirectory, AloneMeansOwn, Active, Asset, vars
<1>2. ASSUME NEW x \in Executions, EventGridStart(x) \/ Step(x) \/ ServiceThrows(x)
      PROVE  IInv'
  BY <1>2, EventGridStartStep, RunOrchestratorStep, BeginStep, ListPageStep,
     DownloadStep, RunFFMpegStep, UploadStep, ThrowingSteps, FinallyStep DEF Step
<1> QED
  BY <1>1, <1>2, HostCrashStep DEF Next

(* The inductive invariant: the four properties together with what they    *)
(* rest on.                                                                *)
THEOREM Invariance == Spec => []IInv
BY InitHolds, StepHolds, PTL DEF Spec

(* The types hold, whoever replaces the static container meanwhile.        *)
THEOREM TypeCorrect == Spec => []TypeOK
<1>1. IInv => TypeOK
  BY DEF IInv
<1> QED
  BY <1>1, Invariance, PTL

(* A working directory never outlives the executions of its event, except  *)
(* with a connection string that does not parse.                           *)
THEOREM NothingLeaks == Spec => []NoLeak
<1>1. IInv => NoLeak
  BY DEF IInv
<1> QED
  BY <1>1, Invariance, PTL

(* Returning from Run means that a summary was uploaded.                   *)
THEOREM ReturnMeansUpload == Spec => []ReturnedUploaded
<1>1. IInv => ReturnedUploaded
  BY DEF IInv
<1> QED
  BY <1>1, Invariance, PTL

(* Only an overlap with an execution for another asset can send a summary  *)
(* to a foreign container or fill it with foreign pictures.                *)
THEOREM OverlapIsTheOnlyHarm == Spec => []AloneMeansOwn
<1>1. IInv => AloneMeansOwn
  BY DEF IInv
<1> QED
  BY <1>1, Invariance, PTL
===============================================================================
