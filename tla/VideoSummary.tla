----------------------------- MODULE VideoSummary -----------------------------
(***************************************************************************)
(* The thumbnail summary of MediaServices.Demo.  A job state event starts  *)
(* an orchestration (EventGridStart) whose only activity, Run, lists the   *)
(* thumbnails in the container of the job's output asset, downloads them   *)
(* to a working directory, tiles them with ffmpeg and uploads the result.  *)
(* Event Grid and the durable framework deliver at least once, activities  *)
(* run concurrently in one host, and all of them reach storage through the *)
(* static container of BlobHelper.                                         *)
(*                                                                         *)
(* One execution stands for one delivery of an event.  A page of a listing *)
(* holds one thumbnail; of a thumbnail only the container it was read from *)
(* is kept.                                                                *)
(***************************************************************************)
EXTENDS Naturals

CONSTANTS
  Executions,    \* deliveries of job state events
  Events,        \* event ids: the jobId of Run, which names the directory
  EventOf,       \* the event of a delivery
  Uncorrelated,  \* events of jobs that carry no metaString
  Assets,        \* output assets, each with a container of its own
  AssetOf,       \* the outputAssetId in the event's metaString
  NumPages,      \* pages in the listing of an asset's container
  NoThumbs,      \* assets whose encoding left no thumbnail
  MaxCrashes,    \* bound: losses of the host
  Null           \* the C# null; an absent directory, file or page

Listings    == [asset : Assets, page : Nat \ {0}]
Directories == [thumbs : SUBSET Assets, summary : Assets \cup {Null}]

ASSUME SummaryAssumption ==
  /\ EventOf \in [Executions -> Events]
  /\ Uncorrelated \subseteq Events
  /\ AssetOf \in [Events -> Assets]
  /\ NumPages \in [Assets -> Nat \ {0}]
  /\ NoThumbs \subseteq Assets
  /\ MaxCrashes \in Nat
  /\ Null \notin Assets
  /\ Null \notin Listings
  /\ Null \notin Directories

VARIABLES
  connectionValid,  \* setting AMSStorageConnectionString parses
  container,        \* BlobHelper.storageContainer, shared by all executions
  dir,              \* per event id: its working directory
  pc,               \* per execution: where it is
  listing,          \* per execution: the page GetBlobList holds
  thrown,           \* executions with an exception on its way out
  overlapped,       \* history: events that ran beside one of another asset
  uploads,          \* history: summaries that were uploaded
  crashes           \* hosts lost so far

vars == <<connectionValid, container, dir, pc, listing, thrown, overlapped,
          uploads, crashes>>

Asset(x) == AssetOf[EventOf[x]]

EmptyDir    == [thumbs |-> {}, summary |-> Null]

InTry     == {"list", "download", "ffmpeg", "upload"}
ActivePCs == InTry \cup {"finally"}
EndedPCs  == {"ignored", "returned", "threw"}
PCs       == {"undelivered", "started", "scheduled"} \cup ActivePCs \cup EndedPCs
Active(x) == pc[x] \in ActivePCs

Init ==
  /\ connectionValid \in BOOLEAN
  /\ container = Null
  /\ dir = [j \in Events |-> Null]
  /\ pc = [x \in Executions |-> "undelivered"]
  /\ listing = [x \in Executions |-> Null]
  /\ thrown = {}
  /\ overlapped = {}
  /\ uploads = {}
  /\ crashes = 0

(* Run keeps its exception until the finally block is through.             *)
ThrowsPastFinally(x) ==
  /\ pc' = [pc EXCEPT ![x] = "threw"]
  /\ thrown' = thrown \cup {x}

Throws(x) ==
  /\ pc' = [pc EXCEPT ![x] = "finally"]
  /\ thrown' = thrown \cup {x}

Proceeds(x, to) ==
  /\ pc' = [pc EXCEPT ![x] = to]
  /\ thrown' = thrown

(* EventGridStart: only the end of a job starts an orchestration.          *)
EventGridStart(x) ==
  /\ pc[x] = "undelivered"
  /\ \E state \in {"Processing", "Finished", "Error"} :
       pc' = [pc EXCEPT ![x] =
                IF state \in {"Finished", "Error"} THEN "started" ELSE "ignored"]
  /\ UNCHANGED <<connectionValid, container, dir, listing, thrown, overlapped,
                 uploads, crashes>>

(* RunOrchestrator reads the asset from the metaString of the job.         *)
RunOrchestrator(x) ==
  /\ pc[x] = "started"
  /\ pc' = [pc EXCEPT ![x] =
              IF EventOf[x] \in Uncorrelated THEN "threw" ELSE "scheduled"]
  /\ UNCHANGED <<connectionValid, container, dir, listing, thrown, overlapped,
                 uploads, crashes>>

(* CreateStorageConnection replaces the container of everybody.            *)
ConnectOnce(x) == IF container = Null THEN Asset(x) ELSE container
Connect(x)     == Asset(x)

BesideAnother(x) == {y \in Executions : Active(y) /\ Asset(y) # Asset(x)}

(* Run up to the try block: CreateDirectory leaves an existing directory   *)
(* alone, and a connection string that does not parse throws outside the   *)
(* try, so that no finally follows.                                        *)
Begin(x) ==
  /\ pc[x] = "scheduled"
  /\ dir' = [dir EXCEPT ![EventOf[x]] = IF @ = Null THEN EmptyDir ELSE @]
  /\ listing' = [listing EXCEPT ![x] = Null]
  /\ thrown' = thrown \ {x}
  /\ IF connectionValid
       THEN /\ container' = Connect(x)
            /\ pc' = [pc EXCEPT ![x] = "list"]
            /\ overlapped' = overlapped \cup
                 (IF BesideAnother(x) = {} THEN {}
                  ELSE {EventOf[y] : y \in BesideAnother(x) \cup {x}})
       ELSE /\ pc' = [pc EXCEPT ![x] = "threw"]
            /\ UNCHANGED <<container, overlapped>>
  /\ UNCHANGED <<connectionValid, uploads, crashes>>

(***************************************************************************)
(* GetBlobList.  Every page is asked of the container the static field     *)
(* holds at that moment; only the last page asked for is returned.  A      *)
(* continuation token of another container is refused or, since it encodes *)
(* a blob name, continues anywhere in this one.                            *)
(***************************************************************************)
LastPageLate(a, p) == p > NumPages[a]
LastPage(a, p)     == p = NumPages[a]

SamePage(l) == l.page
NextPage(l) == l.page + 1

PagesAnswered(x) ==
  IF listing[x] = Null THEN {1}
  ELSE IF listing[x].asset = container THEN {NextPage(listing[x])}
  ELSE 1..NumPages[container]

ListPage(x) ==
  /\ pc[x] = "list"
  /\ \E p \in PagesAnswered(x) :
       /\ listing' = [listing EXCEPT ![x] = [asset |-> container, page |-> p]]
       /\ Proceeds(x, IF LastPage(container, p) THEN "download" ELSE "list")
  /\ UNCHANGED <<connectionValid, container, dir, overlapped, uploads, crashes>>

(* DownloadBlobs asks the static container for the names of the listing;   *)
(* another container has them only if its video has the same base name.    *)
Download(x) ==
  LET j == EventOf[x] IN
  /\ pc[x] = "download"
  /\ listing[x].asset \notin NoThumbs
  /\ \/ /\ container \notin NoThumbs
        /\ dir[j] # Null
        /\ dir' = [dir EXCEPT ![j].thumbs = @ \cup {container}]
        /\ Proceeds(x, "ffmpeg")
     \/ /\ container # listing[x].asset \/ dir[j] = Null
        /\ Throws(x)
        /\ UNCHANGED dir
  /\ UNCHANGED <<connectionValid, container, listing, overlapped, uploads, crashes>>

(* localBlobs[0] of an empty list.                                         *)
NothingDownloaded(x) ==
  /\ pc[x] = "download"
  /\ listing[x].asset \in NoThumbs
  /\ Throws(x)
  /\ UNCHANGED <<connectionValid, container, dir, listing, overlapped, uploads,
                 crashes>>

(***************************************************************************)
(* RunFFMpeg does not look at the exit code, so that it returns with or    *)
(* without a summary file; ffmpeg does not replace one that is there.  The *)
(* process does not start in a directory that is gone.                     *)
(***************************************************************************)
RunFFMpeg(x) ==
  LET j == EventOf[x] IN
  /\ pc[x] = "ffmpeg"
  /\ IF dir[j] = Null
       THEN /\ Throws(x)
            /\ UNCHANGED dir
       ELSE /\ \E s \in dir[j].thumbs \cup {Null} :
                 dir' = [dir EXCEPT ![j].summary = IF @ = Null THEN s ELSE @]
            /\ Proceeds(x, "upload")
  /\ UNCHANGED <<connectionValid, container, listing, overlapped, uploads, crashes>>

(* UploadSummary: to the container the static field holds by now.          *)
HasSummary(x) == dir[EventOf[x]] # Null /\ dir[EventOf[x]].summary # Null

Upload(x) ==
  /\ pc[x] = "upload"
  /\ HasSummary(x)
  /\ uploads' = uploads \cup {[execution |-> x, to |-> container,
                               of |-> dir[EventOf[x]].summary]}
  /\ Proceeds(x, "finally")
  /\ UNCHANGED <<connectionValid, container, dir, listing, overlapped, crashes>>

UploadMissingSkips(x) ==
  /\ pc[x] = "upload"
  /\ ~HasSummary(x)
  /\ Proceeds(x, "finally")
  /\ UNCHANGED <<connectionValid, container, dir, listing, overlapped, uploads,
                 crashes>>

UploadMissing(x) ==
  /\ pc[x] = "upload"
  /\ ~HasSummary(x)
  /\ Throws(x)
  /\ UNCHANGED <<connectionValid, container, dir, listing, overlapped, uploads,
                 crashes>>

(* A storage call or the start of ffmpeg fails.                            *)
ServiceThrows(x) ==
  /\ pc[x] \in InTry
  /\ Throws(x)
  /\ UNCHANGED <<connectionValid, container, dir, listing, overlapped, uploads,
                 crashes>>

(***************************************************************************)
(* The finally block.  Directory.Delete throws when the directory is gone, *)
(* and when another execution is writing into it.                          *)
(***************************************************************************)
Writers(x) == {y \in Executions \ {x} : /\ EventOf[y] = EventOf[x]
                                        /\ pc[y] \in {"download", "ffmpeg"}}

Finally(x) ==
  LET j == EventOf[x] IN
  /\ pc[x] = "finally"
  /\ \/ /\ dir' = [dir EXCEPT ![j] = Null]
        /\ pc' = [pc EXCEPT ![x] = IF x \in thrown \/ dir[j] = Null
                                     THEN "threw" ELSE "returned"]
     \/ /\ dir[j] # Null /\ Writers(x) # {}
        /\ pc' = [pc EXCEPT ![x] = "threw"]
        /\ UNCHANGED dir
  /\ UNCHANGED <<connectionValid, container, listing, thrown, overlapped, uploads,
                 crashes>>

(* The host dies: directories stay, no finally runs, and the framework     *)
(* will deliver the activities again.                                      *)
HostCrash ==
  /\ crashes < MaxCrashes
  /\ crashes' = crashes + 1
  /\ container' = Null
  /\ pc' = [x \in Executions |-> IF Active(x) THEN "scheduled" ELSE pc[x]]
  /\ UNCHANGED <<connectionValid, dir, listing, thrown, overlapped, uploads>>

Step(x) == \/ RunOrchestrator(x) \/ Begin(x) \/ ListPage(x) \/ Download(x)
           \/ NothingDownloaded(x) \/ RunFFMpeg(x) \/ Upload(x)
           \/ UploadMissing(x) \/ Finally(x)

Next == \/ \E x \in Executions : EventGridStart(x) \/ Step(x) \/ ServiceThrows(x)
        \/ HostCrash

(* The host keeps running what it has started, and the framework delivers  *)
(* an activity again until one execution of it has ended.  No failure is   *)
(* assumed to happen: an execution must not rely on one to end.            *)
Fairness == \A x \in Executions : WF_vars(Step(x))

Spec     == Init /\ [][Next]_vars
FairSpec == Spec /\ Fairness

-----------------------------------------------------------------------------

(* The types of the variables; a page asked for exists in its container,   *)
(* and the static container is set whenever somebody is using it.          *)
TypeOK ==
  /\ connectionValid \in BOOLEAN
  /\ container \in Assets \cup {Null}
  /\ dir \in [Events -> Directories \cup {Null}]
  /\ pc \in [Executions -> PCs]
  /\ listing \in [Executions -> Listings \cup {Null}]
  /\ thrown \subseteq Executions
  /\ overlapped \subseteq Events
  /\ uploads \subseteq [execution : Executions, to : Assets, of : Assets]
  /\ crashes \in 0..MaxCrashes
  /\ \A x \in Executions :
       /\ Active(x) => container # Null
       /\ listing[x] # Null => listing[x].page <= NumPages[listing[x].asset]
       /\ pc[x] \in {"download", "ffmpeg", "upload"} => listing[x] # Null

(* A working directory exists only while an execution of its event has yet *)
(* to end, whatever fails and however often the host dies: the finally of  *)
(* Run removes it, except when CreateStorageConnection throws before the   *)
(* try block.                                                              *)
NoLeak ==
  \A j \in Events :
    dir[j] # Null =>
      \/ ~connectionValid
      \/ \E x \in Executions : EventOf[x] = j /\ (Active(x) \/ pc[x] = "scheduled")

(* An execution of Run that returns has uploaded a summary: although the   *)
(* exit code of ffmpeg is ignored and a duplicate execution may delete the *)
(* directory at any time, a missing file ends in an exception.             *)
ReturnedUploaded ==
  \A x \in Executions :
    pc[x] = "returned" => \E u \in uploads : u.execution = x

(* The static container does no harm to an event none of whose executions  *)
(* ran beside an execution for another asset: its summaries are made of    *)
(* its own thumbnails and go to its own container, even when it is         *)
(* delivered twice or its host dies in the middle.                         *)
AloneMeansOwn ==
  \A u \in uploads :
    EventOf[u.execution] \notin overlapped =>
      u.to = Asset(u.execution) /\ u.of = Asset(u.execution)

(* Every orchestration that is started ends: no listing goes on for ever,  *)
(* and a lost host only delays it.                                         *)
ExecutionEnds ==
  \A x \in Executions : pc[x] = "started" ~> pc[x] \in EndedPCs

-----------------------------------------------------------------------------

(* VideoSummary.cs:32, "Create a blob client to the AMS account and asset  *)
(* container created by the encoding Job": a summary is uploaded to the    *)
(* container of the job it was made for.                                   *)
SummaryGoesHome ==
  \A u \in uploads : u.to = Asset(u.execution)

(* VideoSummary.cs:42, "Get list of thumnails" (and BlobHelper.cs:58,      *)
(* "Getting list of blobs in container"): the listing that is downloaded   *)
(* holds the thumbnails of the first page too.                             *)
ListIsWhole ==
  \A x \in Executions : pc[x] = "download" => listing[x].page = 1
===============================================================================
