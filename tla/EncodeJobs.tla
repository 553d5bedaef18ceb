------------------------------ MODULE EncodeJobs ------------------------------
(***************************************************************************)
(* The encoder of MediaServices.Demo: the creation of a blob raises an     *)
(* event, and EventGridBlobEncode.Run turns the event into an encoding     *)
(* job.  Event Grid delivers at least once: it delivers again whenever an  *)
(* invocation fails, dies or is slow to answer, so that invocations for    *)
(* one blob may run side by side; it gives up after MaxDeliveries.  The    *)
(* transform, the assets and the jobs are kept by Media Services.          *)
(*                                                                         *)
(* A transform, an asset or a job is reached by its name.  The names of    *)
(* the asset and the job are made from the file id of the blob (FileHelper *)
(* drops the folders and the extension), so the file id stands for both.   *)
(***************************************************************************)
EXTENDS Naturals

CONSTANTS
  Urls,           \* blobs that may be uploaded
  FileIds,        \* names without folder and extension
  FileIdOf,       \* the file id of a blob; Null for a name without a dot
  Unprobeable,    \* blobs whose metadata has no video or no audio stream
  MaxDeliveries,  \* bound: deliveries before Event Grid gives up
  MaxFailures,    \* bound: failed calls and lost invocations
  Null

ASSUME EncodeAssumption ==
  /\ FileIdOf \in [Urls -> FileIds \cup {Null}]
  /\ Unprobeable \subseteq Urls
  /\ MaxDeliveries \in Nat
  /\ MaxFailures \in Nat
  /\ Null \notin Urls \cup FileIds \cup {"deployed", "builtIn"}

VARIABLES
  transform,  \* recipe of the transform TransformName, or Null
  assets,     \* file ids whose output asset exists
  jobs,       \* per file id: the blob its job encodes, or Null
  uploaded,   \* blobs that have been created
  delivered,  \* per blob: deliveries of its event so far
  acked,      \* blobs whose event was delivered successfully
  pc,         \* per invocation: where it is
  failures    \* calls that failed and invocations that were lost

vars == <<transform, assets, jobs, uploaded, delivered, acked, pc, failures>>
media == <<transform, assets, jobs>>
events == <<uploaded, delivered, acked>>

Invocations == Urls \X (1..MaxDeliveries)
Url(i)      == i[1]
FileId(i)   == FileIdOf[Url(i)]

Running == {"parse", "getTransform", "createTransform", "createAsset", "probe",
            "submit", "return"}
Ended   == {"returned", "threw", "conflict"}

Init ==
  /\ transform \in {Null, "deployed"}
  /\ assets = {}
  /\ jobs = [f \in FileIds |-> Null]
  /\ uploaded = {}
  /\ delivered = [u \in Urls |-> 0]
  /\ acked = {}
  /\ pc = [i \in Invocations |-> "none"]
  /\ failures = 0

Goto(i, to) == pc' = [pc EXCEPT ![i] = to]

Upload(u) ==
  /\ u \notin uploaded
  /\ uploaded' = uploaded \cup {u}
  /\ UNCHANGED <<media, delivered, acked, pc, failures>>

(* An operator deploys the transform of transform.json.                    *)
DeployTransform ==
  /\ transform' = "deployed"
  /\ UNCHANGED <<assets, jobs, events, pc, failures>>

Deliver(u) ==
  /\ u \in uploaded \ acked
  /\ delivered[u] < MaxDeliveries
  /\ delivered' = [delivered EXCEPT ![u] = @ + 1]
  /\ Goto(<<u, delivered[u] + 1>>, "parse")
  /\ UNCHANGED <<media, uploaded, acked, failures>>

(* GetFileNameWithoutExt takes a substring up to a dot that must be there. *)
ParseName(i) ==
  /\ pc[i] = "parse"
  /\ Goto(i, IF FileId(i) = Null THEN "threw" ELSE "getTransform")
  /\ UNCHANGED <<media, events, failures>>

(* GetOrCreateTransformAsync: a Get and, some time later, a Create that    *)
(* overwrites whatever is there by then.                                   *)
NoTransformInverted == transform # Null
NoTransform         == transform = Null

GetTransform(i) ==
  /\ pc[i] = "getTransform"
  /\ Goto(i, IF NoTransform THEN "createTransform" ELSE "createAsset")
  /\ UNCHANGED <<media, events, failures>>

CreateTransform(i) ==
  /\ pc[i] = "createTransform"
  /\ transform' = "builtIn"
  /\ Goto(i, "createAsset")
  /\ UNCHANGED <<assets, jobs, events, failures>>

(* CreateOutputAssetAsync keeps an asset that is there already.            *)
WithAssetOfUrl(i) == assets \cup {Url(i)}
WithAsset(i)      == assets \cup {FileId(i)}

CreateAsset(i) ==
  /\ pc[i] = "createAsset"
  /\ assets' = WithAsset(i)
  /\ Goto(i, "probe")
  /\ UNCHANGED <<transform, jobs, events, failures>>

(* MapMetaData dereferences the first video and the first audio stream.    *)
Probe(i) ==
  /\ pc[i] = "probe"
  /\ Goto(i, IF Url(i) \in Unprobeable THEN "threw" ELSE "submit")
  /\ UNCHANGED <<media, events, failures>>

(* SubmitJobAsync: Jobs.Create refuses a name that is taken; the exception *)
(* is rethrown, and Event Grid will deliver the event again.               *)
RefuseNever(f) == FALSE
Refused(f)     == jobs[f] # Null

ConflictReturns == "return"
AfterConflict   == "conflict"

Submit(i) ==
  /\ pc[i] = "submit"
  /\ IF Refused(FileId(i))
       THEN Goto(i, AfterConflict) /\ UNCHANGED jobs
       ELSE Goto(i, "return") /\ jobs' = [jobs EXCEPT ![FileId(i)] = Url(i)]
  /\ UNCHANGED <<transform, assets, events, failures>>

Return(i) ==
  /\ pc[i] = "return"
  /\ acked' = acked \cup {Url(i)}
  /\ Goto(i, "returned")
  /\ UNCHANGED <<media, uploaded, delivered, failures>>

(* A catch block of Run that logs and forgets to throw.                    *)
FailSwallowed(i) ==
  /\ pc[i] \in Running
  /\ failures < MaxFailures
  /\ failures' = failures + 1
  /\ Goto(i, "return")
  /\ UNCHANGED <<media, events>>

(* A call throws or the host dies; when that happens after Jobs.Create the *)
(* job exists and the event will nevertheless be delivered again.          *)
Fail(i) ==
  /\ pc[i] \in Running
  /\ failures < MaxFailures
  /\ failures' = failures + 1
  /\ Goto(i, "threw")
  /\ UNCHANGED <<media, events>>

Invoke(i) == \/ ParseName(i) \/ GetTransform(i) \/ CreateTransform(i)
             \/ CreateAsset(i) \/ Probe(i) \/ Submit(i) \/ Return(i)

Next == \/ \E u \in Urls : Upload(u) \/ Deliver(u)
        \/ DeployTransform
        \/ \E i \in Invocations : Invoke(i) \/ Fail(i)

(* Event Grid delivers an event that is not acknowledged until it gives    *)
(* up, and the host runs what was delivered.                               *)
Fairness == /\ \A u \in Urls : WF_vars(Deliver(u))
            /\ \A i \in Invocations : WF_vars(Invoke(i))

Spec     == Init /\ [][Next]_vars
FairSpec == Spec /\ Fairness

-----------------------------------------------------------------------------

(* The types of the variables; an invocation exists once it was delivered. *)
TypeOK ==
  /\ transform \in {Null, "deployed", "builtIn"}
  /\ assets \subseteq FileIds
  /\ jobs \in [FileIds -> Urls \cup {Null}]
  /\ uploaded \subseteq Urls
  /\ delivered \in [Urls -> 0..MaxDeliveries]
  /\ acked \subseteq uploaded
  /\ pc \in [Invocations -> {"none"} \cup Running \cup Ended]
  /\ failures \in 0..MaxFailures
  /\ \A i \in Invocations : pc[i] # "none" => i[2] <= delivered[Url(i)]

(* An event is acknowledged only when the job of its own blob exists: an   *)
(* invocation that finds the name taken throws instead of returning, so    *)
(* that Event Grid never takes the job of another blob for success.        *)
AckedMeansJob ==
  \A u \in acked : jobs[FileIdOf[u]] = u

(* A job finds its output asset and its transform, however the invocations *)
(* that created them went on.                                              *)
JobsAreReady ==
  \A f \in FileIds : jobs[f] # Null => f \in assets /\ transform # Null

(* What an acknowledgement is worth: the job, and all that it needs.       *)
AckedIsEncoded == AckedMeansJob /\ JobsAreReady

(* No sequence of deliveries gives a job another input or takes it away.   *)
(* A transform that was deployed stays as it is, unless an invocation has  *)
(* already found it missing.                                               *)
Settled == /\ transform = "deployed"
           /\ \A i \in Invocations : pc[i] # "createTransform"

KeepStep == /\ \A f \in FileIds : jobs[f] # Null => jobs'[f] = jobs[f]
            /\ Settled => Settled'

NothingIsOverwritten == [][KeepStep]_vars

(* The encoder keeps a register of jobs: the first blob of a name has its  *)
(* job for good, over repeated and concurrent deliveries, failures, and    *)
(* events that are acknowledged late.                                      *)
Registry == INSTANCE JobRegistry

ImplementsRegistry == Registry!Spec

(* An upload that can be named and probed gets a job of its own, when fewer*)
(* calls fail than there are deliveries; unless another blob has the name: *)
(* then each of its deliveries is refused or fails, none is acknowledged,  *)
(* Event Grid gives up, and the blob is never encoded.                     *)
Encodable(u) == FileIdOf[u] # Null /\ u \notin Unprobeable

GivenUp(u) ==
  /\ delivered[u] = MaxDeliveries /\ u \notin acked
  /\ \A n \in 1..MaxDeliveries : pc[<<u, n>>] \in {"threw", "conflict"}

EncodedOrGivenUp ==
  \A u \in {v \in Urls : Encodable(v)} :
    u \in uploaded ~> \/ jobs[FileIdOf[u]] = u
                      \/ jobs[FileIdOf[u]] \in Urls \ {u} /\ GivenUp(u)

-----------------------------------------------------------------------------

(* EventGridBlobEncode.cs:47, "Build variables to ensure AMS Assests and   *)
(* Jobs are unique": a job name is refused only because the same blob has  *)
(* its job already.                                                        *)
NamesAreUnique ==
  \A i \in Invocations : pc[i] = "conflict" => jobs[FileId(i)] = Url(i)
===============================================================================
