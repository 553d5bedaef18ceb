------------------------------ MODULE JobRegistry ------------------------------
(***************************************************************************)
(* What the encoder of MediaServices.Demo promises those who upload blobs, *)
(* whatever is delivered twice, fails or runs side by side.  The job of a  *)
(* name goes to the first blob that claims it and stays with that blob; it *)
(* is claimed only when all it works with is there, which is never taken   *)
(* away again; and an event is acknowledged only to the blob that has the  *)
(* job of its name.                                                        *)
(***************************************************************************)
CONSTANTS Urls, FileIds, FileIdOf, Null

VARIABLES
  uploaded,   \* blobs that have been created
  assets,     \* names whose output asset exists
  transform,  \* the recipe, or Null
  jobs,       \* per name: the blob that has the job, or Null
  acked       \* blobs whose event was acknowledged

vars == <<uploaded, assets, transform, jobs, acked>>

Init ==
  /\ uploaded = {}
  /\ assets = {}
  /\ jobs = [f \in FileIds |-> Null]
  /\ acked = {}

Upload(u) ==
  /\ uploaded' = uploaded \cup {u}
  /\ UNCHANGED <<assets, transform, jobs, acked>>

(* Assets and recipes may come in any order and at any time. *)
Prepare ==
  /\ assets \subseteq assets'
  /\ transform # Null => transform' # Null
  /\ UNCHANGED <<uploaded, jobs, acked>>

Named(u) == u \in uploaded /\ FileIdOf[u] \in FileIds

Claim(u) ==
  /\ Named(u)
  /\ FileIdOf[u] \in assets /\ transform # Null
  /\ jobs[FileIdOf[u]] = Null
  /\ jobs' = [jobs EXCEPT ![FileIdOf[u]] = u]
  /\ UNCHANGED <<uploaded, assets, transform, acked>>

Acknowledge(u) ==
  /\ Named(u)
  /\ jobs[FileIdOf[u]] = u
  /\ acked' = acked \cup {u}
  /\ UNCHANGED <<uploaded, assets, transform, jobs>>

Next == Prepare \/ \E u \in Urls : Upload(u) \/ Claim(u) \/ Acknowledge(u)

Spec == Init /\ [][Next]_vars
===============================================================================
