------------------------------ MODULE MediaProofs ------------------------------
(***************************************************************************)
(* Proofs about the two halves of MediaServices.Demo that talk to the      *)
(* service: the encoding jobs, for any blobs and names, any number of      *)
(* deliveries and failures, and every order in which invocations run; and  *)
(* the reserved units, for any number of calls and any number of units to  *)
(* begin with.                                                             *)
(***************************************************************************)
EXTENDS EncodeJobs, ReservedUnits, FiniteSetTheorems, TLAPS

-------------------------------------------------------------------------------
(* Encoding jobs.                                                          *)

Stages == {"none"} \cup Running \cup Ended

(* What an invocation has achieved by the time it is at a stage.           *)
Named(i)    == FileId(i) # Null
HasAsset(i) == FileId(i) \in assets
HasJob(i)   == jobs[FileId(i)] = Url(i)

Achieved(i) ==
  /\ pc[i] # "none" => Url(i) \in uploaded
  /\ pc[i] \in Running \ {"parse"} => Named(i)
  /\ pc[i] \in {"createAsset", "probe", "submit", "return"} => transform # Null
  /\ pc[i] \in {"probe", "submit", "return"} => HasAsset(i)
  /\ pc[i] = "return" => HasJob(i)

AckedIsNamed == \A u \in acked : FileIdOf[u] # Null

IInv == /\ TypeOK /\ AckedMeansJob /\ AckedIsNamed /\ JobsAreReady
        /\ \A i \in Invocations : Achieved(i)

(* The parts of an invocation <<url, delivery>>.                           *)
LEMMA InvocationParts ==
  ASSUME NEW i \in Invocations
  PROVE  Url(i) \in Urls /\ i[2] \in Nat /\ FileId(i) \in FileIds \cup {Null}
BY EncodeAssumption DEF Invocations, Url, FileId

(* Before any upload no invocation has anything to achieve.                *)
LEMMA InitHolds == Init => IInv
<1> SUFFICES ASSUME Init PROVE IInv
  OBVIOUS
<1>1. TypeOK
  <2>1. pc \in [Invocations -> Stages]
    BY DEF Init, Stages
  <2>2. delivered \in [Urls -> 0..MaxDeliveries] /\ failures \in 0..MaxFailures
    BY EncodeAssumption DEF Init
  <2> QED
    BY <2>1, <2>2 DEF Init, TypeOK, Stages
<1>2. AckedMeansJob /\ AckedIsNamed /\ JobsAreReady
  BY DEF Init, AckedMeansJob, AckedIsNamed, JobsAreReady
<1>3. \A i \in Invocations : Achieved(i)
  BY DEF Init, Achieved, Running
<1> QED
  BY <1>1, <1>2, <1>3 DEF IInv

(* Nothing of what was achieved is lost by a step that only adds to the    *)
(* transform, the assets, the jobs and the uploads.                        *)
Kept ==
  /\ transform # Null => transform' # Null
  /\ assets \subseteq assets'
  /\ \A f \in FileIds : jobs[f] # Null => jobs'[f] = jobs[f]
  /\ uploaded \subseteq uploaded'

(* While Kept holds, an invocation that does not move loses none of its    *)
(* achievements.                                                           *)
LEMMA AchievementsAreKept ==
  ASSUME TypeOK, NEW i \in Invocations, Achieved(i), Kept, pc'[i] = pc[i]
  PROVE  Achieved(i)'
<1>1. pc[i] = "return" => FileId(i) \in FileIds /\ Url(i) # Null
  BY InvocationParts, EncodeAssumption DEF Achieved, Named, Running
<1>2. pc[i] = "return" => HasJob(i)'
  BY <1>1 DEF Achieved, HasJob, Kept
<1> QED
  BY <1>2 DEF Achieved, Kept, Named, HasAsset

(* A step of one invocation to a stage whose achievements are there.       *)
LEMMA OneInvocation ==
  ASSUME IInv, Kept, NEW i \in Invocations, NEW to \in Stages \ {"none"},
         pc[i] # "none", Goto(i, to), Achieved(i)'
  PROVE  /\ pc' \in [Invocations -> Stages]
         /\ \A k \in Invocations : Achieved(k)'
         /\ \A k \in Invocations : pc'[k] # "none" => pc[k] # "none"
<1>1. pc \in [Invocations -> Stages] /\ TypeOK
  BY DEF IInv, TypeOK, Stages
<1>2. pc' \in [Invocations -> Stages]
  BY <1>1 DEF Goto
<1>3. \A k \in Invocations \ {i} : pc'[k] = pc[k]
  BY <1>1 DEF Goto
<1>4. \A k \in Invocations \ {i} : Achieved(k)'
  BY <1>1, <1>3, AchievementsAreKept DEF IInv
<1> QED
  BY <1>2, <1>3, <1>4

(* The steps of an invocation that change nothing but its stage.           *)
LEMMA StageOnly ==
  ASSUME IInv, NEW i \in Invocations, NEW to \in Stages \ {"none"},
         pc[i] # "none", Goto(i, to), Achieved(i)', UNCHANGED <<media, events>>,
         failures' \in 0..MaxFailures
  PROVE  IInv'
<1>1. Kept
  BY DEF Kept, media, events
<1>2. /\ pc' \in [Invocations -> Stages]
      /\ \A k \in Invocations : Achieved(k)'
      /\ \A k \in Invocations : pc'[k] # "none" => pc[k] # "none"
  BY <1>1, OneInvocation
<1>3. TypeOK'
  BY <1>2 DEF IInv, TypeOK, Stages, media, events
<1>4. AckedMeansJob' /\ AckedIsNamed' /\ JobsAreReady'
  BY DEF IInv, AckedMeansJob, AckedIsNamed, JobsAreReady, media, events
<1> QED
  BY <1>2, <1>3, <1>4 DEF IInv

(* Only a name with a dot gets past FileHelper.                            *)
LEMMA ParseNameStep ==
  ASSUME IInv, NEW i \in Invocations, ParseName(i) PROVE IInv'
<1> DEFINE to == IF FileId(i) = Null THEN "threw" ELSE "getTransform"
<1>1. pc[i] = "parse" /\ Goto(i, to) /\ pc'[i] = to
  BY DEF IInv, TypeOK, ParseName, Goto
<1>2. Achieved(i)'
  BY <1>1 DEF IInv, Achieved, Named, HasAsset, HasJob, ParseName, Running, events
<1>3. to \in Stages \ {"none"} /\ failures' \in 0..MaxFailures
  BY DEF IInv, TypeOK, ParseName, Stages, Running, Ended
<1> QED
  BY <1>1, <1>2, <1>3, StageOnly DEF ParseName

(* Going straight to the asset means that the transform was there.         *)
LEMMA GetTransformStep ==
  ASSUME IInv, NEW i \in Invocations, GetTransform(i) PROVE IInv'
<1> DEFINE to == IF NoTransform THEN "createTransform" ELSE "createAsset"
<1>1. pc[i] = "getTransform" /\ Goto(i, to) /\ pc'[i] = to
  BY DEF IInv, TypeOK, GetTransform, Goto
<1>2. Achieved(i)'
  BY <1>1 DEF IInv, Achieved, Named, HasAsset, HasJob, GetTransform, NoTransform,
              Running, media, events
<1>3. to \in Stages \ {"none"} /\ failures' \in 0..MaxFailures
  BY DEF IInv, TypeOK, GetTransform, Stages, Running, Ended
<1> QED
  BY <1>1, <1>2, <1>3, StageOnly DEF GetTransform

(* Creating the transform, over another one or not, leaves a transform     *)
(* behind.                                                                 *)
LEMMA CreateTransformStep ==
  ASSUME IInv, NEW i \in Invocations, CreateTransform(i) PROVE IInv'
<1>1. pc[i] = "createTransform" /\ Goto(i, "createAsset") /\ pc'[i] = "createAsset"
  BY DEF IInv, TypeOK, CreateTransform, Goto
<1>2. transform' = "builtIn" /\ transform' # Null
  BY EncodeAssumption DEF CreateTransform
<1>3. Kept /\ Achieved(i)'
  BY <1>1, <1>2 DEF IInv, Kept, Achieved, Named, Running, CreateTransform, events
<1>4. "createAsset" \in Stages \ {"none"}
  BY DEF Stages, Running
<1>5. /\ pc' \in [Invocations -> Stages]
      /\ \A k \in Invocations : Achieved(k)'
      /\ \A k \in Invocations : pc'[k] # "none" => pc[k] # "none"
  BY <1>1, <1>3, <1>4, OneInvocation
<1>6. TypeOK'
  BY <1>2, <1>5 DEF IInv, TypeOK, Stages, CreateTransform, events
<1>7. AckedMeansJob' /\ AckedIsNamed' /\ JobsAreReady'
  BY <1>2 DEF IInv, AckedMeansJob, AckedIsNamed, JobsAreReady, CreateTransform, events
<1> QED
  BY <1>5, <1>6, <1>7 DEF IInv

(* The asset of the invocation's own name exists from here on.             *)
LEMMA CreateAssetStep ==
  ASSUME IInv, NEW i \in Invocations, CreateAsset(i) PROVE IInv'
<1>1. pc[i] = "createAsset" /\ Goto(i, "probe") /\ pc'[i] = "probe"
  BY DEF IInv, TypeOK, CreateAsset, Goto
<1>2. FileId(i) \in FileIds
  BY <1>1, InvocationParts DEF IInv, Achieved, Named, Running
<1>3. assets' = assets \cup {FileId(i)}
  BY DEF CreateAsset, WithAsset
<1>4. Kept /\ Achieved(i)'
  BY <1>1, <1>3 DEF IInv, Kept, Achieved, Named, HasAsset, Running, CreateAsset, events
<1>5. "probe" \in Stages \ {"none"}
  BY DEF Stages, Running
<1>6. /\ pc' \in [Invocations -> Stages]
      /\ \A k \in Invocations : Achieved(k)'
      /\ \A k \in Invocations : pc'[k] # "none" => pc[k] # "none"
  BY <1>1, <1>4, <1>5, OneInvocation
<1>7. TypeOK'
  BY <1>2, <1>3, <1>6 DEF IInv, TypeOK, Stages, CreateAsset, events
<1>8. AckedMeansJob' /\ AckedIsNamed' /\ JobsAreReady'
  BY <1>3 DEF IInv, AckedMeansJob, AckedIsNamed, JobsAreReady, CreateAsset, events
<1> QED
  BY <1>6, <1>7, <1>8 DEF IInv

(* The probe changes nothing and either throws or goes on.                 *)
LEMMA ProbeStep ==
  ASSUME IInv, NEW i \in Invocations, Probe(i) PROVE IInv'
<1> DEFINE to == IF Url(i) \in Unprobeable THEN "threw" ELSE "submit"
<1>1. pc[i] = "probe" /\ Goto(i, to) /\ pc'[i] = to
  BY DEF IInv, TypeOK, Probe, Goto
<1>2. Achieved(i)'
  BY <1>1 DEF IInv, Achieved, Named, HasAsset, HasJob, Probe, Running, media, events
<1>3. to \in Stages \ {"none"} /\ failures' \in 0..MaxFailures
  BY DEF IInv, TypeOK, Probe, Stages, Running, Ended
<1> QED
  BY <1>1, <1>2, <1>3, StageOnly DEF Probe

(* A free name becomes the job of this blob; a taken one is left alone, so *)
(* that what was acknowledged before stays true.                           *)
LEMMA SubmitStep ==
  ASSUME IInv, NEW i \in Invocations, Submit(i) PROVE IInv'
<1> DEFINE f == FileId(i)
<1>1. TypeOK /\ pc[i] = "submit" /\ f \in FileIds /\ Url(i) \in Urls
  BY InvocationParts DEF IInv, Achieved, Named, Running, Submit
<1>2. CASE jobs[f] # Null
  <2>1. Goto(i, "conflict") /\ pc'[i] = "conflict" /\ jobs' = jobs
    BY <1>1, <1>2 DEF Submit, Refused, AfterConflict, TypeOK, Goto
  <2>2. Achieved(i)'
    BY <1>1, <2>1 DEF IInv, Achieved, Running, Submit, events
  <2>3. "conflict" \in Stages \ {"none"} /\ failures' \in 0..MaxFailures
    BY DEF IInv, TypeOK, Submit, Stages, Ended
  <2> QED
    BY <1>1, <2>1, <2>2, <2>3, StageOnly DEF Submit, media
<1>3. CASE jobs[f] = Null
  <2>1. Goto(i, "return") /\ pc'[i] = "return" /\ jobs' = [jobs EXCEPT ![f] = Url(i)]
    BY <1>1, <1>3 DEF Submit, Refused, TypeOK, Goto
  <2>2. /\ \A g \in FileIds \ {f} : jobs'[g] = jobs[g]
        /\ jobs'[f] = Url(i)
        /\ jobs' \in [FileIds -> Urls \cup {Null}]
    BY <1>1, <2>1 DEF TypeOK
  <2>3. Kept
    BY <1>3, <2>2 DEF Kept, Submit, events
  <2>4. Achieved(i)'
    BY <1>1, <2>1, <2>2 DEF IInv, Achieved, Named, HasAsset, HasJob, Running, Submit, events
  <2>5. "return" \in Stages \ {"none"}
    BY DEF Stages, Running
  <2>6. /\ pc' \in [Invocations -> Stages]
        /\ \A k \in Invocations : Achieved(k)'
        /\ \A k \in Invocations : pc'[k] # "none" => pc[k] # "none"
    BY <1>1, <2>1, <2>3, <2>4, <2>5, OneInvocation
  <2>7. TypeOK'
    BY <2>2, <2>6 DEF IInv, TypeOK, Stages, Submit, events
  <2>8. AckedMeansJob' /\ AckedIsNamed'
    <3> SUFFICES ASSUME NEW u \in acked
                 PROVE  jobs'[FileIdOf[u]] = u /\ FileIdOf[u] # Null
      BY DEF AckedMeansJob, AckedIsNamed, Submit, events
    <3>1. u \in Urls /\ FileIdOf[u] \in FileIds /\ jobs[FileIdOf[u]] = u
      BY EncodeAssumption DEF IInv, TypeOK, AckedMeansJob, AckedIsNamed
    <3>2. FileIdOf[u] # f
      BY <1>3, <3>1, EncodeAssumption
    <3> QED
      BY <2>2, <3>1, <3>2 DEF IInv, AckedIsNamed
  <2>9. JobsAreReady'
    BY <1>1, <2>2 DEF IInv, JobsAreReady, Achieved, HasAsset, Submit
  <2> QED
    BY <2>6, <2>7, <2>8, <2>9 DEF IInv
<1> QED
  BY <1>2, <1>3

(* The event is acknowledged while the invocation still has its job.       *)
LEMMA ReturnStep ==
  ASSUME IInv, NEW i \in Invocations, Return(i) PROVE IInv'
<1>1. TypeOK /\ pc[i] = "return" /\ Goto(i, "returned") /\ pc'[i] = "returned"
  BY DEF IInv, TypeOK, Return, Goto
<1>2. Url(i) \in uploaded /\ HasJob(i) /\ Named(i)
  BY <1>1 DEF IInv, Achieved, Running
<1>3. Kept /\ Achieved(i)'
  BY <1>1, <1>2 DEF Kept, Achieved, Running, Return, media
<1>4. "returned" \in Stages \ {"none"}
  BY DEF Stages, Ended
<1>5. /\ pc' \in [Invocations -> Stages]
      /\ \A k \in Invocations : Achieved(k)'
      /\ \A k \in Invocations : pc'[k] # "none" => pc[k] # "none"
  BY <1>1, <1>3, <1>4, OneInvocation
<1>6. acked' = acked \cup {Url(i)}
  BY DEF Return
<1>7. TypeOK'
  BY <1>2, <1>5, <1>6 DEF IInv, TypeOK, Stages, Return, media
<1>8. AckedMeansJob' /\ AckedIsNamed' /\ JobsAreReady'
  BY <1>2, <1>6 DEF IInv, AckedMeansJob, AckedIsNamed, JobsAreReady, HasJob, Named,
                    FileId, Return, media
<1> QED
  BY <1>5, <1>7, <1>8 DEF IInv

(* A failure ends an invocation and takes back nothing it did.             *)
LEMMA FailStep ==
  ASSUME IInv, NEW i \in Invocations, Fail(i) PROVE IInv'
<1>1. pc[i] \in Running /\ pc[i] # "none" /\ Goto(i, "threw") /\ pc'[i] = "threw"
  BY DEF IInv, TypeOK, Fail, Goto, Running
<1>2. Achieved(i)'
  BY <1>1 DEF IInv, Achieved, Running, Fail, events
<1>3. failures' \in 0..MaxFailures
  BY EncodeAssumption DEF IInv, TypeOK, Fail
<1>4. "threw" \in Stages \ {"none"}
  BY DEF Stages, Ended
<1> QED
  BY <1>1, <1>2, <1>3, <1>4, StageOnly DEF Fail

(* A new blob disturbs nobody.                                             *)
LEMMA UploadStep ==
  ASSUME IInv, NEW u \in Urls, Upload(u) PROVE IInv'
<1>1. Kept
  BY DEF Kept, Upload, media
<1>2. \A i \in Invocations : Achieved(i)'
  BY <1>1, AchievementsAreKept DEF IInv, Upload
<1>3. TypeOK'
  BY DEF IInv, TypeOK, Upload, media
<1>4. AckedMeansJob' /\ AckedIsNamed' /\ JobsAreReady'
  BY DEF IInv, AckedMeansJob, AckedIsNamed, JobsAreReady, Upload, media
<1> QED
  BY <1>2, <1>3, <1>4 DEF IInv

(* Deploying the transform replaces it but never removes it.               *)
LEMMA DeployStep ==
  ASSUME IInv, DeployTransform PROVE IInv'
<1>1. transform' = "deployed" /\ transform' # Null
  BY EncodeAssumption DEF DeployTransform
<1>2. Kept
  BY <1>1 DEF Kept, DeployTransform, events
<1>3. \A i \in Invocations : Achieved(i)'
  BY <1>2, AchievementsAreKept DEF IInv, DeployTransform
<1>4. TypeOK'
  BY <1>1 DEF IInv, TypeOK, DeployTransform, events
<1>5. AckedMeansJob' /\ AckedIsNamed' /\ JobsAreReady'
  BY <1>1 DEF IInv, AckedMeansJob, AckedIsNamed, JobsAreReady, DeployTransform, events
<1> QED
  BY <1>3, <1>4, <1>5 DEF IInv

(* A delivery starts one new invocation, numbered by the deliveries so     *)
(* far.                                                                    *)
LEMMA DeliverStep ==
  ASSUME IInv, NEW u \in Urls, Deliver(u) PROVE IInv'
<1>0. PICK n : n = delivered[u] + 1
  OBVIOUS
<1> DEFINE new == <<u, n>>
<1>1. TypeOK /\ delivered[u] \in 0..MaxDeliveries /\ delivered[u] < MaxDeliveries
  BY DEF IInv, TypeOK, Deliver
<1>2. n \in 1..MaxDeliveries
  BY <1>0, <1>1, EncodeAssumption
<1>3. new \in Invocations /\ Url(new) = u /\ new[2] = n
  BY <1>2 DEF Invocations, Url
<1>4. pc' = [pc EXCEPT ![new] = "parse"]
  BY <1>0 DEF Deliver, Goto
<1>5. /\ pc' \in [Invocations -> Stages]
      /\ pc'[new] = "parse"
      /\ \A k \in Invocations \ {new} : pc'[k] = pc[k]
  BY <1>1, <1>3, <1>4 DEF TypeOK, Stages, Running
<1>6. delivered' = [delivered EXCEPT ![u] = n]
  BY <1>0 DEF Deliver
<1>7. delivered' \in [Urls -> 0..MaxDeliveries]
  <2>1. n \in 0..MaxDeliveries
    BY <1>2
  <2> QED
    BY <1>1, <1>6, <2>1 DEF TypeOK
<1>8. \A k \in Invocations : pc'[k] # "none" => k[2] <= delivered'[Url(k)]
  <2> SUFFICES ASSUME NEW k \in Invocations, pc'[k] # "none"
               PROVE  k[2] <= delivered'[Url(k)]
    OBVIOUS
  <2>1. Url(k) \in Urls /\ k[2] \in Nat /\ delivered[Url(k)] \in Nat
    BY <1>1, InvocationParts, EncodeAssumption DEF TypeOK
  <2>2. delivered'[Url(k)] = IF Url(k) = u THEN n ELSE delivered[Url(k)]
    BY <1>1, <1>6, <2>1 DEF TypeOK
  <2>3. CASE k = new
    BY <1>2, <1>3, <2>2, <2>3
  <2>4. CASE k # new
    <3>1. k[2] <= delivered[Url(k)]
      BY <1>1, <1>5, <2>4 DEF TypeOK
    <3> QED
      BY <1>0, <1>1, <2>1, <2>2, <3>1
  <2> QED
    BY <2>3, <2>4
<1>9. TypeOK'
  BY <1>1, <1>5, <1>7, <1>8 DEF TypeOK, Stages, Deliver, media
<1>10. \A k \in Invocations : Achieved(k)'
  <2>1. Kept
    BY DEF Kept, Deliver, media
  <2>2. Achieved(new)'
    BY <1>3, <1>5 DEF Achieved, Running, Deliver
  <2> QED
    BY <1>1, <1>5, <2>1, <2>2, AchievementsAreKept DEF IInv
<1>11. AckedMeansJob' /\ AckedIsNamed' /\ JobsAreReady'
  BY DEF IInv, AckedMeansJob, AckedIsNamed, JobsAreReady, Deliver, media
<1> QED
  BY <1>9, <1>10, <1>11 DEF IInv

(* Every step preserves the inductive invariant.                           *)
LEMMA StepHolds == IInv /\ [Next]_vars => IInv'
<1> SUFFICES ASSUME IInv, [Next]_vars PROVE IInv'
  OBVIOUS
<1>1. CASE UNCHANGED vars
  <2>1. TypeOK' /\ AckedMeansJob' /\ AckedIsNamed' /\ JobsAreReady'
    BY <1>1 DEF IInv, TypeOK, AckedMeansJob, AckedIsNamed, JobsAreReady, vars
  <2>2. \A i \in Invocations : Achieved(i)'
    BY <1>1 DEF IInv, Achieved, Named, HasAsset, HasJob, vars
  <2> QED
    BY <2>1, <2>2 DEF IInv
<1>2. CASE DeployTransform
  BY <1>2, DeployStep
<1>3. ASSUME NEW u \in Urls, Upload(u) \/ Deliver(u) PROVE IInv'
  BY <1>3, UploadStep, DeliverStep
<1>4. ASSUME NEW i \in Invocations, Invoke(i) PROVE IInv'
  BY <1>4, ParseNameStep, GetTransformStep, CreateTransformStep, CreateAssetStep,
     ProbeStep, SubmitStep, ReturnStep DEF Invoke
<1> QED
  BY <1>1, <1>2, <1>3, <1>4, FailStep DEF Next

(* The inductive invariant: what each invocation has achieved by its       *)
(* stage.                                                                  *)
THEOREM Invariance == Spec => []IInv
BY InitHolds, StepHolds, PTL DEF Spec

(* The types of the encoder, for any deliveries and failures.              *)
THEOREM TypeCorrect == Spec => []TypeOK
<1>1. IInv => TypeOK
  BY DEF IInv
<1> QED
  BY <1>1, Invariance, PTL

(* An acknowledged event has the job of its own blob, and a job has its    *)
(* asset and its transform.                                                *)
THEOREM AcknowledgedEncodes == Spec => []AckedIsEncoded
<1>1. IInv => AckedIsEncoded
  BY DEF IInv, AckedIsEncoded
<1> QED
  BY <1>1, Invariance, PTL

(* No step takes a job away or gives it another input.                     *)
LEMMA JobsAreKept ==
  ASSUME IInv, [Next]_vars, NEW f \in FileIds, jobs[f] # Null
  PROVE  jobs'[f] = jobs[f]
<1>1. CASE UNCHANGED jobs
  BY <1>1
<1>2. ASSUME NEW i \in Invocations, Submit(i)
      PROVE  jobs'[f] = jobs[f]
  BY <1>2 DEF IInv, TypeOK, Submit, Refused
<1> QED
  BY <1>1, <1>2 DEF Next, Invoke, Upload, Deliver, DeployTransform, ParseName,
     GetTransform, CreateTransform, CreateAsset, Probe, Return, Fail, media, vars

(* Once the transform is deployed and nobody has found it missing, nobody  *)
(* will.                                                                   *)
LEMMA SettledStays ==
  ASSUME IInv, [Next]_vars, Settled
  PROVE  Settled'
<1>1. pc \in [Invocations -> Stages]
  BY DEF IInv, TypeOK, Stages
<1>2. transform' = transform \/ transform' = "deployed"
  BY DEF Next, Invoke, Upload, Deliver, DeployTransform, ParseName, GetTransform,
     CreateTransform, CreateAsset, Probe, Submit, Return, Fail, media, vars, Settled
<1>3. ASSUME NEW i \in Invocations, NEW to, Goto(i, to), to # "createTransform",
             NEW j \in Invocations
      PROVE  pc'[j] # "createTransform"
  BY <1>1, <1>3 DEF Goto, Settled
<1>4. ASSUME NEW j \in Invocations
      PROVE  pc'[j] # "createTransform"
  <2>1. CASE UNCHANGED pc
    BY <2>1 DEF Settled
  <2>2. ASSUME NEW u \in Urls, Deliver(u)
        PROVE  pc'[j] # "createTransform"
    BY <1>1, <2>2 DEF Deliver, Goto, Settled
  <2>3. ASSUME NEW i \in Invocations, GetTransform(i)
        PROVE  pc'[j] # "createTransform"
    <3>1. ~ NoTransform
      BY EncodeAssumption DEF Settled, NoTransform
    <3>2. Goto(i, "createAsset")
      BY <2>3, <3>1 DEF GetTransform
    <3> QED
      BY <1>3, <3>2
  <2>4. ASSUME NEW i \in Invocations, ParseName(i) \/ Probe(i) \/ Submit(i)
        PROVE  pc'[j] # "createTransform"
    <3>1. PICK to \in {"threw", "getTransform", "submit", "return", "conflict"} : Goto(i, to)
      BY <2>4 DEF ParseName, Probe, Submit, AfterConflict
    <3> QED
      BY <1>3, <3>1
  <2>5. ASSUME NEW i \in Invocations,
               CreateTransform(i) \/ CreateAsset(i) \/ Return(i) \/ Fail(i)
        PROVE  pc'[j] # "createTransform"
    BY <1>3, <2>5 DEF CreateTransform, CreateAsset, Return, Fail
  <2> QED
    BY <2>1, <2>2, <2>3, <2>4, <2>5 DEF Next, Invoke, Upload, DeployTransform, vars
<1> QED
  BY <1>2, <1>4 DEF Settled

(* Jobs keep their inputs, and a deployed transform that nobody has found  *)
(* missing stays.                                                          *)
THEOREM NothingOverwritten == Spec => NothingIsOverwritten
<1>1. IInv /\ [Next]_vars => [KeepStep]_vars
  BY JobsAreKept, SettledStays DEF KeepStep
<1> QED
  BY <1>1, Invariance, PTL DEF Spec, NothingIsOverwritten

-------------------------------------------------------------------------------
(* The encoder implements the register of jobs: only Submit claims a job,  *)
(* only Return acknowledges an event, and by the inductive invariant both  *)
(* find what the register asks for.                                        *)
LEMMA InitRegisters == Init => Registry!Init
BY DEF Init, Registry!Init

LEMMA SubmitRegisters ==
  ASSUME IInv, NEW i \in Invocations, Submit(i)
  PROVE  [Registry!Next]_(Registry!vars)
<1> DEFINE u == Url(i)
<1>1. /\ u \in Urls /\ u \in uploaded /\ FileIdOf[u] \in FileIds /\ FileIdOf[u] \in assets
      /\ transform # Null
  BY InvocationParts DEF IInv, Achieved, Named, HasAsset, Running, Submit, FileId
<1>2. UNCHANGED <<uploaded, assets, transform, acked>>
  BY DEF Submit, events
<1>3. CASE jobs[FileIdOf[u]] = Null
  <2>1. jobs' = [jobs EXCEPT ![FileIdOf[u]] = u]
    BY <1>3 DEF Submit, Refused, FileId
  <2>2. Registry!Claim(u)
    BY <1>1, <1>2, <1>3, <2>1 DEF Registry!Claim, Registry!Named
  <2> QED
    BY <1>1, <2>2 DEF Registry!Next
<1>4. CASE jobs[FileIdOf[u]] # Null
  <2>1. jobs' = jobs
    BY <1>4 DEF Submit, Refused, FileId
  <2> QED
    BY <1>2, <2>1 DEF Registry!vars
<1> QED
  BY <1>3, <1>4

LEMMA ReturnRegisters ==
  ASSUME IInv, NEW i \in Invocations, Return(i)
  PROVE  Registry!Next
<1> DEFINE u == Url(i)
<1>1. u \in Urls /\ u \in uploaded /\ FileIdOf[u] \in FileIds /\ jobs[FileIdOf[u]] = u
  BY InvocationParts DEF IInv, Achieved, Named, HasJob, Running, Return, FileId
<1>2. acked' = acked \cup {u} /\ UNCHANGED <<uploaded, assets, transform, jobs>>
  BY DEF Return, media
<1>3. Registry!Acknowledge(u)
  BY <1>1, <1>2 DEF Registry!Acknowledge, Registry!Named
<1> QED
  BY <1>1, <1>3 DEF Registry!Next

LEMMA StepRegisters == IInv /\ [Next]_vars => [Registry!Next]_(Registry!vars)
<1> SUFFICES ASSUME IInv, [Next]_vars PROVE [Registry!Next]_(Registry!vars)
  OBVIOUS
<1>1. CASE UNCHANGED vars
  BY <1>1 DEF vars, Registry!vars
<1>2. ASSUME NEW u \in Urls, Upload(u)
      PROVE  [Registry!Next]_(Registry!vars)
  BY <1>2 DEF Upload, media, Registry!Upload, Registry!Next
<1>3. CASE DeployTransform
  <2>1. Registry!Prepare
    BY <1>3, EncodeAssumption DEF DeployTransform, events, Registry!Prepare
  <2> QED
    BY <2>1 DEF Registry!Next
<1>4. ASSUME NEW i \in Invocations, CreateTransform(i) \/ CreateAsset(i)
      PROVE  [Registry!Next]_(Registry!vars)
  <2>1. Registry!Prepare
    BY <1>4, EncodeAssumption DEF CreateTransform, CreateAsset, WithAsset, events, Registry!Prepare
  <2> QED
    BY <2>1 DEF Registry!Next
<1>5. ASSUME NEW i \in Invocations, ParseName(i) \/ GetTransform(i) \/ Probe(i) \/ Fail(i)
      PROVE  [Registry!Next]_(Registry!vars)
  BY <1>5 DEF ParseName, GetTransform, Probe, Fail, media, events, Registry!vars
<1>6. ASSUME NEW u \in Urls, Deliver(u)
      PROVE  [Registry!Next]_(Registry!vars)
  BY <1>6 DEF Deliver, media, Registry!vars
<1> QED
  BY <1>1, <1>2, <1>3, <1>4, <1>5, <1>6, SubmitRegisters, ReturnRegisters DEF Next, Invoke

(* For any blobs and names, and however events are repeated: the first     *)
(* blob of a name has its job for good, and only it is acknowledged.       *)
THEOREM KeepsRegister == Spec => ImplementsRegistry
<1>1. Spec => Registry!Init /\ [][Registry!Next]_(Registry!vars)
  BY InitRegisters, StepRegisters, Invariance, PTL DEF Spec
<1> QED
  BY <1>1 DEF ImplementsRegistry, Registry!Spec

-------------------------------------------------------------------------------
(* Reserved units.                                                         *)

(* A number that some call may still put keeps every bound of the units.   *)
PendingInRange ==
  \A c \in Calls : at[c] = "put" =>
    /\ MayScale(scaling[c], read[c])
    /\ read[c] <= ScaleUpLimit + 1 \/ read[c] <= initial

(* A call counts as applied only after its PUT.                            *)
AppliedIsPast ==
  \A c \in applied : at[c] \notin {"none", "get", "put"}

PendingIsBounded ==
  \A c \in Calls : at[c] = "put" =>
    initial - Applied("down") <= read[c] /\ read[c] <= initial + Applied("up")

(* Without a race the one number that may still be put is the current one. *)
PendingIsCurrent ==
  ~raced => \A c \in Calls : at[c] = "put" =>
              /\ read[c] = units
              /\ \A d \in Calls : at[d] = "put" => d = c

UnitsInv == /\ UnitsTypeOK /\ UnitsInRange /\ PendingInRange
        /\ AppliedIsPast /\ NothingInvented /\ PendingIsBounded
        /\ OnlyRacesLose /\ PendingIsCurrent

(* Counting the applied calls of one direction.                            *)
LEMMA AppliedIsNat ==
  ASSUME UnitsTypeOK, NEW s
  PROVE  Applied(s) \in Nat
<1> DEFINE A == {c \in applied : scaling[c] = s}
<1>1. IsFiniteSet(A)
  BY UnitsAssumption, FS_Subset DEF UnitsTypeOK
<1> QED
  BY <1>1, FS_CardinalityType DEF Applied

(* A PUT counts once, for its own direction.                               *)
LEMMA PutCounts ==
  ASSUME UnitsTypeOK, NEW c \in Calls, c \notin applied,
         applied' = applied \cup {c}, scaling' = scaling, NEW s
  PROVE  Applied(s)' = IF scaling[c] = s THEN Applied(s) + 1 ELSE Applied(s)
<1> DEFINE A == {d \in applied : scaling[d] = s}
           B == {d \in applied \cup {c} : scaling[d] = s}
<1>1. Applied(s) = Cardinality(A) /\ Applied(s)' = Cardinality(B)
  BY DEF Applied
<1>2. IsFiniteSet(A) /\ c \notin A
  BY UnitsAssumption, FS_Subset DEF UnitsTypeOK
<1>3. CASE scaling[c] = s
  <2>1. B = A \cup {c}
    BY <1>3
  <2> QED
    BY <1>1, <1>2, <1>3, <2>1, FS_AddElement
<1>4. CASE scaling[c] # s
  <2>1. B = A
    BY <1>4
  <2> QED
    BY <1>1, <1>4, <2>1
<1> QED
  BY <1>3, <1>4

(* Before the first call nothing is pending and nothing was applied.       *)
LEMMA UnitsInitHolds == UnitsInit => UnitsInv
<1> SUFFICES ASSUME UnitsInit PROVE UnitsInv
  OBVIOUS
<1>1. UnitsInit
  OBVIOUS
<1>2. UnitsTypeOK
  <2>1. raced \in BOOLEAN
    BY <1>1 DEF UnitsInit
  <2>2. initial \in 0..MaxInitial /\ units \in Nat
    BY <1>1, UnitsAssumption DEF UnitsInit
  <2>3. at \in [Calls -> {"none", "ignored", "get", "put", "getAgain", "done", "threw"}]
    BY <1>1 DEF UnitsInit
  <2> QED
    BY <1>1, <2>1, <2>2, <2>3 DEF UnitsInit, UnitsTypeOK
<1>3. \A s : Applied(s) = 0
  <2>1. \A s : {c \in applied : scaling[c] = s} = {}
    BY <1>1 DEF UnitsInit
  <2> QED
    BY <2>1, FS_EmptySet DEF Applied
<1>4. \A c \in Calls : at[c] = "none"
  BY <1>1 DEF UnitsInit
<1>5. UnitsInRange /\ NothingInvented /\ OnlyRacesLose
  BY <1>1, <1>2, <1>3 DEF UnitsInit, UnitsTypeOK, UnitsInRange, NothingInvented, OnlyRacesLose
<1>6. PendingInRange /\ AppliedIsPast /\ PendingIsBounded /\ PendingIsCurrent
  BY <1>1, <1>4 DEF UnitsInit, PendingInRange, AppliedIsPast, PendingIsBounded,
                    PendingIsCurrent
<1> QED
  BY <1>2, <1>5, <1>6 DEF UnitsInv

(* The steps that neither read nor write the units.                        *)
LEMMA QuietStep ==
  ASSUME UnitsInv, NEW c \in Calls, NEW to,
         to \in {"ignored", "get", "done", "threw"}, Proceed(c, to), 
         c \in applied => to # "get",
         UNCHANGED <<initial, units, scaling, read, applied, raced>>
  PROVE  UnitsInv'
<1>1. UnitsTypeOK'
  <2>1. raced' \in BOOLEAN
    BY DEF UnitsInv, UnitsTypeOK
  <2>2. at' \in [Calls -> {"none", "ignored", "get", "put", "getAgain", "done", "threw"}]
    BY DEF UnitsInv, UnitsTypeOK, Proceed
  <2> QED
    BY <2>1, <2>2 DEF UnitsInv, UnitsTypeOK
<1>2. \A s : Applied(s)' = Applied(s)
  BY DEF Applied
<1>3. \A d \in Calls : at'[d] = "put" => at[d] = "put"
  BY DEF UnitsInv, UnitsTypeOK, Proceed
<1>4. UnitsInRange' /\ NothingInvented' /\ OnlyRacesLose'
  BY <1>2 DEF UnitsInv, UnitsInRange, NothingInvented, OnlyRacesLose
<1>5. PendingInRange' /\ PendingIsCurrent'
  BY <1>3 DEF UnitsInv, PendingInRange, PendingIsCurrent, MayScale
<1>6. PendingIsBounded'
  BY <1>2, <1>3 DEF UnitsInv, PendingIsBounded
<1>7. AppliedIsPast'
  BY DEF UnitsInv, UnitsTypeOK, AppliedIsPast, Proceed
<1> QED
  BY <1>1, <1>4, <1>5, <1>6, <1>7 DEF UnitsInv

(* What a call reads is within the bounds of the units at that moment; a   *)
(* read beside a pending PUT is a race.                                    *)
LEMMA GetKeeps ==
  ASSUME UnitsInv, NEW c \in Calls, Get(c)
  PROVE  UnitsInv'
<1>1. UnitsTypeOK /\ \A d \in applied : d # c
  BY DEF UnitsInv, AppliedIsPast, Get
<1>2. UnitsTypeOK'
  <2>1. raced' \in BOOLEAN
    BY <1>1 DEF UnitsTypeOK, Get
  <2>2. at' \in [Calls -> {"none", "ignored", "get", "put", "getAgain", "done", "threw"}]
    BY <1>1 DEF UnitsTypeOK, Get, Proceed
  <2>3. read' \in [Calls -> Nat]
    BY <1>1 DEF UnitsTypeOK, Get
  <2> QED
    BY <1>1, <2>1, <2>2, <2>3 DEF UnitsTypeOK, Get
<1>3. \A s : Applied(s)' = Applied(s)
  BY DEF Applied, Get
<1>4. \A d \in Calls \ {c} : at'[d] = at[d] /\ read'[d] = read[d]
  BY <1>1 DEF UnitsTypeOK, Get, Proceed
<1>5. read'[c] = units /\ (at'[c] = "put" => MayScale(scaling[c], units))
  BY <1>1 DEF UnitsTypeOK, Get, Proceed
<1>6. UnitsInRange' /\ NothingInvented' /\ OnlyRacesLose'
  BY <1>3 DEF UnitsInv, UnitsInRange, NothingInvented, OnlyRacesLose, Get
<1>7. PendingInRange'
  BY <1>4, <1>5 DEF UnitsInv, PendingInRange, UnitsInRange, MayScale, Get
<1>8. PendingIsBounded'
  BY <1>3, <1>4, <1>5 DEF UnitsInv, PendingIsBounded, NothingInvented, Get
<1>9. PendingIsCurrent'
  BY <1>4, <1>5 DEF UnitsInv, PendingIsCurrent, Get
<1>10. AppliedIsPast'
  BY <1>1, <1>4 DEF UnitsInv, AppliedIsPast, UnitsTypeOK, Get
<1> QED
  BY <1>2, <1>6, <1>7, <1>8, <1>9, <1>10 DEF UnitsInv

(* A PUT stays within the bounds that its number had when it was read, and *)
(* counts as one applied call.                                             *)
LEMMA PutKeeps ==
  ASSUME UnitsInv, NEW c \in Calls, Put(c)
  PROVE  UnitsInv'
<1> DEFINE up == Applied("up")  down == Applied("down")
<1>1. UnitsTypeOK /\ c \notin applied /\ at[c] = "put"
  BY DEF UnitsInv, AppliedIsPast, Put
<1>2. read[c] \in Nat /\ initial \in Nat /\ units \in Nat /\ up \in Nat /\ down \in Nat
  BY <1>1, AppliedIsNat, UnitsAssumption DEF UnitsTypeOK
<1>3. scaling[c] = "up" \/ scaling[c] = "down"
  BY <1>1, UnitsAssumption DEF UnitsTypeOK
<1>4. /\ up' = IF scaling[c] = "up" THEN up + 1 ELSE up
      /\ down' = IF scaling[c] = "down" THEN down + 1 ELSE down
  BY <1>1, PutCounts DEF Put
<1>5. units' = IF scaling[c] = "up" THEN read[c] + 1 ELSE read[c] - 1
  BY DEF Put, Scaled
<1>6. MayScale(scaling[c], read[c]) /\ (read[c] <= 5 \/ read[c] <= initial)
  BY <1>1 DEF UnitsInv, PendingInRange, ScaleUpLimit
<1>7. at'[c] # "put" /\ \A d \in Calls \ {c} : at'[d] = at[d]
  BY <1>1 DEF UnitsTypeOK, Put, Proceed
<1>8. UnitsTypeOK'
  <2>1. raced' \in BOOLEAN
    BY <1>1 DEF UnitsTypeOK, Put
  <2>2. at' \in [Calls -> {"none", "ignored", "get", "put", "getAgain", "done", "threw"}]
    BY <1>1 DEF UnitsTypeOK, Put, Proceed
  <2>3. units' \in Nat
    BY <1>2, <1>3, <1>5, <1>6 DEF MayScale
  <2> QED
    BY <1>1, <2>1, <2>2, <2>3 DEF UnitsTypeOK, Put
<1>9. UnitsInRange'
  BY <1>2, <1>3, <1>5, <1>6 DEF UnitsInRange, MayScale, ScaleUpLimit, Put
<1>10. PendingInRange'
  BY <1>7 DEF UnitsInv, PendingInRange, MayScale, Put
<1>11. AppliedIsPast'
  BY <1>1, <1>7 DEF UnitsInv, AppliedIsPast, UnitsTypeOK, Put, Proceed
<1>12. initial - down <= read[c] /\ read[c] <= initial + up
  BY <1>1 DEF UnitsInv, PendingIsBounded
<1>13. NothingInvented'
  BY <1>2, <1>3, <1>4, <1>5, <1>12 DEF NothingInvented, Put
<1>14. PendingIsBounded'
  <2> SUFFICES ASSUME NEW d \in Calls, at'[d] = "put"
               PROVE  initial' - down' <= read'[d] /\ read'[d] <= initial' + up'
    BY DEF PendingIsBounded
  <2>1. read[d] \in Nat /\ initial - down <= read[d] /\ read[d] <= initial + up
    BY <1>1, <1>7 DEF UnitsInv, PendingIsBounded, UnitsTypeOK
  <2> QED
    BY <1>2, <1>4, <2>1 DEF Put
<1>15. OnlyRacesLose'
  <2>1. ~raced => read[c] = units /\ units = initial + up - down
    BY <1>1 DEF UnitsInv, PendingIsCurrent, OnlyRacesLose
  <2> QED
    BY <1>2, <1>3, <1>4, <1>5, <2>1 DEF OnlyRacesLose, Put
<1>16. PendingIsCurrent'
  BY <1>1, <1>7 DEF UnitsInv, PendingIsCurrent, Put
<1> QED
  BY <1>8, <1>9, <1>10, <1>11, <1>13, <1>14, <1>15, <1>16 DEF UnitsInv

(* Every step preserves the inductive invariant.                           *)
LEMMA UnitsStepHolds == UnitsInv /\ [UnitsNext]_unitsVars => UnitsInv'
<1> SUFFICES ASSUME UnitsInv, [UnitsNext]_unitsVars PROVE UnitsInv'
  OBVIOUS
<1>1. CASE UNCHANGED unitsVars
  <2>1. UnitsTypeOK'
    <3>1. raced' \in BOOLEAN
      BY <1>1 DEF UnitsInv, UnitsTypeOK, unitsVars
    <3> QED
      BY <1>1, <3>1 DEF UnitsInv, UnitsTypeOK, unitsVars
  <2>2. \A s : Applied(s)' = Applied(s)
    BY <1>1 DEF Applied, unitsVars
  <2>3. UnitsInRange' /\ NothingInvented' /\ OnlyRacesLose' /\ PendingIsBounded'
    BY <1>1, <2>2 DEF UnitsInv, UnitsInRange, NothingInvented, OnlyRacesLose,
                      PendingIsBounded, unitsVars
  <2>4. PendingInRange' /\ AppliedIsPast' /\ PendingIsCurrent'
    BY <1>1 DEF UnitsInv, PendingInRange, AppliedIsPast, PendingIsCurrent, MayScale, unitsVars
  <2> QED
    BY <2>1, <2>3, <2>4 DEF UnitsInv
<1>2. ASSUME NEW c \in Calls, Run(c) PROVE UnitsInv'
  <2>1. c \notin applied
    BY <1>2 DEF UnitsInv, AppliedIsPast, Run
  <2>2. PICK to \in {"ignored", "get"} : Proceed(c, to)
    BY <1>2 DEF Run
  <2> QED
    BY <1>2, <2>1, <2>2, QuietStep DEF Run
<1>3. ASSUME NEW c \in Calls, GetAgain(c) PROVE UnitsInv'
  BY <1>3, QuietStep DEF GetAgain
<1>4. ASSUME NEW c \in Calls, RequestThrows(c) PROVE UnitsInv'
  BY <1>4, QuietStep DEF RequestThrows
<1> QED
  BY <1>1, <1>2, <1>3, <1>4, GetKeeps, PutKeeps DEF UnitsNext

(* The inductive invariant: every number that may still be put is as good  *)
(* as the units themselves.                                                *)
THEOREM UnitsInvariance == UnitsSpec => []UnitsInv
BY UnitsInitHolds, UnitsStepHolds, PTL DEF UnitsSpec

(* Whatever the calls interleave, the units stay between zero and the      *)
(* greater of five and what there was to begin with, and no call counts    *)
(* more than once.                                                         *)
THEOREM Accounting == UnitsSpec => []UnitsAreAccountedFor
<1>1. UnitsInv => UnitsAreAccountedFor
  BY DEF UnitsInv, UnitsAreAccountedFor
<1> QED
  BY <1>1, UnitsInvariance, PTL

(* Without a race no update is lost.                                       *)
THEOREM OnlyRaces == UnitsSpec => []OnlyRacesLose
<1>1. UnitsInv => OnlyRacesLose
  BY DEF UnitsInv
<1> QED
  BY <1>1, UnitsInvariance, PTL
===============================================================================
