----------------------------- MODULE FormsProofs -----------------------------
(* Proofs about the form scripts, for any forms, values, edits, resets and  *)
(* failures: what the validator remembers, that its counter is the number   *)
(* of outstanding answers, and that what is sent was accepted.              *)
EXTENDS Forms, FiniteSetTheorems, TLAPS

Previous == [old : Value \cup {None}, valid : BOOLEAN]

Memory ==
  [mark : SUBSET Enforced, summary : BOOLEAN,
   previous : [Field -> Previous],
   live : [Field -> Value \cup {None}],
   pending : SUBSET Enforced, pendingRequest : Nat,
   formSubmitted : BOOLEAN, submitted : SUBSET Enforced,
   lastElement : Field \cup {None},
   blur : [Field -> Enforced \cup {None}]]

(* A request under way is for a pending field, and about its previous value *)
(* unless a reset forgot that.                                              *)
LiveOK(s) ==
  \A f \in Field : s.live[f] # None => f \in s.pending /\ s.previous[f].old \in {None, s.live[f]}

CountOK(s) == s.pendingRequest = Cardinality(s.pending)

(* A verdict that is no longer outstanding was granted.                     *)
TrustOK(s, grants) ==
  \A f \in Field :
    s.previous[f].old # None /\ s.previous[f].valid /\ f \notin s.pending
      => <<f, s.previous[f].old>> \in grants

Sound(s, grants) == s \in Memory /\ LiveOK(s) /\ CountOK(s) /\ TrustOK(s, grants)

(* There is no value left to ask about. *)
Settled(s, w) == \A f \in Enforced : Verdict(s, f, w) # "pending"

PageOK ==
  /\ present \subseteq Field /\ DOMAIN options \subseteq present /\ Enforced \subseteq DOMAIN options
  /\ val \in [Field -> Value]
  /\ sent \in [Field -> Value] \cup {None}
  /\ granted \subseteq Enforced \X Value
  /\ awaiting => validator.formSubmitted /\ Settled(validator, val)

IInv == PageOK /\ Sound(validator, granted) /\ SentIsAccepted

-----------------------------------------------------------------------------
(* Sets of fields are finite.                                               *)
LEMMA FieldsAreFinite ==
  ASSUME NEW S, S \subseteq Field
  PROVE  IsFiniteSet(S) /\ Cardinality(S) \in Nat
BY FormsAssumption, FS_Subset, FS_CardinalityType

(* Starting requests counts each field once.                                *)
LEMMA Started ==
  ASSUME NEW P, P \subseteq Field, NEW A, A \subseteq Field
  PROVE  Cardinality(P \cup A) = Cardinality(P) + Cardinality(A \ P)
<1>1. IsFiniteSet(P) /\ IsFiniteSet(A \ P) /\ P \cap (A \ P) = {}
  BY FieldsAreFinite
<1>2. P \cup (A \ P) = P \cup A
  OBVIOUS
<1>3. Cardinality(P \cup (A \ P)) = Cardinality(P) + Cardinality(A \ P) - Cardinality(P \cap (A \ P))
  BY <1>1, FS_Union
<1>4. Cardinality(P \cap (A \ P)) = 0
  BY <1>1, FS_EmptySet
<1>5. Cardinality(P) \in Nat /\ Cardinality(A \ P) \in Nat
  BY FieldsAreFinite
<1>6. PICK m, n : m = Cardinality(P) /\ n = Cardinality(A \ P)
  OBVIOUS
<1>7. Cardinality(P \cup (A \ P)) = m + n
  BY <1>3, <1>4, <1>5, <1>6
<1> QED
  BY <1>2, <1>6, <1>7

(* A verdict looks at the previous value of its field only.                 *)
LEMMA VerdictOfPrevious ==
  ASSUME NEW s, NEW c, NEW f, NEW w, c.previous[f] = s.previous[f]
  PROVE  Verdict(c, f, w) = Verdict(s, f, w)
BY DEF Verdict

(* The value that was asked about last is not asked about again.            *)
LEMMA NotAskedAgain ==
  ASSUME NEW s, NEW f, NEW w
  PROVE  s.previous[f].old = w[f] => Verdict(s, f, w) # "pending"
BY DEF Verdict

(* Judgements partition the enforced fields that are checked.               *)
LEMMA Judgements ==
  ASSUME NEW s, NEW S, NEW w, NEW f \in S \cap Enforced
  PROVE  \/ f \in Judged(s, S, w, "error")
         \/ f \in Judged(s, S, w, "success")
         \/ f \in Judged(s, S, w, "pending")
<1>1. Verdict(s, f, w) \in {"error", "success", "pending"}
  BY DEF Verdict
<1> QED
  BY <1>1 DEF Judged

(* A success was passed by the rules, and a remote rule granted its value,  *)
(* unless the field still is pending.                                       *)
LEMMA Successes ==
  ASSUME NEW s, NEW S, NEW w, NEW f \in Judged(s, S, w, "success"), NEW grants, TrustOK(s, grants),
         f \in Field, w[f] # None, f \notin s.pending
  PROVE  /\ Passes(settings[f], w[f], w)
         /\ "remote" \in DOMAIN settings[f] /\ ~ Blank(w[f]) => <<f, w[f]>> \in grants
<1>1. Verdict(s, f, w) = "success"
  BY DEF Judged
<1>2. Passes(settings[f], w[f], w)
  BY <1>1 DEF Verdict
<1>3. ASSUME "remote" \in DOMAIN settings[f], ~ Blank(w[f])
      PROVE  s.previous[f].old = w[f] /\ s.previous[f].valid
  BY <1>1, <1>2, <1>3 DEF Verdict
<1> QED
  BY <1>2, <1>3 DEF TrustOK

-----------------------------------------------------------------------------
(* Starting requests for some fields keeps the counter at what is pending.  *)
LEMMA StartCounts ==
  ASSUME Enforced \subseteq Field, NEW s \in Memory, CountOK(s), NEW A, A \subseteq Enforced,
         NEW t, t = startRequests(s, A)
  PROVE  /\ t \in Memory /\ CountOK(t) /\ t.pending = s.pending \cup A
         /\ t.mark = s.mark /\ t.summary = s.summary /\ t.previous = s.previous /\ t.live = s.live
         /\ t.formSubmitted = s.formSubmitted /\ t.submitted = s.submitted
         /\ t.lastElement = s.lastElement /\ t.blur = s.blur
<1>1. PICK new : new = Cardinality(A \ s.pending)
  OBVIOUS
<1>2. new \in Nat
  BY <1>1, FieldsAreFinite DEF Memory
<1>3. t = [s EXCEPT !.pending = s.pending \cup A, !.pendingRequest = s.pendingRequest + new]
  BY <1>1 DEF startRequests
<1>4. /\ t.pending = s.pending \cup A /\ t.pendingRequest = s.pendingRequest + new
      /\ t.mark = s.mark /\ t.summary = s.summary /\ t.previous = s.previous /\ t.live = s.live
      /\ t.formSubmitted = s.formSubmitted /\ t.submitted = s.submitted
      /\ t.lastElement = s.lastElement /\ t.blur = s.blur
  BY <1>3 DEF Memory
<1>5. t \in Memory
  <2>1. PICK pending, count : pending = s.pending \cup A /\ count = s.pendingRequest + new
    OBVIOUS
  <2>2. pending \subseteq Enforced /\ count \in Nat
    BY <1>2, <2>1 DEF Memory
  <2>3. t = [s EXCEPT !.pending = pending, !.pendingRequest = count]
    BY <1>3, <2>1
  <2> QED
    BY <2>2, <2>3 DEF Memory
<1>6. s.pending \subseteq Field
  BY DEF Memory
<1>7. Cardinality(t.pending) = Cardinality(s.pending) + new
  BY <1>1, <1>4, <1>6, Started
<1> QED
  BY <1>4, <1>5, <1>7 DEF CountOK

(* Checking fields keeps the memory sound, and remembers what it asked.     *)
LEMMA CheckKeeps ==
  ASSUME Enforced \subseteq Field, NEW s, NEW grants, Sound(s, grants),
         NEW S, NEW w \in [Field -> Value], NEW c, c = check(s, S, w)
  PROVE  /\ Sound(c, grants)
         /\ c.formSubmitted = s.formSubmitted
         /\ c.pending = s.pending \cup Judged(s, S, w, "pending")
         /\ Judged(s, S, w, "error") \subseteq c.mark
         /\ \A f \in Enforced : f \in S \/ Verdict(s, f, w) # "pending" => Verdict(c, f, w) # "pending"
<1>1. PICK error : error = Judged(s, S, w, "error")
  OBVIOUS
<1>2. PICK success : success = Judged(s, S, w, "success")
  OBVIOUS
<1>3. PICK asked : asked = Judged(s, S, w, "pending")
  OBVIOUS
<1>4. error \subseteq Enforced /\ success \subseteq Enforced /\ asked \subseteq Enforced
  BY <1>1, <1>2, <1>3 DEF Judged
<1>5. PICK t : t = startRequests(s, asked)
  OBVIOUS
<1>6. /\ t \in Memory /\ CountOK(t) /\ t.pending = s.pending \cup asked
      /\ t.mark = s.mark /\ t.summary = s.summary /\ t.previous = s.previous /\ t.live = s.live
      /\ t.formSubmitted = s.formSubmitted /\ t.submitted = s.submitted
      /\ t.lastElement = s.lastElement /\ t.blur = s.blur
  BY <1>4, <1>5, StartCounts DEF Sound
<1> DEFINE binders(u) == {f \in S \cap Enforced : Rebinds(f, u, w)}
<1>7. PICK mark : mark = showErrors(t.mark, error, success)
  OBVIOUS
<1>8. PICK previous : previous = [f \in Field |-> IF f \in asked
                                    THEN [old |-> w[f], valid |-> t.previous[f].valid]
                                    ELSE t.previous[f]]
  OBVIOUS
<1>9. PICK live : live = [f \in Field |-> IF f \in asked THEN w[f] ELSE t.live[f]]
  OBVIOUS
<1>10. PICK blur : blur = [u \in Field |-> IF binders(u) # {} THEN CHOOSE f \in binders(u) : TRUE
                                                            ELSE t.blur[u]]
  OBVIOUS
<1>11. PICK submitted : submitted = t.submitted \cup error
  OBVIOUS
<1>12. c = [t EXCEPT !.mark = mark, !.submitted = submitted, !.previous = previous,
                     !.live = live, !.blur = blur]
  BY <1>1, <1>2, <1>3, <1>5, <1>7, <1>8, <1>9, <1>10, <1>11 DEF check
<1>13. mark \subseteq Enforced /\ submitted \subseteq Enforced
  BY <1>4, <1>6, <1>7, <1>11 DEF Memory, showErrors, onError, onSuccess
<1>14. previous \in [Field -> Previous]
  <2>1. \A f \in Field : t.previous[f] \in Previous /\ w[f] \in Value
    BY <1>6 DEF Memory
  <2>2. \A f \in Field : [old |-> w[f], valid |-> t.previous[f].valid] \in Previous
    BY <2>1 DEF Previous
  <2> QED
    BY <1>8, <2>1, <2>2
<1>15. live \in [Field -> Value \cup {None}]
  BY <1>6, <1>9 DEF Memory
<1>16. blur \in [Field -> Enforced \cup {None}]
  <2>1. \A u : binders(u) # {} => (CHOOSE f \in binders(u) : TRUE) \in binders(u)
    OBVIOUS
  <2>2. \A u : binders(u) \subseteq Enforced
    OBVIOUS
  <2> HIDE DEF binders
  <2>3. \A u \in Field : t.blur[u] \in Enforced \cup {None}
    BY <1>6 DEF Memory
  <2> QED
    BY <1>10, <2>1, <2>2, <2>3
<1> HIDE DEF binders
<1>17. /\ c.mark = mark /\ c.submitted = submitted /\ c.previous = previous /\ c.live = live
       /\ c.blur = blur /\ c.summary = t.summary /\ c.pending = t.pending
       /\ c.pendingRequest = t.pendingRequest /\ c.formSubmitted = t.formSubmitted
       /\ c.lastElement = t.lastElement
  BY <1>6, <1>12 DEF Memory
<1>18. c \in Memory
  BY <1>6, <1>12, <1>13, <1>14, <1>15, <1>16 DEF Memory
<1>19. LiveOK(c)
  <2>1. \A f \in Field : f \notin asked => c.live[f] = s.live[f] /\ c.previous[f] = s.previous[f]
    BY <1>6, <1>8, <1>9, <1>17
  <2>2. \A f \in Field : f \in asked => c.live[f] = w[f] /\ c.previous[f].old = w[f]
    BY <1>8, <1>9, <1>17
  <2> QED
    BY <1>6, <1>17, <2>1, <2>2 DEF LiveOK, Sound
<1>20. CountOK(c)
  BY <1>6, <1>17 DEF CountOK
<1>21. TrustOK(c, grants)
  <2>1. \A f \in Field : f \notin asked => c.previous[f] = s.previous[f]
    BY <1>6, <1>8, <1>17
  <2> QED
    BY <1>6, <1>17, <2>1 DEF TrustOK, Sound
<1>22. error \subseteq c.mark
  <2>1. error \cap success = {}
    BY <1>1, <1>2 DEF Judged
  <2> QED
    BY <1>7, <1>17, <2>1 DEF showErrors, onError, onSuccess
<1>23. ASSUME NEW f \in Enforced, f \in S \/ Verdict(s, f, w) # "pending"
       PROVE  Verdict(c, f, w) # "pending"
  <2>1. CASE f \in asked
    <3>1. c.previous[f].old = w[f]
      BY <1>8, <1>17, <2>1
    <3> QED
      BY <3>1, NotAskedAgain
  <2>2. CASE f \notin asked
    <3>1. c.previous[f] = s.previous[f]
      BY <1>6, <1>8, <1>17, <2>2
    <3>2. Verdict(c, f, w) = Verdict(s, f, w)
      BY <3>1, VerdictOfPrevious
    <3>3. Verdict(s, f, w) # "pending"
      BY <1>3, <1>23, <2>2 DEF Judged
    <3> QED
      BY <3>2, <3>3
  <2> QED
    BY <2>1, <2>2
<1> QED
  BY <1>1, <1>3, <1>6, <1>17, <1>18, <1>19, <1>20, <1>21, <1>22, <1>23 DEF Sound

(* So does checking one element.                                            *)
LEMMA ElementKeeps ==
  ASSUME Enforced \subseteq Field, NEW s, NEW grants, Sound(s, grants),
         NEW f \in Field, NEW w \in [Field -> Value], NEW c, c = element(s, f, w)
  PROVE  /\ Sound(c, grants) /\ c.formSubmitted = s.formSubmitted
         /\ Settled(s, w) => Settled(c, w)
<1>1. PICK d : d = check(s, {f}, w)
  OBVIOUS
<1>2. /\ Sound(d, grants) /\ d.formSubmitted = s.formSubmitted
      /\ Settled(s, w) => Settled(d, w)
  BY <1>1, CheckKeeps DEF Settled
<1>3. c = [d EXCEPT !.lastElement = f]
  BY <1>1 DEF element
<1>4. /\ c.previous = d.previous /\ c.live = d.live /\ c.pending = d.pending
      /\ c.pendingRequest = d.pendingRequest /\ c.formSubmitted = d.formSubmitted
  BY <1>2, <1>3 DEF Sound, Memory
<1>5. c \in Memory
  BY <1>2, <1>3 DEF Sound, Memory
<1>6. Settled(d, w) => Settled(c, w)
  BY <1>4, VerdictOfPrevious DEF Settled
<1> QED
  BY <1>2, <1>4, <1>5, <1>6 DEF Sound, LiveOK, CountOK, TrustOK

(* And the summary.                                                         *)
LEMMA ErrorsKeep ==
  ASSUME NEW s, NEW grants, Sound(s, grants), NEW c, c = onErrors(s)
  PROVE  /\ Sound(c, grants) /\ c.formSubmitted = s.formSubmitted
         /\ c.pendingRequest = s.pendingRequest /\ c.pending = s.pending
         /\ c.mark = s.mark /\ c.previous = s.previous
<1>1. /\ c.mark = s.mark /\ c.previous = s.previous /\ c.live = s.live /\ c.pending = s.pending
      /\ c.pendingRequest = s.pendingRequest /\ c.formSubmitted = s.formSubmitted
  BY DEF Sound, Memory, onErrors
<1>2. c \in Memory
  BY DEF Sound, Memory, onErrors
<1> QED
  BY <1>1, <1>2 DEF Sound, LiveOK, CountOK, TrustOK

(* And checking the form.                                                   *)
LEMMA FormKeeps ==
  ASSUME Enforced \subseteq Field, val \in [Field -> Value], NEW s, NEW grants, Sound(s, grants),
         NEW c, c = form(s)
  PROVE  /\ Sound(c, grants) /\ c.formSubmitted = s.formSubmitted
         /\ c.pending = s.pending \cup Judged(s, Enforced, val, "pending")
         /\ ~ formValid(s) => c.mark # {}
         /\ Settled(c, val)
<1>1. PICK d : d = check(s, Enforced, val)
  OBVIOUS
<1>2. /\ Sound(d, grants) /\ d.formSubmitted = s.formSubmitted
      /\ d.pending = s.pending \cup Judged(s, Enforced, val, "pending")
      /\ Judged(s, Enforced, val, "error") \subseteq d.mark
      /\ Settled(d, val)
  BY <1>1, CheckKeeps DEF Settled
<1>3. c = d \/ c = onErrors(d)
  BY <1>1 DEF form
<1>4. /\ Sound(c, grants) /\ c.formSubmitted = d.formSubmitted
      /\ c.pending = d.pending /\ c.mark = d.mark /\ c.previous = d.previous
  BY <1>2, <1>3, ErrorsKeep
<1>5. Settled(c, val)
  BY <1>2, <1>4, VerdictOfPrevious DEF Settled
<1>6. ~ formValid(s) => c.mark # {}
  BY <1>2, <1>4 DEF formValid
<1> QED
  BY <1>2, <1>4, <1>5, <1>6

(* And a submit that is held back or forgotten.                             *)
LEMMA SubmittedKeeps ==
  ASSUME NEW s, NEW grants, Sound(s, grants), NEW b \in BOOLEAN,
         NEW c, c = [s EXCEPT !.formSubmitted = b]
  PROVE  Sound(c, grants) /\ (c.formSubmitted <=> b) /\ c.mark = s.mark /\ c.previous = s.previous
<1>1. /\ c.mark = s.mark /\ c.previous = s.previous /\ c.live = s.live /\ c.pending = s.pending
      /\ c.pendingRequest = s.pendingRequest
  BY DEF Sound, Memory
<1>2. c.formSubmitted = b
  BY DEF Sound, Memory
<1>3. c \in Memory
  BY DEF Sound, Memory
<1> QED
  BY <1>1, <1>2, <1>3 DEF Sound, LiveOK, CountOK, TrustOK

(* A form that is valid and outstanding no answer has been accepted.        *)
LEMMA Ready ==
  ASSUME Enforced \subseteq Field, val \in [Field -> Value], NEW s, NEW grants, Sound(s, grants),
         formValid(s), ~ (form(s).pendingRequest > 0)
  PROVE  \A f \in Enforced :
           /\ Passes(settings[f], val[f], val)
           /\ "remote" \in DOMAIN settings[f] /\ ~ Blank(val[f]) => <<f, val[f]>> \in grants
<1>1. PICK c : c = check(s, Enforced, val)
  OBVIOUS
<1>2. c = form(s)
  BY <1>1 DEF form
<1>3. Sound(c, grants) /\ c.pending = s.pending \cup Judged(s, Enforced, val, "pending")
  BY <1>1, CheckKeeps
<1>4. c.pending = {}
  <2>1. c.pendingRequest = 0
    BY <1>2, <1>3 DEF Sound, Memory
  <2>2. IsFiniteSet(c.pending) /\ Cardinality(c.pending) = 0
    BY <1>3, <2>1, FieldsAreFinite DEF Sound, Memory, CountOK
  <2> QED
    BY <2>2, FS_EmptySet
<1>5. s.pending = {} /\ Judged(s, Enforced, val, "pending") = {}
  BY <1>3, <1>4
<1>6. Judged(s, Enforced, val, "error") = {}
  BY DEF formValid
<1> TAKE f \in Enforced
<1>7. f \in Judged(s, Enforced, val, "success")
  BY <1>5, <1>6, Judgements
<1>8. val[f] # None
  BY FormsAssumption
<1> QED
  BY <1>5, <1>7, <1>8, Successes DEF Sound

(* An answer: no longer outstanding, and granted if it is the one asked for.*)
LEMMA AnsweredKeeps ==
  ASSUME Enforced \subseteq Field, Sound(validator, granted), NEW f \in Field, validator.live[f] # None,
         NEW valid \in BOOLEAN, NEW a, a = Answered(f, valid),
         NEW grants, grants = IF valid THEN granted \cup {<<f, validator.live[f]>>} ELSE granted
  PROVE  /\ Sound(a, grants) /\ a.formSubmitted = validator.formSubmitted
         /\ ~ valid => f \in a.mark
         /\ \A w : Settled(validator, w) => Settled(a, w)
<1>1. PICK before : before = validator.previous[f]
  OBVIOUS
<1>2. PICK now : now = [before EXCEPT !.valid = IF before.old = validator.live[f] THEN valid ELSE before.valid]
  OBVIOUS
<1>3. f \in validator.pending /\ before \in Previous /\ before.old \in {None, validator.live[f]}
  BY <1>1 DEF Sound, LiveOK, Memory
<1>4. now \in Previous /\ now.old = before.old
  <2>1. (IF before.old = validator.live[f] THEN valid ELSE before.valid) \in BOOLEAN
    BY <1>3 DEF Previous
  <2> QED
    BY <1>2, <1>3, <2>1 DEF Previous
<1>5. before.old = validator.live[f] => (now.valid <=> valid)
  BY <1>2, <1>3 DEF Previous
<1>6. PICK mark : mark = IF valid THEN showErrors(validator.mark, {}, {f})
                                  ELSE showErrors(validator.mark, {f}, {})
  OBVIOUS
<1>7. mark \subseteq Enforced
  BY <1>3, <1>6 DEF Sound, Memory, showErrors, onError, onSuccess
<1>8. PICK count : count = IF validator.pendingRequest > 0 THEN validator.pendingRequest - 1 ELSE 0
  OBVIOUS
<1>9. IsFiniteSet(validator.pending) /\ validator.pendingRequest = Cardinality(validator.pending)
  BY FieldsAreFinite DEF Sound, Memory, CountOK
<1>10. count \in Nat /\ count = Cardinality(validator.pending \ {f})
  <2>1. Cardinality(validator.pending \ {f}) = Cardinality(validator.pending) - 1
    BY <1>3, <1>9, FS_RemoveElement
  <2>2. Cardinality(validator.pending \ {f}) \in Nat
    BY FieldsAreFinite DEF Sound, Memory
  <2>3. validator.pendingRequest \in Nat
    BY DEF Sound, Memory
  <2> QED
    BY <1>8, <1>9, <2>1, <2>2, <2>3
<1>11. PICK previous, live : /\ previous = [validator.previous EXCEPT ![f] = now]
                             /\ live = [validator.live EXCEPT ![f] = None]
  OBVIOUS
<1>12. previous \in [Field -> Previous] /\ live \in [Field -> Value \cup {None}]
  BY <1>4, <1>11 DEF Sound, Memory
<1>13. a = [validator EXCEPT !.mark = mark, !.previous = previous, !.live = live,
                             !.pending = validator.pending \ {f}, !.pendingRequest = count]
  BY <1>1, <1>2, <1>6, <1>8, <1>11 DEF Answered
<1>14. /\ a.mark = mark /\ a.previous = previous /\ a.live = live /\ a.pending = validator.pending \ {f}
       /\ a.pendingRequest = count /\ a.formSubmitted = validator.formSubmitted
  BY <1>13 DEF Sound, Memory
<1>15. a \in Memory
  BY <1>7, <1>10, <1>12, <1>13 DEF Sound, Memory
<1>16. \A g \in Field \ {f} : /\ a.previous[g] = validator.previous[g]
                              /\ a.live[g] = validator.live[g]
                              /\ g \in a.pending <=> g \in validator.pending
  BY <1>11, <1>14 DEF Sound, Memory
<1>17. a.previous[f] = now /\ a.live[f] = None
  BY <1>11, <1>14 DEF Sound, Memory
<1>18. LiveOK(a)
  BY <1>16, <1>17 DEF LiveOK, Sound
<1>19. CountOK(a)
  BY <1>10, <1>14 DEF CountOK
<1>20. TrustOK(a, grants)
  <2>1. \A g \in Field \ {f} : a.previous[g].old # None /\ a.previous[g].valid /\ g \notin a.pending
                                 => <<g, a.previous[g].old>> \in granted
    BY <1>16 DEF TrustOK, Sound
  <2>2. now.old # None /\ now.valid => <<f, now.old>> \in grants
    BY <1>3, <1>4, <1>5
  <2>3. granted \subseteq grants
    OBVIOUS
  <2> QED
    BY <1>17, <2>1, <2>2, <2>3 DEF TrustOK
<1>21. ~ valid => f \in a.mark
  BY <1>6, <1>14 DEF showErrors, onError, onSuccess
<1>22. ASSUME NEW w, Settled(validator, w) PROVE Settled(a, w)
  <2>1. ASSUME NEW g \in Field \ {f} PROVE Verdict(a, g, w) = Verdict(validator, g, w)
    <3>1. a.previous[g] = validator.previous[g]
      BY <1>16
    <3> QED
      BY <3>1, VerdictOfPrevious
  <2>2. Verdict(validator, f, w) # "pending"
    BY <1>3, <1>22 DEF Settled, Sound, Memory
  <2>3. Verdict(a, f, w) # "pending"
    <3>1. CASE before.old = w[f]
      BY <1>4, <1>17, <3>1, NotAskedAgain
    <3>2. CASE before.old # w[f]
      BY <1>1, <1>4, <1>17, <2>2, <3>2 DEF Verdict
    <3> QED
      BY <3>1, <3>2
  <2> QED
    BY <1>22, <2>1, <2>3 DEF Settled
<1> QED
  BY <1>14, <1>15, <1>18, <1>19, <1>20, <1>21, <1>22 DEF Sound

-----------------------------------------------------------------------------
(* Before anything happens.                                                 *)
LEMMA InitHolds == FormsInit => IInv
<1> SUFFICES ASSUME FormsInit PROVE IInv
  OBVIOUS
<1>1. Enforced = {} /\ DOMAIN options = {}
  BY DEF FormsInit, Enforced, NoRules
<1>2. Untried \in Previous /\ Untried.old = None
  BY DEF Untried, Previous
<1>3. PICK first : first = [f \in Field |-> Untried]
  OBVIOUS
<1>4. PICK calls : calls = [f \in Field |-> None]
  OBVIOUS
<1>5. validator = [mark |-> {}, summary |-> FALSE, previous |-> first, live |-> calls,
                   pending |-> {}, pendingRequest |-> 0, formSubmitted |-> FALSE,
                   submitted |-> {}, lastElement |-> None, blur |-> calls]
  BY <1>3, <1>4 DEF FormsInit
<1>6. first \in [Field -> Previous] /\ calls \in [Field -> {None}]
  BY <1>2, <1>3, <1>4
<1>7. validator \in Memory
  BY <1>5, <1>6 DEF Memory
<1>8. LiveOK(validator) /\ TrustOK(validator, granted)
  BY <1>2, <1>3, <1>4, <1>5 DEF LiveOK, TrustOK
<1>9. CountOK(validator)
  BY <1>5, FS_EmptySet DEF CountOK
<1>10. PageOK
  BY <1>1, FormsAssumption DEF FormsInit, PageOK
<1>11. SentIsAccepted
  BY DEF FormsInit, SentIsAccepted
<1> QED
  BY <1>7, <1>8, <1>9, <1>10, <1>11 DEF IInv, Sound

(* Parsing and adding fields: before there is a validator it remembers      *)
(* nothing of any field, and afterwards it keeps its rules.                 *)
LEMMA ParsingKeeps ==
  ASSUME IInv, sent = None, present \subseteq present', present' \subseteq Field,
         DOMAIN options \subseteq DOMAIN options', DOMAIN options' \subseteq present',
         settings' \in {settings, attachValidation(options')},
         awaiting' = FALSE, UNCHANGED <<val, validator, sent, granted>>
  PROVE  IInv'
<1>1. Enforced \subseteq Enforced' /\ Enforced' \subseteq DOMAIN options'
  <2>1. CASE settings = None
    BY <2>1 DEF Enforced, attachValidation, IInv, PageOK
  <2>2. CASE settings # None
    BY <2>2 DEF Enforced, attachValidation, IInv, PageOK
  <2> QED
    BY <2>1, <2>2
<1>2. PageOK'
  BY <1>1 DEF IInv, PageOK
<1>3. validator \in Memory'
  BY <1>1 DEF IInv, Sound, Memory
<1>4. Sound(validator, granted)'
  BY <1>3 DEF IInv, Sound, LiveOK, CountOK, TrustOK
<1>5. SentIsAccepted'
  BY DEF SentIsAccepted
<1> QED
  BY <1>2, <1>4, <1>5 DEF IInv

(* Everything else: the fields and their rules stay.                        *)
LEMMA UsingKeeps ==
  ASSUME IInv, UNCHANGED <<present, options, settings>>, val' \in [Field -> Value],
         Sound(validator', granted'), granted' \subseteq Enforced \X Value,
         awaiting' => validator'.formSubmitted /\ Settled(validator', val'),
         \/ sent' = None
         \/ /\ sent' = val'
            /\ \A f \in Enforced :
                 /\ Passes(settings[f], val'[f], val')
                 /\ "remote" \in DOMAIN settings[f] /\ ~ Blank(val'[f]) => <<f, val'[f]>> \in granted'
  PROVE  IInv'
<1>1. Enforced' = Enforced
  BY DEF Enforced
<1>2. Settled(validator', val') => Settled(validator, val)'
  BY <1>1 DEF Settled, Verdict
<1>3. sent' \in [Field -> Value] \cup {None}
  OBVIOUS
<1>4. PageOK'
  BY <1>1, <1>2, <1>3 DEF IInv, PageOK
<1>5. Sound(validator, granted)'
  BY <1>1 DEF Sound, Memory, LiveOK, CountOK, TrustOK
<1>6. SentIsAccepted'
  BY <1>1 DEF SentIsAccepted
<1> QED
  BY <1>4, <1>5, <1>6 DEF IInv

(* The steps of parsing.                                                    *)
LEMMA ParseKeeps ==
  ASSUME IInv, Parse \/ \E f \in Field : AddField(f) \/ \E skipAttach \in BOOLEAN : ParseElement(f, skipAttach)
  PROVE  IInv'
<1>1. present \subseteq Field /\ DOMAIN options \subseteq present
  BY DEF IInv, PageOK
<1>2. ASSUME NEW S, S \subseteq present, sent = None, options' = parseElement(S),
             settings' \in {settings, attachValidation(options')},
             awaiting' = FALSE, UNCHANGED <<present, val, validator, sent, granted>>
      PROVE  IInv'
  <2>1. DOMAIN options' = DOMAIN options \cup S
    BY <1>2 DEF parseElement
  <2> QED
    BY <1>1, <1>2, <2>1, ParsingKeeps
<1>3. CASE Parse
  <2>1. PICK S : parse(S)
    BY <1>3 DEF Parse
  <2>2. sent = None
    BY <1>3 DEF Parse
  <2> QED
    BY <1>2, <2>1, <2>2 DEF parse
<1>4. ASSUME NEW f \in Field, NEW skipAttach \in BOOLEAN, ParseElement(f, skipAttach)
      PROVE  IInv'
  <2>1. {f} \subseteq present /\ settings' \in {settings, attachValidation(options')}
    BY <1>4 DEF ParseElement
  <2> QED
    BY <1>2, <1>4, <2>1 DEF ParseElement
<1>5. ASSUME NEW f \in Field, AddField(f)
      PROVE  IInv'
  BY <1>1, <1>5, ParsingKeeps DEF AddField
<1> QED
  BY <1>3, <1>4, <1>5

-----------------------------------------------------------------------------
(* A change, typed or not.                                                  *)
LEMMA EditKeeps ==
  ASSUME IInv, NEW f \in Field, NEW v \in Value, Edit(f, v)
  PROVE  IInv'
<1>1. Enforced \subseteq Field /\ val \in [Field -> Value] /\ granted \subseteq Enforced \X Value
  BY DEF IInv, PageOK
<1>2. val' \in [Field -> Value]
  BY <1>1 DEF Edit
<1>3. Sound(validator', granted)
  <2>1. Sound(validator, granted)
    BY DEF IInv
  <2>2. validator' = validator \/ validator' = element(validator, f, val')
    BY DEF Edit
  <2>3. PICK w \in [Field -> Value] : w = val'
    BY <1>2
  <2>4. PICK c : c = element(validator, f, w)
    OBVIOUS
  <2>5. Sound(c, granted)
    BY <1>1, <2>1, <2>4, ElementKeeps
  <2> QED
    BY <2>1, <2>2, <2>3, <2>4, <2>5
<1> QED
  BY <1>1, <1>2, <1>3, UsingKeeps DEF Edit

(* A field loses the focus: first the field that repeats it is checked.     *)
LEMMA FocusOutKeeps ==
  ASSUME IInv, NEW f \in Field, FocusOut(f)
  PROVE  IInv'
<1>1. /\ Enforced \subseteq Field /\ val \in [Field -> Value] /\ granted \subseteq Enforced \X Value
      /\ Sound(validator, granted)
      /\ awaiting => validator.formSubmitted /\ Settled(validator, val)
  BY DEF IInv, PageOK
<1>2. PICK bound : bound = validator.blur[f]
  OBVIOUS
<1>3. bound \in Field \cup {None}
  BY <1>1, <1>2 DEF Sound, Memory
<1>4. PICK s : s = IF bound = None THEN validator ELSE element(validator, bound, val)
  OBVIOUS
<1>5. /\ Sound(s, granted) /\ s.formSubmitted = validator.formSubmitted
      /\ Settled(validator, val) => Settled(s, val)
  <2>1. CASE bound = None
    BY <1>1, <1>4, <2>1
  <2>2. CASE bound # None
    BY <1>1, <1>3, <1>4, <2>2, ElementKeeps
  <2> QED
    BY <2>1, <2>2
<1>6. PICK c : c = element(s, f, val)
  OBVIOUS
<1>7. /\ Sound(c, granted) /\ c.formSubmitted = s.formSubmitted
      /\ Settled(s, val) => Settled(c, val)
  BY <1>1, <1>5, <1>6, ElementKeeps
<1>8. /\ validator' = c \/ validator' = s
      /\ sent = None
      /\ awaiting' => awaiting
      /\ UNCHANGED <<present, options, settings, val, sent, granted>>
  BY <1>2, <1>4, <1>6 DEF FocusOut
<1>9. /\ Sound(validator', granted') /\ validator'.formSubmitted = validator.formSubmitted
      /\ Settled(validator, val) => Settled(validator', val')
  <2>1. CASE validator' = c
    BY <1>5, <1>7, <1>8, <2>1
  <2>2. CASE validator' = s
    BY <1>5, <1>8, <2>2
  <2> QED
    BY <1>8, <2>1, <2>2
<1>10. ASSUME awaiting'
       PROVE  validator'.formSubmitted /\ Settled(validator', val')
  <2>1. awaiting
    BY <1>8, <1>10
  <2>2. validator.formSubmitted /\ Settled(validator, val)
    BY <1>1, <2>1
  <2> QED
    BY <1>9, <2>2
<1>11. val' \in [Field -> Value] /\ granted' \subseteq Enforced \X Value /\ sent' = None
  BY <1>1, <1>8
<1>12. UNCHANGED <<present, options, settings>>
  BY <1>8
<1> QED
  BY <1>9, <1>10, <1>11, <1>12, UsingKeeps

(* A click on the submit button.                                            *)
LEMMA SubmitKeeps ==
  ASSUME IInv, Submit
  PROVE  IInv'
<1>1. /\ Enforced \subseteq Field /\ val \in [Field -> Value] /\ granted \subseteq Enforced \X Value
      /\ Sound(validator, granted)
      /\ awaiting => validator.formSubmitted /\ Settled(validator, val)
  BY DEF IInv, PageOK
<1>2. PICK s : s = form(validator)
  OBVIOUS
<1>3. Sound(s, granted) /\ s.formSubmitted = validator.formSubmitted /\ Settled(s, val)
  BY <1>1, <1>2, FormKeeps
<1>4. sent = None /\ UNCHANGED <<present, options, settings, val, granted>>
  BY DEF Submit
<1>5. CASE settings = None
  <2>1. Enforced = {}
    BY <1>5 DEF Enforced
  <2>2. sent' = val /\ UNCHANGED <<validator, awaiting>>
    BY <1>5 DEF Submit
  <2> QED
    BY <1>1, <1>4, <2>1, <2>2, UsingKeeps
<1>6. CASE settings # None /\ ~ formValid(validator)
  <2>1. validator' = s /\ awaiting' = FALSE /\ UNCHANGED sent
    BY <1>2, <1>6 DEF Submit
  <2> QED
    BY <1>1, <1>3, <1>4, <2>1, UsingKeeps
<1>7. CASE settings # None /\ formValid(validator) /\ s.pendingRequest > 0
  <2>1. validator' = [s EXCEPT !.formSubmitted = TRUE] /\ UNCHANGED sent
    BY <1>2, <1>7 DEF Submit
  <2>2. PICK c : c = [s EXCEPT !.formSubmitted = TRUE]
    OBVIOUS
  <2>3. Sound(c, granted) /\ c.formSubmitted /\ c.previous = s.previous
    BY <1>3, <2>2, SubmittedKeeps
  <2>4. Settled(c, val)
    <3>1. ASSUME NEW f \in Enforced PROVE Verdict(c, f, val) = Verdict(s, f, val)
      BY <2>3, VerdictOfPrevious
    <3> QED
      BY <1>3, <3>1 DEF Settled
  <2> QED
    BY <1>1, <1>4, <2>1, <2>2, <2>3, <2>4, UsingKeeps
<1>8. CASE settings # None /\ formValid(validator) /\ ~ (s.pendingRequest > 0)
  <2>1. validator' = s /\ sent' = val /\ awaiting' = FALSE
    BY <1>2, <1>8 DEF Submit
  <2>2. \A f \in Enforced :
          /\ Passes(settings[f], val[f], val)
          /\ "remote" \in DOMAIN settings[f] /\ ~ Blank(val[f]) => <<f, val[f]>> \in granted
    BY <1>1, <1>2, <1>8, Ready
  <2> QED
    BY <1>1, <1>3, <1>4, <2>1, <2>2, UsingKeeps
<1> QED
  BY <1>5, <1>6, <1>7, <1>8

(* A reset forgets the verdicts and keeps the requests.                     *)
LEMMA ResetKeeps ==
  ASSUME IInv, Reset
  PROVE  IInv'
<1>1. /\ Enforced \subseteq Field /\ granted \subseteq Enforced \X Value
      /\ Sound(validator, granted)
  BY DEF IInv, PageOK
<1>2. val' \in [Field -> Value]
  BY FormsAssumption DEF Reset
<1>3. PICK c : c = onReset(validator)
  OBVIOUS
<1>4. PICK first : first = [f \in Field |-> Untried]
  OBVIOUS
<1>5. Untried \in Previous /\ Untried.old = None
  BY DEF Untried, Previous
<1>6. first \in [Field -> Previous]
  BY <1>4, <1>5
<1>7. c = [validator EXCEPT !.submitted = {}, !.lastElement = None, !.previous = first,
                            !.mark = {}, !.summary = FALSE]
  BY <1>3, <1>4 DEF onReset
<1>8. /\ c.previous = first /\ c.live = validator.live /\ c.pending = validator.pending
      /\ c.pendingRequest = validator.pendingRequest
  BY <1>1, <1>7 DEF Sound, Memory
<1>9. c \in Memory
  BY <1>1, <1>6, <1>7 DEF Sound, Memory
<1>10. Sound(c, granted)
  BY <1>1, <1>4, <1>5, <1>8, <1>9 DEF Sound, LiveOK, CountOK, TrustOK
<1>11. Sound(validator', granted)
  BY <1>1, <1>3, <1>10 DEF Reset
<1> QED
  BY <1>1, <1>2, <1>11, UsingKeeps DEF Reset

(* A call fails: the field stays pending.                                   *)
LEMMA RemoteFailsKeeps ==
  ASSUME IInv, NEW f \in Field, RemoteFails(f)
  PROVE  IInv'
<1>1. /\ val \in [Field -> Value] /\ granted \subseteq Enforced \X Value
      /\ Sound(validator, granted)
  BY DEF IInv, PageOK
<1>2. PICK live : live = [validator.live EXCEPT ![f] = None]
  OBVIOUS
<1>3. live \in [Field -> Value \cup {None}] /\ \A g \in Field : live[g] # None => live[g] = validator.live[g]
  BY <1>1, <1>2 DEF Sound, Memory
<1>4. PICK c : c = [validator EXCEPT !.live = live]
  OBVIOUS
<1>5. /\ c.live = live /\ c.previous = validator.previous /\ c.pending = validator.pending
      /\ c.pendingRequest = validator.pendingRequest
  BY <1>1, <1>4 DEF Sound, Memory
<1>6. c \in Memory
  BY <1>1, <1>3, <1>4 DEF Sound, Memory
<1>7. Sound(c, granted)
  BY <1>1, <1>3, <1>5, <1>6 DEF Sound, LiveOK, CountOK, TrustOK
<1>8. validator' = c
  BY <1>2, <1>4 DEF RemoteFails
<1> QED
  BY <1>1, <1>7, <1>8, UsingKeeps DEF RemoteFails

(* An answer: a submit that was held back may now send the form.            *)
LEMMA RemoteAnswerKeeps ==
  ASSUME IInv, NEW f \in Field, NEW valid \in BOOLEAN, RemoteAnswer(f, valid)
  PROVE  IInv'
<1>1. /\ Enforced \subseteq Field /\ val \in [Field -> Value] /\ granted \subseteq Enforced \X Value
      /\ Sound(validator, granted)
      /\ awaiting => validator.formSubmitted /\ Settled(validator, val)
  BY DEF IInv, PageOK
<1>2. PICK a : a = Answered(f, valid)
  OBVIOUS
<1>3. /\ sent = None
      /\ validator.live[f] # None
      /\ granted' = IF valid THEN granted \cup {<<f, validator.live[f]>>} ELSE granted
      /\ stopRequest(a, valid)
      /\ UNCHANGED <<present, options, settings, val>>
  BY <1>2 DEF RemoteAnswer
<1>4. awaiting' => awaiting /\ sent' = None /\ validator'.mark = {}
  BY DEF RemoteAnswer
<1>5. /\ Sound(a, granted') /\ a.formSubmitted = validator.formSubmitted
      /\ ~ valid => f \in a.mark
      /\ Settled(validator, val) => Settled(a, val)
  BY <1>1, <1>2, <1>3, AnsweredKeeps
<1>6. granted' \subseteq Enforced \X Value
  <2>1. f \in Enforced /\ validator.live[f] \in Value
    BY <1>1, <1>3 DEF Sound, LiveOK, Memory
  <2> QED
    BY <1>1, <1>3, <2>1
<1>7. ASSUME awaiting'
      PROVE  a.formSubmitted /\ Settled(a, val) /\ sent' = None /\ validator'.mark = {}
  BY <1>1, <1>4, <1>5, <1>7
<1>8. val' \in [Field -> Value] /\ UNCHANGED <<present, options, settings>>
  BY <1>1, <1>3
<1>9. CASE a.pendingRequest > 0 \/ ~ a.formSubmitted
  <2>1. validator' = a /\ sent' = None
    BY <1>3, <1>9 DEF stopRequest
  <2>2. ASSUME awaiting' PROVE validator'.formSubmitted /\ Settled(validator', val')
    BY <1>3, <1>7, <2>1, <2>2
  <2>3. Sound(validator', granted')
    BY <1>5, <2>1
  <2> QED
    BY <1>6, <1>8, <2>1, <2>2, <2>3, UsingKeeps
<1>10. CASE ~ (a.pendingRequest > 0 \/ ~ a.formSubmitted) /\ ~ valid
  <2>1. validator' = [onErrors(a) EXCEPT !.formSubmitted = FALSE] /\ sent' = None
    BY <1>3, <1>10 DEF stopRequest
  <2>2. PICK b : b = onErrors(a)
    OBVIOUS
  <2>3. Sound(b, granted') /\ b.mark = a.mark
    BY <1>5, <2>2, ErrorsKeep
  <2>4. PICK c : c = [b EXCEPT !.formSubmitted = FALSE]
    OBVIOUS
  <2>5. Sound(c, granted') /\ c.mark = b.mark
    BY <2>3, <2>4, SubmittedKeeps
  <2>6. validator' = c
    BY <2>1, <2>2, <2>4
  <2>7. ~ awaiting'
    BY <1>5, <1>7, <1>10, <2>3, <2>5, <2>6
  <2>8. Sound(validator', granted')
    BY <2>5, <2>6
  <2> QED
    BY <1>6, <1>8, <2>1, <2>7, <2>8, UsingKeeps
<1>11. CASE ~ (a.pendingRequest > 0 \/ ~ a.formSubmitted) /\ valid /\ ~ formValid(a)
  <2>1. validator' = form(a) /\ sent' = None
    BY <1>3, <1>11 DEF stopRequest
  <2>2. PICK b : b = form(a)
    OBVIOUS
  <2>3. Sound(b, granted') /\ b.formSubmitted = a.formSubmitted /\ Settled(b, val)
    BY <1>1, <1>5, <2>2, FormKeeps
  <2>4. validator'.formSubmitted /\ Settled(validator', val')
    BY <1>3, <1>11, <2>1, <2>2, <2>3
  <2>5. Sound(validator', granted')
    BY <2>1, <2>2, <2>3
  <2> QED
    BY <1>6, <1>8, <2>1, <2>4, <2>5, UsingKeeps
<1>12. CASE ~ (a.pendingRequest > 0 \/ ~ a.formSubmitted) /\ valid /\ formValid(a)
  <2>1. PICK b : b = form(a)
    OBVIOUS
  <2>2. PICK t : t = form(b)
    OBVIOUS
  <2>3. PICK c : c = [t EXCEPT !.formSubmitted = FALSE]
    OBVIOUS
  <2>4. /\ validator' = c
        /\ sent' = IF formValid(b) /\ t.pendingRequest = 0 THEN val ELSE None
    BY <1>3, <1>12, <2>1, <2>2, <2>3 DEF stopRequest
  <2>5. /\ Sound(b, granted') /\ Settled(b, val)
        /\ b.pending = a.pending \cup Judged(a, Enforced, val, "pending")
    BY <1>1, <1>5, <2>1, FormKeeps
  <2>6. /\ Sound(t, granted')
        /\ t.pending = b.pending \cup Judged(b, Enforced, val, "pending")
        /\ ~ formValid(b) => t.mark # {}
    BY <1>1, <2>2, <2>5, FormKeeps
  <2>7. Sound(c, granted') /\ c.mark = t.mark
    BY <2>3, <2>6, SubmittedKeeps
  <2>8. ~ awaiting'
    <3> SUFFICES ASSUME awaiting' PROVE FALSE
      OBVIOUS
    <3>1. Settled(a, val) /\ sent' = None /\ validator'.mark = {}
      BY <1>7
    <3>2. formValid(b)
      BY <2>4, <2>6, <2>7, <3>1
    <3>3. Judged(a, Enforced, val, "pending") = {} /\ Judged(b, Enforced, val, "pending") = {}
      BY <2>5, <3>1 DEF Settled, Judged
    <3>4. a.pending = {}
      <4>1. a.pendingRequest = 0
        BY <1>5, <1>12 DEF Sound, Memory
      <4>2. IsFiniteSet(a.pending) /\ Cardinality(a.pending) = 0
        BY <1>1, <1>5, <4>1, FieldsAreFinite DEF Sound, Memory, CountOK
      <4> QED
        BY <4>2, FS_EmptySet
    <3>5. t.pending = {}
      BY <2>5, <2>6, <3>3, <3>4
    <3>6. t.pendingRequest = 0
      BY <2>6, <3>5, FS_EmptySet DEF Sound, CountOK
    <3>7. sent' = val /\ val # None
      BY <1>1, <2>4, <3>2, <3>6, FormsAssumption
    <3> QED
      BY <3>1, <3>7
  <2>9. \/ sent' = None
        \/ /\ sent' = val'
           /\ \A g \in Enforced :
                /\ Passes(settings[g], val'[g], val')
                /\ "remote" \in DOMAIN settings[g] /\ ~ Blank(val'[g]) => <<g, val'[g]>> \in granted'
    <3>1. CASE formValid(b) /\ t.pendingRequest = 0
      <4>1. ~ (form(b).pendingRequest > 0)
        BY <2>2, <3>1
      <4>2. PICK grants : grants = granted'
        OBVIOUS
      <4>3. \A g \in Enforced :
              /\ Passes(settings[g], val[g], val)
              /\ "remote" \in DOMAIN settings[g] /\ ~ Blank(val[g]) => <<g, val[g]>> \in grants
        BY <1>1, <2>5, <3>1, <4>1, <4>2, Ready
      <4>4. sent' = val /\ val' = val
        BY <1>3, <2>4, <3>1
      <4> QED
        BY <4>2, <4>3, <4>4
    <3>2. CASE ~ (formValid(b) /\ t.pendingRequest = 0)
      BY <2>4, <3>2
    <3> QED
      BY <3>1, <3>2
  <2>10. Sound(validator', granted')
    BY <2>4, <2>7
  <2> QED
    BY <1>6, <1>8, <2>8, <2>9, <2>10, UsingKeeps
<1> QED
  BY <1>9, <1>10, <1>11, <1>12

-----------------------------------------------------------------------------
(* Every step keeps the invariant.                                          *)
LEMMA NextKeeps == IInv /\ [Next]_vars => IInv'
<1> SUFFICES ASSUME IInv, [Next]_vars PROVE IInv'
  OBVIOUS
<1>1. CASE Parse \/ Submit \/ Reset
  BY <1>1, ParseKeeps, SubmitKeeps, ResetKeeps
<1>2. ASSUME NEW f \in Field, AddField(f) \/ \E skipAttach \in BOOLEAN : ParseElement(f, skipAttach)
      PROVE  IInv'
  BY <1>2, ParseKeeps
<1>3. ASSUME NEW f \in Field, NEW v \in Value, Edit(f, v) PROVE IInv'
  BY <1>3, EditKeeps
<1>4. ASSUME NEW f \in Field, FocusOut(f) \/ RemoteFails(f) PROVE IInv'
  BY <1>4, FocusOutKeeps, RemoteFailsKeeps
<1>5. ASSUME NEW f \in Field, NEW valid \in BOOLEAN, RemoteAnswer(f, valid) PROVE IInv'
  BY <1>5, RemoteAnswerKeeps
<1>6. CASE UNCHANGED vars
  BY <1>6 DEF vars, IInv, PageOK, Sound, Memory, LiveOK, CountOK, TrustOK, SentIsAccepted,
              Enforced, Settled, Verdict
<1> QED
  BY <1>1, <1>2, <1>3, <1>4, <1>5, <1>6 DEF Next

(* The invariant holds throughout.                                          *)
LEMMA Invariance == Spec => []IInv
BY InitHolds, NextKeeps, PTL DEF Spec

(* What the validator remembers is of fields it enforces, and every request *)
(* under way is for a pending field, over resets, failures and aborts.      *)
THEOREM TypeCorrect == Spec => []TypeOK
<1>1. IInv => TypeOK
  <2> SUFFICES ASSUME IInv PROVE TypeOK
    OBVIOUS
  <2>1. PageOK /\ validator \in Memory /\ LiveOK(validator)
    BY DEF IInv, Sound
  <2>2. validator.formSubmitted \in BOOLEAN
    BY <2>1 DEF Memory
  <2> QED
    BY <2>1, <2>2 DEF TypeOK, PageOK, Memory, LiveOK, Previous
<1> QED
  BY <1>1, Invariance, PTL

(* The synchronization that the validator expects to fail sometimes does    *)
(* not: the counter is the number of outstanding answers.                   *)
THEOREM Counted == Spec => []CountIsPending
<1>1. IInv => CountIsPending
  BY DEF IInv, Sound, CountOK, CountIsPending
<1> QED
  BY <1>1, Invariance, PTL

(* For every form and any order of edits, answers and submits, what is sent *)
(* passes its rules and was accepted by the service, value for value.       *)
THEOREM Accepted == Spec => []SentIsAccepted
<1>1. IInv => SentIsAccepted
  BY DEF IInv
<1> QED
  BY <1>1, Invariance, PTL

-----------------------------------------------------------------------------
(* What the rules of a plain declaration mean.                              *)

(* The eleven adapters.                                                     *)
LEMMA Adapters ==
  ASSUME NEW d, NEW S, NEW rules, rules = written(d, S)
  PROVE  /\ DOMAIN rules = 1..11
         /\ rules[1] = addSingleVal(d.attrs, "regex")
         /\ rules[2] = Bools(d.attrs)
         /\ rules[3] = addMinMax(d.attrs, "length", "minlength", "maxlength", "rangelength")
         /\ rules[4] = addMinMax(d.attrs, "range", "min", "max", "range")
         /\ rules[5] = addMinMax(d.attrs, "minlength", "minlength", "undefined", "undefined")
         /\ rules[6] = addMinMax(d.attrs, "maxlength", "minlength", "maxlength", "undefined")
         /\ rules[7] = adaptEqualTo(d.attrs, S)
         /\ rules[8] = adaptRequired(d.attrs, d.input)
         /\ rules[9] = adaptRemote(d.attrs)
         /\ rules[10] = adaptPassword(d.attrs)
         /\ rules[11] = setValidationValues("__dummy__", TRUE)
BY DEF written

(* In a plain declaration no adapter writes a rule of another, whichever    *)
(* fields are on the page.                                                  *)
LEMMA PlainAdapters ==
  ASSUME NEW d, Plain(d), NEW S, S \subseteq Field,
         NEW rules, rules = written(d, S),
         NEW i \in 1..11, NEW j \in 1..11, i # j
  PROVE  DOMAIN rules[i] \cap DOMAIN rules[j] = {}
<1>1. PICK all : all = written(d, Field)
  OBVIOUS
<1>2. /\ DOMAIN all = 1..11
      /\ \A k \in 1..11 : k # 7 => rules[k] = all[k]
      /\ rules[7] = adaptEqualTo(d.attrs, S) /\ all[7] = adaptEqualTo(d.attrs, Field)
  BY <1>1 DEF written
<1>3. DOMAIN all[i] \cap DOMAIN all[j] = {}
  BY <1>1, <1>2 DEF Plain
<1>4. DOMAIN rules[7] \subseteq DOMAIN all[7]
  <2>1. DOMAIN adaptEqualTo(d.attrs, S) \subseteq DOMAIN adaptEqualTo(d.attrs, Field)
    BY DEF adaptEqualTo, setValidationValues, NoRules
  <2> QED
    BY <1>2, <2>1
<1>5. ASSUME NEW k \in 1..11 PROVE DOMAIN rules[k] \subseteq DOMAIN all[k]
  BY <1>2, <1>4
<1> QED
  BY <1>3, <1>5

(* So its rules are all there as they were written.                         *)
LEMMA WrittenIsKept ==
  ASSUME NEW d, Plain(d), NEW S, S \subseteq Field,
         NEW i \in 1..11, NEW rule \in DOMAIN written(d, S)[i]
  PROVE  /\ rule \in DOMAIN adapters(d, S)
         /\ adapters(d, S)[rule] = written(d, S)[i][rule]
<1>1. PICK rules : rules = written(d, S)
  OBVIOUS
<1>2. DOMAIN rules = 1..11
  BY <1>1, Adapters
<1> DEFINE Last(k) == /\ rule \in DOMAIN rules[k]
                      /\ \A j \in DOMAIN rules : rule \in DOMAIN rules[j] => j <= k
<1>3. \A k \in DOMAIN rules : rule \in DOMAIN rules[k] => k = i
  BY <1>1, <1>2, PlainAdapters
<1>4. (CHOOSE k \in DOMAIN rules : Last(k)) = i
  <2>1. Last(i)
    BY <1>1, <1>2, <1>3
  <2>2. \A k \in DOMAIN rules : Last(k) => k = i
    BY <1>3
  <2> QED
    BY <1>2, <2>1, <2>2
<1>5. adapters(d, S) =
        [r \in UNION {DOMAIN rules[k] : k \in DOMAIN rules} |->
           rules[CHOOSE k \in DOMAIN rules :
                   /\ r \in DOMAIN rules[k]
                   /\ \A j \in DOMAIN rules : r \in DOMAIN rules[j] => j <= k][r]]
  BY <1>1 DEF adapters
<1>6. rule \in UNION {DOMAIN rules[k] : k \in DOMAIN rules}
  BY <1>1, <1>2
<1> QED
  BY <1>1, <1>4, <1>5, <1>6

(* A value that passes is one that every written rule but remote accepts.   *)
LEMMA WrittenHolds ==
  ASSUME NEW d, Plain(d), NEW S, S \subseteq Field, NEW v, NEW w,
         Passes(adapters(d, S), v, w),
         NEW i \in 1..11, NEW rules, rules = written(d, S)[i], NEW rule \in DOMAIN rules,
         rule # "remote"
  PROVE  Holds(rule, rules[rule], v, w)
BY WrittenIsKept DEF Passes

(* The methods, one by one.                                                 *)
LEMMA Methods ==
  ASSUME NEW p, NEW v, NEW w
  PROVE  /\ Holds("required", p, v, w) <=> ~ Blank(v)
         /\ Holds("minlength", p, v, w) <=> Blank(v) \/ v.length >= p
         /\ Holds("maxlength", p, v, w) <=> Blank(v) \/ v.length <= p
         /\ Holds("nonalphamin", p, v, w) <=> nonalphamin(v, p)
         /\ Holds("equalTo", p, v, w) <=> v = w[p]
         /\ \A rule \in BoolAdapter \cup {"regex"} : Holds(rule, p, v, w) <=> regex(v)
<1>1. Holds("required", p, v, w) <=> ~ Blank(v)
  BY DEF Holds, BoolAdapter, Blank
<1>2. Holds("minlength", p, v, w) <=> Blank(v) \/ v.length >= p
  BY DEF Holds, BoolAdapter, Blank
<1>3. Holds("maxlength", p, v, w) <=> Blank(v) \/ v.length <= p
  BY DEF Holds, BoolAdapter, Blank
<1>4. Holds("nonalphamin", p, v, w) <=> nonalphamin(v, p)
  BY DEF Holds, BoolAdapter, Blank, regex, nonalphamin
<1>5. Holds("equalTo", p, v, w) <=> v = w[p]
  BY DEF Holds, BoolAdapter, Blank, regex, nonalphamin
<1>6. ASSUME NEW rule \in BoolAdapter \cup {"regex"} PROVE Holds(rule, p, v, w) <=> regex(v)
  BY DEF Holds, BoolAdapter, Blank, regex, nonalphamin
<1> QED
  BY <1>1, <1>2, <1>3, <1>4, <1>5, <1>6

LEMMA RangeMethods ==
  ASSUME NEW m, NEW n, NEW v, NEW w
  PROVE  /\ Holds("rangelength", <<m, n>>, v, w) <=> Blank(v) \/ (v.length >= m /\ v.length <= n)
         /\ Holds("range", <<m, n>>, v, w) <=> Blank(v) \/ (v.amount >= m /\ v.amount <= n)
<1>1. Holds("rangelength", <<m, n>>, v, w) <=> Blank(v) \/ (v.length >= m /\ v.length <= n)
  BY DEF Holds, BoolAdapter, Blank
<1>2. Holds("range", <<m, n>>, v, w) <=> Blank(v) \/ (v.amount >= m /\ v.amount <= n)
  BY DEF Holds, BoolAdapter, Blank
<1> QED
  BY <1>1, <1>2

(* One rule, of one value.                                                  *)
LEMMA OneRule ==
  ASSUME NEW rule, NEW value
  PROVE  /\ rule \in DOMAIN setValidationValues(rule, value)
         /\ setValidationValues(rule, value)[rule] = value
BY DEF setValidationValues

(* Two bounds become one rule of both, one bound becomes the rule of it.    *)
LEMMA MinMaxRules ==
  ASSUME NEW attrs, NEW name \in DOMAIN attrs,
         NEW minRule, NEW maxRule, NEW minMaxRule,
         NEW rules, rules = addMinMax(attrs, name, minRule, maxRule, minMaxRule)
  PROVE  /\ attrs[name].min # None /\ attrs[name].max # None
              => minMaxRule \in DOMAIN rules
                 /\ rules[minMaxRule] = <<attrs[name].min, attrs[name].max>>
         /\ attrs[name].min # None /\ attrs[name].max = None
              => minRule \in DOMAIN rules /\ rules[minRule] = attrs[name].min
         /\ attrs[name].min = None /\ attrs[name].max # None
              => maxRule \in DOMAIN rules /\ rules[maxRule] = attrs[name].max
<1>1. CASE attrs[name].min # None /\ attrs[name].max # None
  <2>1. rules = setValidationValues(minMaxRule, <<attrs[name].min, attrs[name].max>>)
    BY <1>1 DEF addMinMax
  <2> QED
    BY <1>1, <2>1, OneRule
<1>2. CASE attrs[name].min # None /\ attrs[name].max = None
  <2>1. rules = setValidationValues(minRule, attrs[name].min)
    BY <1>2 DEF addMinMax
  <2> QED
    BY <1>2, <2>1, OneRule
<1>3. CASE attrs[name].min = None /\ attrs[name].max # None
  <2>1. rules = setValidationValues(maxRule, attrs[name].max)
    BY <1>3 DEF addMinMax
  <2> QED
    BY <1>3, <2>1, OneRule
<1> QED
  BY <1>1, <1>2, <1>3

(* A bound on the length, from whichever of the three adapters of lengths.  *)
LEMMA LengthsMean ==
  ASSUME NEW attrs, NEW name \in DOMAIN attrs, NEW v, ~ Blank(v), NEW w,
         NEW minMaxRule, NEW rules, rules = addMinMax(attrs, name, "minlength", "maxlength", minMaxRule),
         attrs[name].min # None /\ attrs[name].max # None => minMaxRule = "rangelength",
         \A rule \in DOMAIN rules : Holds(rule, rules[rule], v, w)
  PROVE  Within(v.length, attrs[name])
<1>1. CASE attrs[name].min # None /\ attrs[name].max # None
  <2>1. Holds("rangelength", <<attrs[name].min, attrs[name].max>>, v, w)
    <3>1. "rangelength" \in DOMAIN rules
          /\ rules["rangelength"] = <<attrs[name].min, attrs[name].max>>
      BY <1>1, MinMaxRules
    <3> QED
      BY <3>1
  <2> QED
    BY <1>1, <2>1, RangeMethods DEF Within
<1>2. CASE attrs[name].min # None /\ attrs[name].max = None
  <2>1. Holds("minlength", attrs[name].min, v, w)
    <3>1. "minlength" \in DOMAIN rules /\ rules["minlength"] = attrs[name].min
      BY <1>2, MinMaxRules
    <3> QED
      BY <3>1
  <2> QED
    BY <1>2, <2>1, Methods DEF Within
<1>3. CASE attrs[name].min = None /\ attrs[name].max # None
  <2>1. Holds("maxlength", attrs[name].max, v, w)
    <3>1. "maxlength" \in DOMAIN rules /\ rules["maxlength"] = attrs[name].max
      BY <1>3, MinMaxRules
    <3> QED
      BY <3>1
  <2> QED
    BY <1>3, <2>1, Methods DEF Within
<1>4. CASE attrs[name].min = None /\ attrs[name].max = None
  BY <1>4 DEF Within
<1> QED
  BY <1>1, <1>2, <1>3, <1>4

(* A value that passes the rules of a plain declaration is what its         *)
(* attributes mean, if the field it must equal was on the page.             *)
LEMMA PlainRulesMean ==
  ASSUME NEW d, Plain(d), NEW S, S \subseteq Field, NEW v, NEW w,
         Passes(adapters(d, S), v, w),
         "equalto" \in DOMAIN d.attrs => d.attrs["equalto"] \in S
  PROVE  Means(d, v, w)
<1>1. PICK rules : rules = written(d, S)
  OBVIOUS
<1>2. ASSUME NEW i \in 1..11, NEW rule \in DOMAIN rules[i], rule # "remote"
      PROVE  Holds(rule, rules[i][rule], v, w)
  BY <1>1, <1>2, WrittenHolds
<1>3. /\ rules[1] = addSingleVal(d.attrs, "regex")
      /\ rules[2] = Bools(d.attrs)
      /\ rules[3] = addMinMax(d.attrs, "length", "minlength", "maxlength", "rangelength")
      /\ rules[4] = addMinMax(d.attrs, "range", "min", "max", "range")
      /\ rules[5] = addMinMax(d.attrs, "minlength", "minlength", "undefined", "undefined")
      /\ rules[6] = addMinMax(d.attrs, "maxlength", "minlength", "maxlength", "undefined")
      /\ rules[7] = adaptEqualTo(d.attrs, S)
      /\ rules[8] = adaptRequired(d.attrs, d.input)
      /\ rules[10] = adaptPassword(d.attrs)
  BY <1>1 DEF written
<1>4. ASSUME "required" \in DOMAIN d.attrs, d.input # "checkbox" PROVE ~ Blank(v)
  <2>1. rules[8] = setValidationValues("required", TRUE)
    BY <1>3, <1>4 DEF adaptRequired
  <2>2. Holds("required", rules[8]["required"], v, w)
    <3>1. "required" \in DOMAIN rules[8]
      BY <2>1, OneRule
    <3> QED
      BY <1>2, <3>1
  <2> QED
    BY <2>2, Methods
<1>5. ASSUME "equalto" \in DOMAIN d.attrs PROVE v = w[d.attrs["equalto"]]
  <2>1. rules[7] = setValidationValues("equalTo", d.attrs["equalto"])
    BY <1>3, <1>5 DEF adaptEqualTo
  <2>2. Holds("equalTo", d.attrs["equalto"], v, w)
    BY <1>2, <2>1, OneRule
  <2> QED
    BY <2>2, Methods
<1>6. ASSUME ~ Blank(v), NEW name \in {"length", "minlength", "maxlength"} \cap DOMAIN d.attrs
      PROVE  Within(v.length, d.attrs[name])
  <2>1. CASE name = "length"
    <3>1. \A rule \in DOMAIN rules[3] : Holds(rule, rules[3][rule], v, w)
      <4>1. DOMAIN rules[3] \subseteq {"minlength", "maxlength", "rangelength"}
        BY <1>3 DEF addMinMax, setValidationValues, NoRules
      <4> QED
        BY <1>2, <4>1
    <3> QED
      BY <1>3, <1>6, <2>1, <3>1, LengthsMean
  <2>2. CASE name = "minlength"
    <3>1. d.attrs["minlength"].max = None
      BY <1>6, <2>2 DEF Plain
    <3>2. CASE d.attrs["minlength"].min = None
      BY <2>2, <3>1, <3>2 DEF Within
    <3>3. CASE d.attrs["minlength"].min # None
      <4>1. rules[5] = setValidationValues("minlength", d.attrs["minlength"].min)
        BY <1>3, <1>6, <2>2, <3>1, <3>3 DEF addMinMax
      <4>2. Holds("minlength", d.attrs["minlength"].min, v, w)
        BY <1>2, <4>1, OneRule
      <4> QED
        BY <1>6, <2>2, <3>1, <4>2, Methods DEF Within
    <3> QED
      BY <3>2, <3>3
  <2>3. CASE name = "maxlength"
    <3>1. d.attrs["maxlength"].min = None
      BY <1>6, <2>3 DEF Plain
    <3>2. \A rule \in DOMAIN rules[6] : Holds(rule, rules[6][rule], v, w)
      <4>1. DOMAIN rules[6] \subseteq {"minlength", "maxlength", "undefined"}
        BY <1>3 DEF addMinMax, setValidationValues, NoRules
      <4> QED
        BY <1>2, <4>1
    <3> QED
      BY <1>3, <1>6, <2>3, <3>1, <3>2, LengthsMean
  <2> QED
    BY <1>6, <2>1, <2>2, <2>3
<1>7. ASSUME ~ Blank(v), "range" \in DOMAIN d.attrs
      PROVE  Within(v.amount, d.attrs["range"])
  <2>1. d.attrs["range"].min # None /\ d.attrs["range"].max # None
    BY <1>7 DEF Plain
  <2>2. rules[4] = setValidationValues("range", <<d.attrs["range"].min, d.attrs["range"].max>>)
    BY <1>3, <1>7, <2>1 DEF addMinMax
  <2>3. Holds("range", <<d.attrs["range"].min, d.attrs["range"].max>>, v, w)
    BY <1>2, <2>2, OneRule
  <2> QED
    BY <1>7, <2>3, RangeMethods DEF Within
<1>8. ASSUME ~ Blank(v), NEW name \in (BoolAdapter \cup {"regex"}) \cap DOMAIN d.attrs
      PROVE  v.fits
  <2>1. CASE name = "regex"
    <3>1. rules[1] = setValidationValues("regex", d.attrs["regex"])
      BY <1>3, <1>8, <2>1 DEF addSingleVal
    <3>2. Holds("regex", d.attrs["regex"], v, w)
      BY <1>2, <3>1, OneRule
    <3>3. regex(v)
      <4>1. "regex" \in BoolAdapter \cup {"regex"}
        OBVIOUS
      <4> QED
        BY <3>2, <4>1, Methods, Zenon
    <3> QED
      BY <1>8, <3>3 DEF regex
  <2>2. CASE name \in BoolAdapter
    <3>1. name \in DOMAIN rules[2] /\ name # "remote"
      BY <1>3, <1>8, <2>2 DEF Bools, BoolAdapter
    <3>2. Holds(name, rules[2][name], v, w)
      BY <1>2, <3>1
    <3> QED
      BY <1>8, <2>2, <3>2, Methods DEF regex
  <2> QED
    BY <1>8, <2>1, <2>2
<1>9. ASSUME "password" \in DOMAIN d.attrs, ~ Blank(v), NEW p, p = d.attrs["password"]
      PROVE  /\ p.min # None => v.length >= p.min
             /\ p.nonalphamin # None => v.odd >= p.nonalphamin
             /\ p.regex # None => v.fits
  <2>1. PICK given : given = [minlength |-> p.min, nonalphamin |-> p.nonalphamin, regex |-> p.regex]
    OBVIOUS
  <2>2. rules[10] = [rule \in {r \in DOMAIN given : given[r] # None} |-> given[rule]]
    BY <1>3, <1>9, <2>1 DEF adaptPassword
  <2>3. /\ DOMAIN given = {"minlength", "nonalphamin", "regex"} /\ given["minlength"] = p.min
        /\ given["nonalphamin"] = p.nonalphamin /\ given["regex"] = p.regex
    BY <2>1
  <2>4. ASSUME NEW rule \in {"minlength", "nonalphamin", "regex"}, given[rule] # None
        PROVE  Holds(rule, given[rule], v, w)
    <3>1. rule \in DOMAIN rules[10] /\ rules[10][rule] = given[rule]
      BY <2>2, <2>3, <2>4
    <3>2. rule # "remote"
      OBVIOUS
    <3> QED
      BY <1>2, <3>1, <3>2
  <2>5. ASSUME p.min # None PROVE v.length >= p.min
    <3>1. Holds("minlength", p.min, v, w)
      BY <2>3, <2>4, <2>5
    <3> QED
      BY <1>9, <3>1, Methods
  <2>6. ASSUME p.nonalphamin # None PROVE v.odd >= p.nonalphamin
    <3>1. Holds("nonalphamin", p.nonalphamin, v, w)
      BY <2>3, <2>4, <2>6
    <3> QED
      BY <3>1, Methods DEF nonalphamin
  <2>7. ASSUME p.regex # None PROVE v.fits
    <3>1. Holds("regex", p.regex, v, w)
      BY <2>3, <2>4, <2>7
    <3> QED
      BY <1>9, <3>1, Methods DEF regex
  <2> QED
    BY <2>5, <2>6, <2>7
<1> QED
  BY <1>4, <1>5, <1>6, <1>7, <1>8, <1>9 DEF Means

(* Rules that were parsed with the fields of some page on it, at least      *)
(* those that the page was loaded with.                                     *)
Parsed(f, rules) ==
  \E S \in SUBSET Field : Early \subseteq S /\ rules = adapters(declared[f], S)

RulesOK ==
  /\ declared \in Declarations
  /\ Early \subseteq present
  /\ \A f \in DOMAIN options : Parsed(f, options[f])
  /\ \A f \in Enforced : Parsed(f, settings[f])

LEMMA RulesInit == FormsInit => RulesOK
BY DEF FormsInit, RulesOK, NoRules, Enforced

(* Parsing takes the fields that are on the page.                           *)
LEMMA ParseElementParses ==
  ASSUME RulesOK, present \subseteq Field, NEW S, UNCHANGED declared, options' = parseElement(S)
  PROVE  \A f \in DOMAIN options' : Parsed(f, options[f])'
<1> SUFFICES ASSUME NEW f \in DOMAIN options'
             PROVE  \E P \in SUBSET Field : Early \subseteq P /\ options'[f] = adapters(declared'[f], P)
  BY DEF Parsed
<1>1. f \in DOMAIN options \cup S
      /\ options'[f] = IF f \in S THEN adapters(declared[f], present) ELSE options[f]
  BY DEF parseElement
<1>2. CASE f \in S
  BY <1>1, <1>2 DEF RulesOK
<1>3. CASE f \notin S
  BY <1>1, <1>3 DEF RulesOK, Parsed
<1> QED
  BY <1>2, <1>3

LEMMA RulesStep == IInv /\ RulesOK /\ [Next]_vars => RulesOK'
<1> SUFFICES ASSUME IInv, RulesOK, [Next]_vars PROVE RulesOK'
  OBVIOUS
<1>1. present \subseteq Field /\ Enforced \subseteq DOMAIN options
  BY DEF IInv, PageOK
<1>2. CASE UNCHANGED <<declared, present, options, settings>>
  BY <1>2 DEF RulesOK, Parsed, Enforced
<1>3. ASSUME NEW S, UNCHANGED <<declared, present>>, options' = parseElement(S),
             settings' = settings \/ settings' = attachValidation(options')
      PROVE  RulesOK'
  <2>1. \A f \in DOMAIN options' : Parsed(f, options[f])'
    BY <1>1, <1>3, ParseElementParses
  <2>2. settings' = settings \/ settings' = options'
    BY <1>3 DEF attachValidation
  <2>3. CASE settings' = settings
    BY <1>3, <2>1, <2>3 DEF RulesOK, Parsed, Enforced
  <2>4. CASE settings' = options'
    BY <1>3, <2>1, <2>4 DEF RulesOK, Parsed, Enforced
  <2> QED
    BY <2>2, <2>3, <2>4
<1>4. CASE Parse
  <2>1. PICK S : parse(S)
    BY <1>4 DEF Parse
  <2> QED
    BY <1>3, <2>1 DEF parse
<1>5. ASSUME NEW f \in Field, NEW skipAttach \in BOOLEAN, ParseElement(f, skipAttach)
      PROVE  RulesOK'
  BY <1>3, <1>5 DEF ParseElement
<1>6. ASSUME NEW f \in Field, AddField(f) PROVE RulesOK'
  BY <1>6 DEF AddField, RulesOK, Parsed, Enforced
<1>7. CASE Submit
  BY <1>2, <1>7 DEF Submit
<1>8. CASE Reset
  BY <1>2, <1>8 DEF Reset
<1>9. ASSUME NEW f \in Field, NEW v \in Value, Edit(f, v) PROVE RulesOK'
  BY <1>2, <1>9 DEF Edit
<1>10. ASSUME NEW f \in Field, FocusOut(f) PROVE RulesOK'
  BY <1>2, <1>10 DEF FocusOut
<1>11. ASSUME NEW f \in Field, NEW valid \in BOOLEAN, RemoteAnswer(f, valid) PROVE RulesOK'
  BY <1>2, <1>11 DEF RemoteAnswer
<1>12. ASSUME NEW f \in Field, RemoteFails(f) PROVE RulesOK'
  BY <1>2, <1>12 DEF RemoteFails
<1>13. CASE UNCHANGED vars
  BY <1>2, <1>13 DEF vars
<1> QED
  BY <1>4, <1>5, <1>6, <1>7, <1>8, <1>9, <1>10, <1>11, <1>12, <1>13 DEF Next

(* For every form, whatever adapters its fields name: a value that passes   *)
(* the enforced rules of a plain declaration is what the attributes mean.   *)
THEOREM RulesMean == Spec => []RulesMeanAttributes
<1>1. RulesOK => RulesMeanAttributes
  <2> SUFFICES ASSUME RulesOK, NEW f \in Enforced, NEW v \in Value, NEW w,
                      declared[f] \in PlainDeclarations,
                      "equalto" \in DOMAIN declared[f].attrs
                        => declared[f].attrs["equalto"] \in Early,
                      Passes(settings[f], v, w)
               PROVE  Means(declared[f], v, w)
    BY DEF RulesMeanAttributes
  <2>1. PICK S \in SUBSET Field : Early \subseteq S /\ settings[f] = adapters(declared[f], S)
    BY DEF RulesOK, Parsed
  <2>2. Plain(declared[f])
    BY DEF PlainDeclarations
  <2>3. Passes(adapters(declared[f], S), v, w)
    BY <2>1
  <2> QED
    BY <2>1, <2>2, <2>3, PlainRulesMean
<1> QED
  BY <1>1, RulesInit, RulesStep, Invariance, PTL DEF Spec

-----------------------------------------------------------------------------
(* Confirmations.  Whom a field rechecks repeats it, only remote fields     *)
(* have answers outstanding, and a confirmation that was left, like the     *)
(* field it repeats, agrees with it or shows an error.                      *)
PendingIsRemote(s) == \A f \in s.pending : "remote" \in DOMAIN settings[f]

BoundRepeats(s) ==
  \A t \in Field : s.blur[t] # None =>
    "equalTo" \in DOMAIN settings[s.blur[t]] /\ settings[s.blur[t]]["equalTo"] = t

Confirmed(s, w, t) == w[s.blur[t]] = w[t] \/ s.blur[t] \in s.mark

(* Leaving a field checks it unless it is blank and never failed.           *)
Due(s, w, f) == ~ Blank(w[f]) \/ f \in s.submitted

Rechecked(s, w, unleft) ==
  \A t \in Field :
    ( /\ s.blur[t] # None /\ "remote" \notin DOMAIN settings[s.blur[t]]
      /\ {s.blur[t], t} \cap unleft = {} /\ Due(s, w, s.blur[t]) )
      => Confirmed(s, w, t)

Tidy(s, w, unleft) == PendingIsRemote(s) /\ BoundRepeats(s) /\ Rechecked(s, w, unleft)

(* What checking the fields of S does to the page and to the bindings.      *)
LEMMA CheckFields ==
  ASSUME Enforced \subseteq Field, NEW s, NEW grants, Sound(s, grants),
         NEW S, NEW w, NEW c, c = check(s, S, w)
  PROVE  /\ c.mark = showErrors(s.mark, Judged(s, S, w, "error"), Judged(s, S, w, "success"))
         /\ c.pending = s.pending \cup Judged(s, S, w, "pending")
         /\ c.submitted = s.submitted \cup Judged(s, S, w, "error")
         /\ \A t \in Field :
              c.blur[t] = IF {f \in S \cap Enforced : Rebinds(f, t, w)} # {}
                            THEN CHOOSE f \in {f \in S \cap Enforced : Rebinds(f, t, w)} : TRUE
                            ELSE s.blur[t]
<1>1. PICK asked : asked = Judged(s, S, w, "pending")
  OBVIOUS
<1>2. asked \subseteq Enforced
  BY <1>1 DEF Judged
<1>3. PICK t : t = startRequests(s, asked)
  OBVIOUS
<1>4. /\ t \in Memory /\ t.pending = s.pending \cup asked /\ t.mark = s.mark /\ t.blur = s.blur
      /\ t.submitted = s.submitted
  BY <1>2, <1>3, StartCounts DEF Sound
<1> DEFINE binders(u) == {f \in S \cap Enforced : Rebinds(f, u, w)}
<1>5. PICK mark : mark = showErrors(t.mark, Judged(s, S, w, "error"), Judged(s, S, w, "success"))
  OBVIOUS
<1>6. PICK blur : blur = [u \in Field |-> IF binders(u) # {} THEN CHOOSE f \in binders(u) : TRUE
                                                           ELSE t.blur[u]]
  OBVIOUS
<1>7. PICK previous : previous = [f \in Field |-> IF f \in asked
                                   THEN [old |-> w[f], valid |-> t.previous[f].valid]
                                   ELSE t.previous[f]]
  OBVIOUS
<1>8. PICK live : live = [f \in Field |-> IF f \in asked THEN w[f] ELSE t.live[f]]
  OBVIOUS
<1>9. PICK submitted : submitted = t.submitted \cup Judged(s, S, w, "error")
  OBVIOUS
<1>10. c = [t EXCEPT !.mark = mark, !.submitted = submitted, !.previous = previous,
                     !.live = live, !.blur = blur]
  BY <1>1, <1>3, <1>5, <1>6, <1>7, <1>8, <1>9 DEF check
<1> HIDE DEF binders
<1>11. c.mark = mark /\ c.pending = t.pending /\ c.submitted = submitted /\ c.blur = blur
  BY <1>4, <1>10 DEF Memory
<1>12. ASSUME NEW u \in Field
      PROVE  c.blur[u] = IF binders(u) # {} THEN CHOOSE f \in binders(u) : TRUE ELSE s.blur[u]
  BY <1>4, <1>6, <1>11
<1> QED
  BY <1>1, <1>4, <1>5, <1>9, <1>11, <1>12 DEF binders

(* So every field that is bound anew was checked, and a field that was      *)
(* checked equals the one it repeats or shows an error.                     *)
Rechecks(s, S, w, c) ==
  /\ \A f \in Field \ S :
       (f \in c.mark <=> f \in s.mark) /\ (f \in c.submitted <=> f \in s.submitted)
  /\ \A t \in Field : c.blur[t] = s.blur[t] \/ c.blur[t] \in S
  /\ \A t \in Field :
       ( /\ c.blur[t] \in S /\ c.blur[t] # None
         /\ "remote" \notin DOMAIN settings[c.blur[t]] )
         => Confirmed(c, w, t)

LEMMA CheckRechecks ==
  ASSUME Enforced \subseteq Field, NEW s, NEW grants, Sound(s, grants),
         PendingIsRemote(s), BoundRepeats(s),
         NEW S, NEW w, NEW c, c = check(s, S, w)
  PROVE  PendingIsRemote(c) /\ BoundRepeats(c) /\ Rechecks(s, S, w, c)
<1>1. PICK error : error = Judged(s, S, w, "error")
  OBVIOUS
<1>2. PICK success : success = Judged(s, S, w, "success")
  OBVIOUS
<1>3. PICK asked : asked = Judged(s, S, w, "pending")
  OBVIOUS
<1> DEFINE binders(u) == {f \in S \cap Enforced : Rebinds(f, u, w)}
<1>4. /\ c.mark = showErrors(s.mark, error, success)
      /\ c.pending = s.pending \cup asked /\ c.submitted = s.submitted \cup error
      /\ \A t \in Field : c.blur[t] = IF binders(t) # {} THEN CHOOSE f \in binders(t) : TRUE
                                                         ELSE s.blur[t]
  BY <1>1, <1>2, <1>3, CheckFields
<1>5. \A t \in Field : c.blur[t] = s.blur[t] \/ c.blur[t] \in binders(t)
  BY <1>4
<1>6. c.mark = (s.mark \cup error \cup success) \ success /\ error \cap success = {}
  BY <1>1, <1>2, <1>4 DEF showErrors, onError, onSuccess, Judged
<1>7. error \subseteq S /\ success \subseteq S
  BY <1>1, <1>2 DEF Judged
<1>8. PendingIsRemote(c)
  <2>1. \A f \in asked : "remote" \in DOMAIN settings[f]
    BY <1>3 DEF Judged, Verdict
  <2> QED
    BY <1>4, <2>1 DEF PendingIsRemote
<1>9. BoundRepeats(c)
  <2> SUFFICES ASSUME NEW t \in Field, c.blur[t] # None
               PROVE  /\ "equalTo" \in DOMAIN settings[c.blur[t]]
                      /\ settings[c.blur[t]]["equalTo"] = t
    BY DEF BoundRepeats
  <2>1. CASE c.blur[t] = s.blur[t]
    BY <2>1 DEF BoundRepeats
  <2>2. CASE c.blur[t] \in binders(t)
    BY <2>2 DEF Rebinds
  <2> QED
    BY <1>5, <2>1, <2>2
<1>10. \A f \in Field \ S :
         (f \in c.mark <=> f \in s.mark) /\ (f \in c.submitted <=> f \in s.submitted)
  BY <1>4, <1>6, <1>7
<1>11. ASSUME NEW t \in Field, c.blur[t] \in S, c.blur[t] # None,
              "remote" \notin DOMAIN settings[c.blur[t]]
       PROVE  Confirmed(c, w, t)
  <2>1. PICK f : f = c.blur[t]
    OBVIOUS
  <2>2. "equalTo" \in DOMAIN settings[f] /\ settings[f]["equalTo"] = t
    BY <1>9, <1>11, <2>1 DEF BoundRepeats
  <2>3. f \in Enforced
    <3>1. CASE f = s.blur[t]
      BY <1>11, <2>1, <3>1 DEF Sound, Memory
    <3>2. CASE f \in binders(t)
      BY <3>2
    <3> QED
      BY <1>5, <2>1, <3>1, <3>2
  <2>4. CASE Verdict(s, f, w) = "error"
    <3>1. f \in error
      BY <1>1, <1>11, <2>1, <2>3, <2>4 DEF Judged
    <3> QED
      BY <1>6, <2>1, <3>1 DEF Confirmed
  <2>5. CASE Passes(settings[f], w[f], w)
    <3>1. Holds("equalTo", t, w[f], w)
      BY <2>2, <2>5 DEF Passes
    <3> QED
      BY <2>1, <3>1, Methods DEF Confirmed
  <2>6. ~ Passes(settings[f], w[f], w) => Verdict(s, f, w) = "error"
    BY DEF Verdict
  <2> QED
    BY <2>4, <2>5, <2>6
<1> QED
  BY <1>5, <1>8, <1>9, <1>10, <1>11 DEF Rechecks

-----------------------------------------------------------------------------
(* Checking one element, and the form, do no more to them.                  *)
LEMMA ElementRechecks ==
  ASSUME Enforced \subseteq Field, NEW s, NEW grants, Sound(s, grants),
         PendingIsRemote(s), BoundRepeats(s),
         NEW f \in Field, NEW w \in [Field -> Value], NEW c, c = element(s, f, w)
  PROVE  PendingIsRemote(c) /\ BoundRepeats(c) /\ Rechecks(s, {f}, w, c)
<1>1. PICK d : d = check(s, {f}, w)
  OBVIOUS
<1>2. d \in Memory
  BY <1>1, CheckKeeps DEF Sound
<1>3. PendingIsRemote(d) /\ BoundRepeats(d) /\ Rechecks(s, {f}, w, d)
  BY <1>1, CheckRechecks
<1>4. c = [d EXCEPT !.lastElement = f]
  BY <1>1 DEF element
<1>5. c.mark = d.mark /\ c.pending = d.pending /\ c.submitted = d.submitted /\ c.blur = d.blur
  BY <1>2, <1>4 DEF Memory
<1> QED
  BY <1>3, <1>5 DEF PendingIsRemote, BoundRepeats, Rechecks, Confirmed

LEMMA FormRechecks ==
  ASSUME Enforced \subseteq Field, val \in [Field -> Value], NEW s, NEW grants, Sound(s, grants),
         PendingIsRemote(s), BoundRepeats(s), NEW c, c = form(s)
  PROVE  PendingIsRemote(c) /\ BoundRepeats(c) /\ Rechecks(s, Enforced, val, c)
<1>1. PICK d : d = check(s, Enforced, val)
  OBVIOUS
<1>2. Sound(d, grants)
  BY <1>1, CheckKeeps
<1>3. PendingIsRemote(d) /\ BoundRepeats(d) /\ Rechecks(s, Enforced, val, d)
  BY <1>1, CheckRechecks
<1>4. c = d \/ c = onErrors(d)
  BY <1>1 DEF form
<1>5. c.mark = d.mark /\ c.pending = d.pending /\ c.submitted = d.submitted /\ c.blur = d.blur
  BY <1>2, <1>4 DEF Sound, Memory, onErrors
<1> QED
  BY <1>3, <1>5 DEF PendingIsRemote, BoundRepeats, Rechecks, Confirmed

(* A field that is not checked stays as it was, so a confirmation that is   *)
(* not checked, and was in order, is in order.                              *)
LEMMA StillConfirmed ==
  ASSUME Enforced \subseteq Field, NEW s, s \in Memory, NEW c, NEW S, NEW w, Rechecks(s, S, w, c),
         NEW t \in Field, c.blur[t] # None, "remote" \notin DOMAIN settings[c.blur[t]],
         Due(c, w, c.blur[t]),
         ( /\ c.blur[t] = s.blur[t] /\ s.blur[t] \notin S
           /\ Due(s, w, s.blur[t]) ) => Confirmed(s, w, t)
  PROVE  Confirmed(c, w, t)
<1>1. CASE c.blur[t] \in S
  BY <1>1 DEF Rechecks
<1>2. CASE c.blur[t] \notin S
  <2>1. c.blur[t] = s.blur[t] /\ s.blur[t] \in Field
    BY <1>2 DEF Rechecks, Memory
  <2>2. /\ s.blur[t] \in c.mark <=> s.blur[t] \in s.mark
        /\ s.blur[t] \in c.submitted <=> s.blur[t] \in s.submitted
    BY <1>2, <2>1 DEF Rechecks
  <2>3. Confirmed(s, w, t)
    BY <1>2, <2>1, <2>2 DEF Due
  <2> QED
    BY <1>2, <2>1, <2>2, <2>3 DEF Confirmed
<1> QED
  BY <1>1, <1>2

(* When all enforced fields were checked, all confirmations are in order.   *)
LEMMA FormTidies ==
  ASSUME Enforced \subseteq Field, val \in [Field -> Value], NEW s, NEW grants, Sound(s, grants),
         PendingIsRemote(s), BoundRepeats(s), NEW c, c = form(s), NEW unleft
  PROVE  Tidy(c, val, unleft)
<1>1. PendingIsRemote(c) /\ BoundRepeats(c) /\ Rechecks(s, Enforced, val, c)
  BY FormRechecks
<1>2. c \in Memory
  BY FormKeeps DEF Sound
<1>3. \A t \in Field : c.blur[t] \in Enforced \cup {None}
  BY <1>2 DEF Memory
<1> QED
  BY <1>1, <1>3 DEF Tidy, Rechecked, Rechecks

(* The steps of use keep the rules.                                         *)
TidyInv == Tidy(validator, val, unblurred)

LEMMA UsingTidies ==
  ASSUME UNCHANGED settings, Tidy(validator', val', unblurred')
  PROVE  TidyInv'
BY DEF TidyInv, Tidy, PendingIsRemote, BoundRepeats, Rechecked, Due, Confirmed

(* What touches neither marks, bindings nor the fields pending or failed is *)
(* tidy.                                                                    *)
LEMMA SameTidies ==
  ASSUME NEW s, NEW c, NEW w, NEW unleft, Tidy(s, w, unleft),
         c.mark = s.mark, c.pending = s.pending, c.submitted = s.submitted, c.blur = s.blur
  PROVE  Tidy(c, w, unleft)
BY DEF Tidy, PendingIsRemote, BoundRepeats, Rechecked, Due, Confirmed

(* Before there is a validator no field is bound and none is pending.       *)
LEMMA TidyInit == FormsInit => TidyInv
<1> SUFFICES ASSUME FormsInit PROVE TidyInv
  OBVIOUS
<1>1. validator.pending = {} /\ \A t \in Field : validator.blur[t] = None
  BY DEF FormsInit
<1> QED
  BY <1>1 DEF TidyInv, Tidy, PendingIsRemote, BoundRepeats, Rechecked

LEMMA ParseTidies ==
  ASSUME IInv, TidyInv,
         Parse \/ \E f \in Field : AddField(f) \/ \E skipAttach \in BOOLEAN : ParseElement(f, skipAttach)
  PROVE  TidyInv'
<1>1. UNCHANGED <<val, validator, unblurred>>
  BY DEF Parse, parse, AddField, ParseElement
<1>2. CASE settings = None
  <2>1. validator.pending = {} /\ \A t \in Field : validator.blur[t] = None
    BY <1>2 DEF IInv, Sound, Memory, Enforced
  <2> QED
    BY <1>1, <2>1 DEF TidyInv, Tidy, PendingIsRemote, BoundRepeats, Rechecked
<1>3. CASE settings # None
  <2>1. settings' = settings
    BY <1>3 DEF Parse, parse, AddField, ParseElement, attachValidation
  <2> QED
    BY <1>1, <2>1, UsingTidies DEF TidyInv
<1> QED
  BY <1>2, <1>3

(* A change takes the field, and those bound to it, out of consideration.   *)
LEMMA EditTidies ==
  ASSUME IInv, TidyInv, NEW f \in Field, NEW v \in Value, Edit(f, v)
  PROVE  TidyInv'
<1>1. /\ Enforced \subseteq Field /\ val \in [Field -> Value] /\ Sound(validator, granted)
      /\ validator \in Memory
  BY DEF IInv, PageOK, Sound
<1>2. PICK w \in [Field -> Value] : w = [val EXCEPT ![f] = v]
  BY <1>1
<1>3. PICK c : c = element(validator, f, w)
  OBVIOUS
<1>4. /\ validator' = validator \/ validator' = c
      /\ val' = w /\ unblurred' = unblurred \cup {f} /\ settings' = settings
  BY <1>2, <1>3 DEF Edit
<1>5. PendingIsRemote(validator) /\ BoundRepeats(validator) /\ Rechecked(validator, val, unblurred)
  BY DEF TidyInv, Tidy
<1>6. ASSUME NEW t \in Field, validator.blur[t] # None, "remote" \notin DOMAIN settings[validator.blur[t]],
             {validator.blur[t], t} \cap (unblurred \cup {f}) = {}, Due(validator, w, validator.blur[t])
      PROVE  Confirmed(validator, w, t)
  <2>1. validator.blur[t] \in Field \ {f} /\ t # f
    BY <1>1, <1>6 DEF Memory
  <2>2. w[validator.blur[t]] = val[validator.blur[t]] /\ w[t] = val[t]
    BY <1>1, <1>2, <2>1
  <2>3. Confirmed(validator, val, t)
    BY <1>5, <1>6, <2>2 DEF Rechecked, Due
  <2> QED
    BY <2>2, <2>3 DEF Confirmed
<1>7. Tidy(validator, w, unblurred \cup {f})
  BY <1>5, <1>6 DEF Tidy, Rechecked
<1>8. Tidy(c, w, unblurred \cup {f})
  <2>1. PendingIsRemote(c) /\ BoundRepeats(c) /\ Rechecks(validator, {f}, w, c)
    BY <1>1, <1>2, <1>3, <1>5, ElementRechecks
  <2>2. ASSUME NEW t \in Field, c.blur[t] # None, "remote" \notin DOMAIN settings[c.blur[t]],
               {c.blur[t], t} \cap (unblurred \cup {f}) = {}, Due(c, w, c.blur[t])
        PROVE  Confirmed(c, w, t)
    <3>1. c.blur[t] = validator.blur[t] /\ Due(validator, w, validator.blur[t])
            => Confirmed(validator, w, t)
      BY <1>6, <2>2
    <3> QED
      BY <1>1, <2>1, <2>2, <3>1, StillConfirmed
  <2> QED
    BY <2>1, <2>2 DEF Tidy, Rechecked
<1>9. Tidy(validator', val', unblurred')
  BY <1>4, <1>7, <1>8
<1> QED
  BY <1>4, <1>9, UsingTidies

(* Leaving a field has the one that repeats it checked, then itself.        *)
LEMMA FocusOutTidies ==
  ASSUME IInv, TidyInv, NEW f \in Field, FocusOut(f)
  PROVE  TidyInv'
<1>1. /\ Enforced \subseteq Field /\ val \in [Field -> Value] /\ Sound(validator, granted)
      /\ validator \in Memory
  BY DEF IInv, PageOK, Sound
<1>2. PICK bound : bound = validator.blur[f]
  OBVIOUS
<1>3. bound \in Field \cup {None}
  BY <1>1, <1>2 DEF Memory
<1>4. PICK s : s = IF bound = None THEN validator ELSE element(validator, bound, val)
  OBVIOUS
<1>5. PICK c : c = element(s, f, val)
  OBVIOUS
<1>6. /\ validator' = IF settings # None /\ (f \in validator.submitted \/ ~ Blank(val[f])) THEN c ELSE s
      /\ val' = val /\ unblurred' = unblurred \ {f} /\ settings' = settings
  BY <1>2, <1>4, <1>5 DEF FocusOut
<1>7. PendingIsRemote(validator) /\ BoundRepeats(validator) /\ Rechecked(validator, val, unblurred)
  BY DEF TidyInv, Tidy
<1>8. /\ Sound(s, granted) /\ PendingIsRemote(s) /\ BoundRepeats(s)
      /\ \A t \in Field :
           ( /\ s.blur[t] # None /\ "remote" \notin DOMAIN settings[s.blur[t]]
             /\ {s.blur[t], t} \cap (unblurred \ {f}) = {} /\ Due(s, val, s.blur[t]) )
             => \/ s.blur[t] = f /\ (f \in s.submitted => f \in validator.submitted)
                \/ Confirmed(s, val, t)
  <2>1. CASE bound = None
    <3>1. s = validator
      BY <2>1, <1>4
    <3>2. ASSUME NEW t \in Field, s.blur[t] # None, "remote" \notin DOMAIN settings[s.blur[t]],
                 {s.blur[t], t} \cap (unblurred \ {f}) = {}, Due(s, val, s.blur[t]), s.blur[t] # f
          PROVE  Confirmed(s, val, t)
      <4>1. t # f
        BY <1>2, <2>1, <3>1, <3>2
      <4>2. {s.blur[t], t} \cap unblurred = {}
        BY <3>2, <4>1
      <4> QED
        BY <1>7, <3>1, <3>2, <4>2 DEF Rechecked
    <3> QED
      BY <1>1, <1>7, <3>1, <3>2
  <2>2. CASE bound # None
    <3>1. s = element(validator, bound, val) /\ bound \in Field
      BY <1>3, <1>4, <2>2
    <3>2. Sound(s, granted)
      BY <1>1, <3>1, ElementKeeps
    <3>3. PendingIsRemote(s) /\ BoundRepeats(s) /\ Rechecks(validator, {bound}, val, s)
      BY <1>1, <1>7, <3>1, ElementRechecks
    <3>4. ASSUME NEW t \in Field, s.blur[t] # None, "remote" \notin DOMAIN settings[s.blur[t]],
                 {s.blur[t], t} \cap (unblurred \ {f}) = {}, Due(s, val, s.blur[t]), s.blur[t] # f
          PROVE  Confirmed(s, val, t)
      <4>1. ASSUME s.blur[t] = validator.blur[t], validator.blur[t] # bound,
                   Due(validator, val, validator.blur[t])
            PROVE  Confirmed(validator, val, t)
        <5>1. t # f
          BY <1>2, <4>1
        <5>2. {validator.blur[t], t} \cap unblurred = {}
          BY <3>4, <4>1, <5>1
        <5> QED
          BY <1>7, <3>4, <4>1, <5>2 DEF Rechecked
      <4>2. ( /\ s.blur[t] = validator.blur[t] /\ validator.blur[t] \notin {bound}
              /\ Due(validator, val, validator.blur[t]) ) => Confirmed(validator, val, t)
        BY <4>1
      <4> QED
        BY <1>1, <3>3, <3>4, <4>2, StillConfirmed
    <3>5. ASSUME NEW t \in Field, s.blur[t] # None, "remote" \notin DOMAIN settings[s.blur[t]],
                 s.blur[t] = f
          PROVE  (f \in s.submitted => f \in validator.submitted) \/ Confirmed(s, val, t)
      BY <3>1, <3>3, <3>5 DEF Rechecks
    <3> QED
      BY <3>2, <3>3, <3>4, <3>5
  <2> QED
    BY <2>1, <2>2
<1>9. CASE settings # None /\ (f \in validator.submitted \/ ~ Blank(val[f]))
  <2>1. PendingIsRemote(c) /\ BoundRepeats(c) /\ Rechecks(s, {f}, val, c)
    BY <1>1, <1>5, <1>8, ElementRechecks
  <2>2. s \in Memory
    BY <1>8 DEF Sound
  <2>3. ASSUME NEW t \in Field, c.blur[t] # None, "remote" \notin DOMAIN settings[c.blur[t]],
               {c.blur[t], t} \cap (unblurred \ {f}) = {}, Due(c, val, c.blur[t])
        PROVE  Confirmed(c, val, t)
    <3>1. ( /\ c.blur[t] = s.blur[t] /\ s.blur[t] \notin {f}
            /\ Due(s, val, s.blur[t]) ) => Confirmed(s, val, t)
      BY <1>8, <2>3
    <3> QED
      BY <1>1, <2>1, <2>2, <2>3, <3>1, StillConfirmed
  <2>4. Tidy(c, val, unblurred \ {f})
    BY <2>1, <2>3 DEF Tidy, Rechecked
  <2>5. Tidy(validator', val', unblurred')
    BY <1>6, <1>9, <2>4
  <2> QED
    BY <1>6, <2>5, UsingTidies
<1>10. CASE ~ (settings # None /\ (f \in validator.submitted \/ ~ Blank(val[f])))
  <2>1. ASSUME NEW t \in Field, s.blur[t] # None, s.blur[t] = f
        PROVE  Blank(val[f]) /\ f \notin validator.submitted
    <3>1. Enforced # {}
      BY <1>8, <2>1 DEF Sound, Memory
    <3> QED
      BY <1>10, <3>1 DEF Enforced
  <2>2. Tidy(s, val, unblurred \ {f})
    BY <1>8, <2>1 DEF Tidy, Rechecked, Due
  <2>3. Tidy(validator', val', unblurred')
    BY <1>6, <1>10, <2>2
  <2> QED
    BY <1>6, <2>3, UsingTidies
<1> QED
  BY <1>9, <1>10

(* A click checks every field.                                              *)
LEMMA SubmitTidies ==
  ASSUME IInv, TidyInv, Submit
  PROVE  TidyInv'
<1>1. /\ Enforced \subseteq Field /\ val \in [Field -> Value] /\ Sound(validator, granted)
      /\ PendingIsRemote(validator) /\ BoundRepeats(validator)
      /\ settings' = settings /\ val' = val /\ unblurred' = unblurred
  BY DEF IInv, PageOK, TidyInv, Tidy, Submit
<1>2. PICK s : s = form(validator)
  OBVIOUS
<1>3. Sound(s, granted) /\ Tidy(s, val, unblurred)
  BY <1>1, <1>2, FormKeeps, FormTidies
<1>4. validator' = validator \/ validator' = s \/ validator' = [s EXCEPT !.formSubmitted = TRUE]
  BY <1>2 DEF Submit
<1>5. PICK c : c = [s EXCEPT !.formSubmitted = TRUE]
  OBVIOUS
<1>6. c.mark = s.mark /\ c.pending = s.pending /\ c.submitted = s.submitted /\ c.blur = s.blur
  BY <1>3, <1>5 DEF Sound, Memory
<1>7. Tidy(c, val, unblurred)
  BY <1>3, <1>6, SameTidies
<1>8. Tidy(validator', val', unblurred')
  BY <1>1, <1>3, <1>4, <1>5, <1>7 DEF TidyInv
<1> QED
  BY <1>1, <1>8, UsingTidies

(* A reset takes every message away, and the values and failures that need  *)
(* one.                                                                     *)
LEMMA ResetTidies ==
  ASSUME IInv, TidyInv, Reset
  PROVE  TidyInv'
<1>1. Sound(validator, granted) /\ PendingIsRemote(validator) /\ BoundRepeats(validator)
  BY DEF IInv, TidyInv, Tidy
<1>2. \A f \in Field : Blank(val'[f])
  BY FormsAssumption DEF Reset
<1>3. PICK c : c = onReset(validator)
  OBVIOUS
<1>4. c.pending = validator.pending /\ c.blur = validator.blur /\ c.submitted = {}
  BY <1>1, <1>3 DEF onReset, Sound, Memory
<1>5. validator' = validator \/ validator' = c
  BY <1>3 DEF Reset
<1>6. validator'.pending = validator.pending /\ validator'.blur = validator.blur /\ settings' = settings
  BY <1>4, <1>5 DEF Reset
<1>7. \A t \in Field : validator'.blur[t] # None => validator'.blur[t] \in Field
  BY <1>1, <1>6 DEF Sound, Memory, IInv, PageOK
<1>8. validator'.submitted = {}
  BY <1>1, <1>3, <1>4 DEF Reset, Sound, Memory, Enforced
<1>9. Tidy(validator', val', unblurred')
  BY <1>1, <1>2, <1>6, <1>7, <1>8 DEF Tidy, PendingIsRemote, BoundRepeats, Rechecked, Due
<1> QED
  BY <1>6, <1>9, UsingTidies

(* An answer marks, or clears, a remote field only; a submit that was held  *)
(* back checks every field.                                                 *)
LEMMA RemoteTidies ==
  ASSUME IInv, TidyInv, NEW f \in Field, NEW valid \in BOOLEAN, RemoteAnswer(f, valid)
  PROVE  TidyInv'
<1>1. /\ Enforced \subseteq Field /\ val \in [Field -> Value] /\ Sound(validator, granted)
      /\ validator \in Memory
      /\ PendingIsRemote(validator) /\ BoundRepeats(validator) /\ Rechecked(validator, val, unblurred)
  BY DEF IInv, PageOK, TidyInv, Tidy, Sound
<1>2. PICK a : a = Answered(f, valid)
  OBVIOUS
<1>3. /\ validator.live[f] # None
      /\ granted' = IF valid THEN granted \cup {<<f, validator.live[f]>>} ELSE granted
      /\ stopRequest(a, valid)
      /\ UNCHANGED <<settings, val, unblurred>>
  BY <1>2 DEF RemoteAnswer
<1>4. PICK grants : grants = granted'
  OBVIOUS
<1>5. Sound(a, grants)
  BY <1>1, <1>2, <1>3, <1>4, AnsweredKeeps
<1>6. "remote" \in DOMAIN settings[f]
  BY <1>1, <1>3 DEF Sound, LiveOK, PendingIsRemote
<1>7. PICK mark : mark = IF valid THEN showErrors(validator.mark, {}, {f})
                                  ELSE showErrors(validator.mark, {f}, {})
  OBVIOUS
<1>8. \A g \in Field \ {f} : g \in mark <=> g \in validator.mark
  BY <1>7 DEF showErrors, onError, onSuccess
<1>9. /\ a.mark = mark /\ a.pending = validator.pending \ {f} /\ a.blur = validator.blur
      /\ a.submitted = validator.submitted
  BY <1>1, <1>2, <1>7 DEF Answered, Memory
<1>10. PendingIsRemote(a) /\ BoundRepeats(a)
  BY <1>1, <1>9 DEF PendingIsRemote, BoundRepeats
<1>11. Tidy(a, val, unblurred)
  <2>1. ASSUME NEW t \in Field, a.blur[t] # None, "remote" \notin DOMAIN settings[a.blur[t]],
               {a.blur[t], t} \cap unblurred = {}, Due(a, val, a.blur[t])
        PROVE  Confirmed(a, val, t)
    <3>1. Confirmed(validator, val, t)
      BY <1>1, <1>9, <2>1 DEF Rechecked, Due
    <3>2. validator.blur[t] \in Field \ {f}
      BY <1>1, <1>6, <1>9, <2>1 DEF Memory
    <3> QED
      BY <1>8, <1>9, <3>1, <3>2 DEF Confirmed
  <2> QED
    BY <1>10, <2>1 DEF Tidy, Rechecked
<1>12. PICK b : b = onErrors(a)
  OBVIOUS
<1>13. PICK d : d = [b EXCEPT !.formSubmitted = FALSE]
  OBVIOUS
<1>14. Tidy(d, val, unblurred)
  <2>1. /\ b \in Memory /\ b.mark = a.mark /\ b.pending = a.pending /\ b.blur = a.blur
        /\ b.submitted = a.submitted
    BY <1>5, <1>12 DEF Sound, Memory, onErrors
  <2>2. d.mark = a.mark /\ d.pending = a.pending /\ d.blur = a.blur /\ d.submitted = a.submitted
    BY <1>13, <2>1 DEF Memory
  <2> QED
    BY <1>11, <2>2, SameTidies
<1>15. PICK once : once = form(a)
  OBVIOUS
<1>16. Sound(once, grants) /\ Tidy(once, val, unblurred)
  BY <1>1, <1>5, <1>10, <1>15, FormKeeps, FormTidies
<1>17. PICK twice : twice = form(once)
  OBVIOUS
<1>18. Sound(twice, grants) /\ Tidy(twice, val, unblurred)
  <2>1. PendingIsRemote(once) /\ BoundRepeats(once)
    BY <1>16 DEF Tidy
  <2> QED
    BY <1>1, <1>16, <1>17, <2>1, FormKeeps, FormTidies
<1>19. PICK e : e = [twice EXCEPT !.formSubmitted = FALSE]
  OBVIOUS
<1>20. Tidy(e, val, unblurred)
  <2>1. /\ e.mark = twice.mark /\ e.pending = twice.pending /\ e.blur = twice.blur
        /\ e.submitted = twice.submitted
    BY <1>18, <1>19 DEF Sound, Memory
  <2> QED
    BY <1>18, <2>1, SameTidies
<1>21. validator' = a \/ validator' = d \/ validator' = once \/ validator' = e
  BY <1>3, <1>12, <1>13, <1>15, <1>17, <1>19 DEF stopRequest
<1>22. Tidy(validator', val', unblurred')
  BY <1>3, <1>11, <1>14, <1>16, <1>20, <1>21
<1> QED
  BY <1>3, <1>22, UsingTidies

LEMMA RemoteFailsTidies ==
  ASSUME IInv, TidyInv, NEW f \in Field, RemoteFails(f)
  PROVE  TidyInv'
<1>1. validator \in Memory /\ UNCHANGED <<settings, val, unblurred>>
  BY DEF IInv, Sound, RemoteFails
<1>2. PICK live : live = [validator.live EXCEPT ![f] = None]
  OBVIOUS
<1>3. validator' = [validator EXCEPT !.live = live]
  BY <1>2 DEF RemoteFails
<1>4. /\ validator'.mark = validator.mark /\ validator'.pending = validator.pending
      /\ validator'.blur = validator.blur /\ validator'.submitted = validator.submitted
  BY <1>1, <1>3 DEF Memory
<1>5. PICK c : c = validator'
  OBVIOUS
<1>6. Tidy(c, val, unblurred)
  BY <1>4, <1>5, SameTidies DEF TidyInv
<1> QED
  BY <1>1, <1>5, <1>6, UsingTidies

LEMMA TidyStep == IInv /\ TidyInv /\ [Next]_vars => TidyInv'
<1> SUFFICES ASSUME IInv, TidyInv, [Next]_vars PROVE TidyInv'
  OBVIOUS
<1>1. CASE Parse \/ Submit \/ Reset
  BY <1>1, ParseTidies, SubmitTidies, ResetTidies
<1>2. ASSUME NEW f \in Field, AddField(f) \/ \E skipAttach \in BOOLEAN : ParseElement(f, skipAttach)
      PROVE  TidyInv'
  BY <1>2, ParseTidies
<1>3. ASSUME NEW f \in Field, NEW v \in Value, Edit(f, v) PROVE TidyInv'
  BY <1>3, EditTidies
<1>4. ASSUME NEW f \in Field, FocusOut(f) \/ RemoteFails(f) PROVE TidyInv'
  BY <1>4, FocusOutTidies, RemoteFailsTidies
<1>5. ASSUME NEW f \in Field, NEW valid \in BOOLEAN, RemoteAnswer(f, valid) PROVE TidyInv'
  BY <1>5, RemoteTidies
<1>6. CASE UNCHANGED vars
  BY <1>6, UsingTidies DEF vars, TidyInv
<1> QED
  BY <1>1, <1>2, <1>3, <1>4, <1>5, <1>6 DEF Next

(* In every form, two fields the user has left, of which one repeats the    *)
(* other, never differ without a message, once they have been compared: but *)
(* for a confirmation that is blank and never failed, which leaving it does *)
(* not check.                                                               *)
THEOREM Confirms == Spec => []ConfirmIsRechecked
<1>1. TidyInv => ConfirmIsRechecked
  BY DEF TidyInv, Tidy, Rechecked, Due, Confirmed, ConfirmIsRechecked
<1> QED
  BY <1>1, TidyInit, TidyStep, Invariance, PTL DEF Spec

-----------------------------------------------------------------------------
(* The form leaves with the values on the page, and nothing changes on it   *)
(* afterwards.                                                              *)
SentIsOnThePage == sent # None => sent = val

LEMMA SentStep == SentIsOnThePage /\ [Next]_vars => SentIsOnThePage'
<1> SUFFICES ASSUME SentIsOnThePage, [Next]_vars PROVE SentIsOnThePage'
  OBVIOUS
<1>1. CASE UNCHANGED vars
  BY <1>1 DEF vars, SentIsOnThePage
<1>2. ASSUME sent = None, sent' = None PROVE SentIsOnThePage'
  BY <1>2 DEF SentIsOnThePage
<1>3. ASSUME sent' = val, val' = val PROVE SentIsOnThePage'
  BY <1>3 DEF SentIsOnThePage
<1>4. CASE Parse \/ Reset
  BY <1>2, <1>4 DEF Parse, parse, Reset
<1>5. CASE Submit
  <2>1. sent = None /\ val' = val /\ (sent' = val \/ sent' = sent)
    BY <1>5 DEF Submit
  <2> QED
    BY <1>2, <1>3, <2>1
<1>6. ASSUME NEW f \in Field, AddField(f) \/ \E skipAttach \in BOOLEAN : ParseElement(f, skipAttach)
      PROVE  SentIsOnThePage'
  BY <1>2, <1>6 DEF AddField, ParseElement
<1>7. ASSUME NEW f \in Field, NEW v \in Value, Edit(f, v) PROVE SentIsOnThePage'
  BY <1>2, <1>7 DEF Edit
<1>8. ASSUME NEW f \in Field, FocusOut(f) \/ RemoteFails(f) PROVE SentIsOnThePage'
  BY <1>2, <1>8 DEF FocusOut, RemoteFails
<1>9. ASSUME NEW f \in Field, NEW valid \in BOOLEAN, RemoteAnswer(f, valid) PROVE SentIsOnThePage'
  <2>1. PICK a : a = Answered(f, valid)
    OBVIOUS
  <2>2. sent = None /\ val' = val /\ stopRequest(a, valid)
    BY <1>9, <2>1 DEF RemoteAnswer
  <2>3. sent' = val \/ sent' = None
    BY <2>2 DEF stopRequest
  <2> QED
    BY <1>2, <1>3, <2>2, <2>3
<1> QED
  BY <1>1, <1>4, <1>5, <1>6, <1>7, <1>8, <1>9 DEF Next

(* So the two halves meet: what the server receives is, field by field,     *)
(* what the attributes it rendered mean, for every field that the validator *)
(* knows and whose declaration is plain.                                    *)
SentMeansAttributes ==
  sent # None => \A f \in Enforced :
    ( /\ declared[f] \in PlainDeclarations
      /\ "equalto" \in DOMAIN declared[f].attrs => declared[f].attrs["equalto"] \in Early )
      => Means(declared[f], sent[f], sent)

(* A form is never sent with an enforced field that its attributes forbid,  *)
(* over every adapter, edit, answer, failure and reset.                     *)
THEOREM SentMeans == Spec => []SentMeansAttributes
<1>1. IInv /\ SentIsOnThePage /\ RulesMeanAttributes => SentMeansAttributes
  <2> SUFFICES ASSUME IInv, SentIsOnThePage, RulesMeanAttributes, sent # None, NEW f \in Enforced,
                      declared[f] \in PlainDeclarations,
                      "equalto" \in DOMAIN declared[f].attrs => declared[f].attrs["equalto"] \in Early
               PROVE  Means(declared[f], sent[f], sent)
    BY DEF SentMeansAttributes
  <2>1. sent = val /\ val \in [Field -> Value] /\ f \in Field
    BY DEF SentIsOnThePage, IInv, PageOK
  <2>2. PICK v \in Value : v = sent[f]
    BY <2>1
  <2>3. [val EXCEPT ![f] = v] = sent
    BY <2>1, <2>2
  <2>4. Passes(settings[f], v, sent)
    BY <2>2 DEF IInv, SentIsAccepted
  <2>5. PICK w : w = [val EXCEPT ![f] = v]
    OBVIOUS
  <2>6. Passes(settings[f], v, w) => Means(declared[f], v, w)
    BY <2>5 DEF RulesMeanAttributes
  <2> QED
    BY <2>2, <2>3, <2>4, <2>5, <2>6
<1>2. FormsInit => SentIsOnThePage
  BY DEF FormsInit, SentIsOnThePage
<1>3. Spec => []SentIsOnThePage
  BY <1>2, SentStep, PTL DEF Spec
<1> QED
  BY <1>1, <1>3, Invariance, RulesMean, PTL
=============================================================================
