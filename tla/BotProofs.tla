------------------------------ MODULE BotProofs ------------------------------
(* Proofs about the conversation bot, for any conversations, turns and      *)
(* failures: the types, that a greeted conversation is heard, and that the  *)
(* depth of a stack is paid for by keywords and greetings.                  *)
EXTENDS Bot, FiniteSetTheorems, TLAPS

Name == {"Welcome", "LUIS"}

Session == [kind : Kind, phase : Phase, stack : Seq(Name), reply : Reply]

(* What a dialog makes of a stack. *)
Outcome == [phase : Phase, stack : Seq(Name), reply : Reply]

(* What a turn has done to its stack: an update leaves a greeting on it,    *)
(* only a turn that failed leaves it empty, and no such turn asks for       *)
(* albums, whose titles would save it again.                                *)
TurnInv(t) ==
  /\ turn[t].phase # "none" =>
       /\ turn[t].kind = "added" => turn[t].stack # <<>> /\ turn[t].phase # "recognizing"
       /\ turn[t].phase = "recognizing" => turn[t].stack # <<>>
       /\ turn[t].stack = <<>> => turn[t].reply = "oops"
  /\ fetch[t] # "none" => turn[t].phase \notin {"none", "recognizing"} /\ turn[t].stack # <<>>

HeardInv == GreetedIsHeard /\ \A t \in Turn : TurnInv(t)

-----------------------------------------------------------------------------
(* Putting the listening dialog on a stack.                                 *)
LEMMA Pushed ==
  ASSUME NEW stack \in Seq(Name)
  PROVE  /\ Append(stack, "LUIS") \in Seq(Name)
         /\ stack \o <<"Welcome", "LUIS">> \in Seq(Name)
         /\ Len(Append(stack, "LUIS")) = Len(stack) + 1
         /\ Len(stack \o <<"Welcome", "LUIS">>) = Len(stack) + 2
         /\ Listening(Append(stack, "LUIS"))
         /\ Listening(stack \o <<"Welcome", "LUIS">>)
         /\ Append(stack, "LUIS") # <<>>
         /\ stack \o <<"Welcome", "LUIS">> # <<>>
<1>1. Len(stack) \in Nat /\ <<"Welcome", "LUIS">> \in Seq(Name)
  BY DEF Name
<1>2. /\ Append(stack, "LUIS") \in Seq(Name)
      /\ Len(Append(stack, "LUIS")) = Len(stack) + 1
      /\ Append(stack, "LUIS")[Len(stack) + 1] = "LUIS"
  BY <1>1 DEF Name
<1>3. /\ stack \o <<"Welcome", "LUIS">> \in Seq(Name)
      /\ Len(stack \o <<"Welcome", "LUIS">>) = Len(stack) + 2
      /\ (stack \o <<"Welcome", "LUIS">>)[Len(stack) + 2] = "LUIS"
  BY <1>1 DEF Name
<1>4. Len(<<>>) = 0
  OBVIOUS
<1> QED
  BY <1>1, <1>2, <1>3, <1>4 DEF Listening

(* The parts of what a dialog makes of a stack.                             *)
LEMMA Parts ==
  ASSUME NEW stack \in Seq(Name), NEW reply \in Reply
  PROVE  /\ Saving(stack, reply) \in Outcome
         /\ Saving(stack, reply).phase = "saving"
         /\ Saving(stack, reply).stack = stack
         /\ Saving(stack, reply).reply = reply
         /\ Recognizing(stack) \in Outcome
         /\ Recognizing(stack).phase = "recognizing"
         /\ Recognizing(stack).stack = stack
<1>1. "saving" \in Phase /\ "recognizing" \in Phase /\ "none" \in Reply
  BY DEF Phase, Reply
<1> QED
  BY <1>1 DEF Saving, Recognizing, Outcome

(* What comes, and what the bot makes of it: the next step of a session,    *)
(* with a stack that listens, grown by what the keyword costs.              *)
Reaction(kind, stack) == IF kind = "added" THEN conversationUpdate ELSE middleware(kind, stack)

Cost(kind) == IF kind \in {"added", "help"} THEN 2 ELSE IF kind = "luis" THEN 1 ELSE 0

(* The whole of it: types, growth, and what an empty stack means.           *)
LEMMA ReactionFacts ==
  ASSUME NEW kind \in Kind, NEW stack \in Seq(Name), Listening(stack),
         NEW s, s = Reaction(kind, stack)
  PROVE  /\ s \in Outcome
         /\ s.phase # "none"
         /\ Listening(s.stack)
         /\ Len(s.stack) <= Len(stack) + Cost(kind)
         /\ kind = "added" => s.stack # <<>> /\ s.phase # "recognizing"
         /\ s.phase = "recognizing" => s.stack # <<>>
         /\ s.stack = <<>> => s.reply = "oops"
<1>1. Len(stack) \in Nat
  OBVIOUS
<1>2. {"none", "card", "oops"} \subseteq Reply
  BY DEF Reply
<1>3. CASE kind = "added"
  <2>1. PICK empty : empty = <<>>
    OBVIOUS
  <2>1a. empty \in Seq(Name) /\ Len(empty) = 0
    BY <2>1
  <2> DEFINE after == empty \o <<"Welcome", "LUIS">>
  <2>2. after \in Seq(Name) /\ Listening(after) /\ after # <<>> /\ Len(after) = Len(empty) + 2
    BY <2>1a, Pushed
  <2>3. s = Saving(after, "card")
    BY <1>3, <2>1 DEF Reaction, conversationUpdate, Welcome
  <2> HIDE DEF after
  <2>4. s \in Outcome /\ s.phase = "saving" /\ s.stack = after
    BY <1>2, <2>2, <2>3, Parts
  <2>5. Cost(kind) = 2
    BY <1>3 DEF Cost
  <2>6. Len(after) = 2
    BY <2>1a, <2>2
  <2>7. 2 <= Len(stack) + 2
    BY <1>1
  <2>8. Len(s.stack) <= Len(stack) + Cost(kind)
    BY <2>4, <2>5, <2>6, <2>7
  <2> QED
    BY <1>3, <2>2, <2>4, <2>8
<1>4. CASE kind = "luis" /\ stack = <<>>
  <2>1. s = Recognizing(<<"LUIS">>)
    BY <1>4 DEF Reaction, middleware, localizedRegex, beginLUIS
  <2> DEFINE after == <<"LUIS">>
  <2>2. after \in Seq(Name) /\ Len(after) = 1 /\ after # <<>> /\ Listening(after)
    BY DEF Name, Listening
  <2>3. s = Recognizing(after)
    BY <2>1
  <2> HIDE DEF after
  <2>4. s \in Outcome /\ s.phase = "recognizing" /\ s.stack = after
    BY <1>2, <2>2, <2>3, Parts
  <2>5. Cost(kind) = 1
    BY <1>4 DEF Cost
  <2>6. Len(s.stack) <= Len(stack) + Cost(kind)
    BY <1>1, <2>2, <2>4, <2>5
  <2> QED
    BY <1>4, <2>2, <2>4, <2>6
<1>5. CASE kind = "luis" /\ stack # <<>>
  <2> DEFINE after == Append(stack, "LUIS")
  <2>1. s = Saving(after, "none")
    BY <1>5 DEF Reaction, middleware, localizedRegex, beginLUIS
  <2>2. after \in Seq(Name) /\ Listening(after) /\ after # <<>> /\ Len(after) = Len(stack) + 1
    BY Pushed
  <2> HIDE DEF after
  <2>3. s \in Outcome /\ s.phase = "saving" /\ s.stack = after
    BY <1>2, <2>1, <2>2, Parts
  <2> QED
    BY <1>1, <1>5, <2>2, <2>3 DEF Cost
<1>6. CASE kind = "help"
  <2> DEFINE after == stack \o <<"Welcome", "LUIS">>
  <2>1. s = Saving(after, "card")
    BY <1>6 DEF Reaction, middleware, localizedRegex, Welcome
  <2>2. after \in Seq(Name) /\ Listening(after) /\ after # <<>> /\ Len(after) = Len(stack) + 2
    BY Pushed
  <2> HIDE DEF after
  <2>3. s \in Outcome /\ s.phase = "saving" /\ s.stack = after
    BY <1>2, <2>1, <2>2, Parts
  <2> QED
    BY <1>1, <1>6, <2>2, <2>3 DEF Cost
<1>7. CASE kind = "other" /\ stack = <<>>
  <2>1. s = Saving(stack, "oops")
    BY <1>7 DEF Reaction, middleware, localizedRegex, route, Failing
  <2>2. s \in Outcome /\ s.phase = "saving" /\ s.stack = stack /\ s.reply = "oops"
    BY <1>2, <2>1, Parts
  <2> QED
    BY <1>1, <1>7, <2>2 DEF Cost
<1>8. CASE kind = "other" /\ stack # <<>>
  <2>1. s = Recognizing(stack)
    BY <1>8 DEF Reaction, middleware, localizedRegex, route
  <2>2. s \in Outcome /\ s.phase = "recognizing" /\ s.stack = stack
    BY <1>2, <2>1, Parts
  <2> QED
    BY <1>1, <1>8, <2>2 DEF Cost
<1> QED
  BY <1>3, <1>4, <1>5, <1>6, <1>7, <1>8 DEF Kind

-----------------------------------------------------------------------------
(* What has paid for the depth of a conversation's stacks so far. *)
Came(c, K) == {t \in Turn : Of[t] = c /\ turn[t].phase # "none" /\ turn[t].kind \in K}

Paid(c) == 2 * Cardinality(Came(c, {"added", "help"})) + Cardinality(Came(c, {"luis"}))

DepthInv ==
  /\ \A c \in Conv : Len(stored[c]) <= Paid(c)
  /\ \A t \in Turn : Len(turn[t].stack) <= Paid(Of[t])

IInv == TypeOK /\ HeardInv /\ DepthInv

(* The parts of TypeOK under names. *)
Turns == turn \in [Turn -> Session] /\ \A t \in Turn : Listening(turn[t].stack)

Stores == stored \in [Conv -> Seq(Name)] /\ \A c \in Conv : Listening(stored[c])

Rest ==
  /\ fetch \in [Turn -> {"none", "asked", "sent", "failed"}]
  /\ faults \in 0..MaxFaults
  /\ greeted \subseteq Conv

(* The types are these three parts.                                         *)
LEMMA TypeParts == TypeOK <=> Turns /\ Stores /\ Rest
BY DEF TypeOK, Turns, Stores, Rest, Session, Name

(* The same of the next state.                                              *)
LEMMA TypePartsNext == TypeOK' <=> Turns' /\ Stores' /\ Rest'
BY DEF TypeOK, Turns, Stores, Rest, Session, Name

(* Counts are natural numbers.                                              *)
LEMMA CameIsFinite ==
  ASSUME NEW c, NEW K
  PROVE  IsFiniteSet(Came(c, K)) /\ Cardinality(Came(c, K)) \in Nat
<1>1. Came(c, K) \subseteq Turn
  BY DEF Came
<1> QED
  BY <1>1, BotAssumption, FS_Subset, FS_CardinalityType

(* Before anything comes every stack is empty.                              *)
LEMMA InitHolds == BotInit => IInv
<1> SUFFICES ASSUME BotInit PROVE IInv
  OBVIOUS
<1>1. <<>> \in Seq(Name) /\ Len(<<>>) = 0 /\ Listening(<<>>)
  BY DEF Listening
<1>2. Turns /\ Stores
  BY <1>1 DEF BotInit, Turns, Stores, Session, Kind, Phase, Reply
<1>3. Rest
  BY BotAssumption DEF BotInit, Rest
<1>4. HeardInv
  BY DEF BotInit, HeardInv, GreetedIsHeard, TurnInv
<1>5. \A c : Paid(c) \in Nat
  BY CameIsFinite DEF Paid
<1>6. DepthInv
  BY <1>1, <1>5, BotAssumption DEF BotInit, DepthInv
<1> QED
  BY <1>2, <1>3, <1>4, <1>6, TypeParts DEF IInv

-----------------------------------------------------------------------------
(* Steps after the arrival of a turn: its kind stays, its stack stays or is *)
(* emptied by a failure, and a save stores the stack of a turn.             *)
Kept ==
  \A u \in Turn : /\ turn'[u].kind = turn[u].kind
                  /\ turn'[u].phase = "none" <=> turn[u].phase = "none"
                  /\ turn'[u].stack = turn[u].stack \/ turn'[u].stack = <<>>

Saved ==
  \A c \in Conv : \/ stored'[c] = stored[c]
                  \/ \E u \in Turn : Of[u] = c /\ stored'[c] = turn[u].stack

(* Such a step keeps what was paid, and what it paid for.                   *)
LEMMA DepthKept ==
  ASSUME TypeOK, DepthInv, Kept, Saved
  PROVE  DepthInv'
<1>1. \A c, K : Came(c, K)' = Came(c, K)
  BY DEF Kept, Came
<1>2. \A c : Paid(c)' = Paid(c)
  BY <1>1 DEF Paid
<1>3. \A c : Paid(c) \in Nat
  BY CameIsFinite DEF Paid
<1>4. Len(<<>>) = 0
  OBVIOUS
<1>5. ASSUME NEW c \in Conv
      PROVE  (Len(stored[c]) <= Paid(c))'
  BY <1>2, <1>5 DEF DepthInv, Saved
<1>6. ASSUME NEW t \in Turn
      PROVE  (Len(turn[t].stack) <= Paid(Of[t]))'
  <2>1. CASE turn'[t].stack = turn[t].stack
    BY <1>2, <2>1 DEF DepthInv
  <2>2. CASE turn'[t].stack = <<>>
    <3>1. Paid(Of[t]) >= 0
      BY <1>3
    <3> QED
      BY <1>2, <1>4, <2>2, <3>1
  <2> QED
    BY <2>1, <2>2 DEF Kept
<1> QED
  BY <1>5, <1>6 DEF DepthInv

-----------------------------------------------------------------------------
(* A turn that starts is paid for by the keyword it came with.              *)
LEMMA ReceivePays ==
  ASSUME TypeOK, NEW t \in Turn, NEW kind \in Kind, turn[t].phase = "none",
         turn'[t].kind = kind, turn'[t].phase # "none",
         \A u \in Turn \ {t} : turn'[u] = turn[u]
  PROVE  /\ Paid(Of[t])' = Paid(Of[t]) + Cost(kind)
         /\ \A c \in Conv : Paid(c) <= Paid(c)'
<1>1. ASSUME NEW c, NEW K
      PROVE  Came(c, K)' = IF Of[t] = c /\ kind \in K THEN Came(c, K) \cup {t} ELSE Came(c, K)
  BY DEF Came
<1>2. \A c, K : t \notin Came(c, K)
  BY DEF Came
<1>3. ASSUME NEW c, NEW K
      PROVE  Cardinality(Came(c, K))' = IF Of[t] = c /\ kind \in K
                                        THEN Cardinality(Came(c, K)) + 1
                                        ELSE Cardinality(Came(c, K))
  <2>1. Cardinality(Came(c, K) \cup {t}) = Cardinality(Came(c, K)) + 1
    BY <1>2, CameIsFinite, FS_AddElement
  <2> QED
    BY <1>1, <2>1
<1>4. \A c : /\ Cardinality(Came(c, {"added", "help"})) \in Nat
             /\ Cardinality(Came(c, {"luis"})) \in Nat
  BY CameIsFinite
<1>5. Paid(Of[t])' = Paid(Of[t]) + Cost(kind)
  <2>1. /\ kind \in {"added", "help"} => Cost(kind) = 2 /\ kind \notin {"luis"}
        /\ kind \in {"luis"} => Cost(kind) = 1 /\ kind \notin {"added", "help"}
        /\ kind \notin {"added", "help"} /\ kind \notin {"luis"} => Cost(kind) = 0
    BY DEF Cost
  <2> QED
    BY <1>3, <1>4, <2>1 DEF Paid
<1>6. \A c \in Conv : Paid(c) <= Paid(c)'
  BY <1>3, <1>4 DEF Paid
<1> QED
  BY <1>5, <1>6

(* The update or a message comes.                                           *)
LEMMA ReceiveKeeps ==
  ASSUME IInv, NEW t \in Turn, NEW kind \in Kind, Receive(t, kind)
  PROVE  IInv'
<1>1. PICK stack : stack = stored[Of[t]]
  OBVIOUS
<1>2. Of[t] \in Conv /\ Turns /\ Stores /\ Rest
  BY BotAssumption, TypeParts DEF IInv
<1>3. stack \in Seq(Name) /\ Listening(stack)
  BY <1>1, <1>2 DEF Stores
<1>4. PICK s : s = Reaction(kind, stack)
  OBVIOUS
<1>5. /\ turn[t].phase = "none"
      /\ turn' = [turn EXCEPT ![t] = [kind |-> kind, phase |-> s.phase,
                                      stack |-> s.stack, reply |-> s.reply]]
      /\ UNCHANGED <<stored, fetch, faults, greeted>>
  BY <1>1, <1>4 DEF Receive, Reaction
<1>6. /\ s \in Outcome
      /\ s.phase # "none"
      /\ Listening(s.stack)
      /\ Len(s.stack) <= Len(stack) + Cost(kind)
      /\ kind = "added" => s.stack # <<>> /\ s.phase # "recognizing"
      /\ s.phase = "recognizing" => s.stack # <<>>
      /\ s.stack = <<>> => s.reply = "oops"
  BY <1>3, <1>4, ReactionFacts
<1>7. PICK next : next = [kind |-> kind, phase |-> s.phase,
                          stack |-> s.stack, reply |-> s.reply]
  OBVIOUS
<1>8. /\ next \in Session
      /\ next.kind = kind /\ next.phase = s.phase /\ next.stack = s.stack /\ next.reply = s.reply
  BY <1>3, <1>6, <1>7 DEF Session, Outcome
<1>9. turn'[t] = next /\ \A u \in Turn \ {t} : turn'[u] = turn[u]
  BY <1>2, <1>5, <1>7 DEF Turns
<1>10. turn' \in [Turn -> Session]
  BY <1>2, <1>5, <1>7, <1>8 DEF Turns
<1>11. Turns'
  BY <1>2, <1>6, <1>8, <1>9, <1>10 DEF Turns
<1>12. Stores' /\ Rest'
  BY <1>2, <1>5 DEF Stores, Rest
<1>13. HeardInv'
  <2>1. \A u \in Turn : TurnInv(u)'
    <3>1. fetch' = fetch /\ fetch[t] = "none"
      BY <1>5 DEF IInv, HeardInv, TurnInv
    <3>2. TurnInv(t)'
      BY <1>6, <1>8, <1>9, <3>1 DEF TurnInv
    <3>3. \A u \in Turn \ {t} : TurnInv(u)'
      BY <1>9, <3>1 DEF IInv, HeardInv, TurnInv
    <3> QED
      BY <3>2, <3>3
  <2>2. GreetedIsHeard'
    BY <1>5 DEF IInv, HeardInv, GreetedIsHeard
  <2> QED
    BY <2>1, <2>2 DEF HeardInv
<1>14. DepthInv'
  <2>1. /\ Paid(Of[t])' = Paid(Of[t]) + Cost(kind)
        /\ \A c \in Conv : Paid(c) <= Paid(c)'
    BY <1>5, <1>6, <1>8, <1>9, ReceivePays DEF IInv
  <2>2. \A c : Paid(c) \in Nat /\ Paid(c)' \in Nat
    <3>1. \A c, K : Cardinality(Came(c, K)) \in Nat /\ Cardinality(Came(c, K))' \in Nat
      <4>1. \A c, K : Came(c, K)' \subseteq Turn
        BY DEF Came
      <4> QED
        BY <4>1, CameIsFinite, BotAssumption, FS_Subset, FS_CardinalityType
    <3> QED
      BY <3>1 DEF Paid
  <2>3. Cost(kind) \in Nat
    BY DEF Cost
  <2>4. ASSUME NEW c \in Conv PROVE Len(stored'[c]) <= Paid(c)'
    <3>1. Len(stored[c]) \in Nat /\ Len(stored[c]) <= Paid(c)
      BY <1>2 DEF Stores, IInv, DepthInv
    <3>2. stored' = stored
      BY <1>5
    <3> QED
      BY <2>1, <2>2, <3>1, <3>2
  <2>5. Len(turn'[t].stack) <= Paid(Of[t])'
    <3>1. Len(stack) \in Nat /\ Len(s.stack) \in Nat /\ Len(stack) <= Paid(Of[t])
      BY <1>1, <1>2, <1>3, <1>6 DEF Outcome, IInv, DepthInv
    <3> QED
      BY <1>6, <1>8, <1>9, <2>1, <2>2, <2>3, <3>1
  <2>6. ASSUME NEW u \in Turn \ {t} PROVE Len(turn'[u].stack) <= Paid(Of[u])'
    <3>1. Len(turn[u].stack) \in Nat /\ Len(turn[u].stack) <= Paid(Of[u]) /\ Of[u] \in Conv
      BY <1>2, BotAssumption DEF Turns, Session, IInv, DepthInv
    <3> QED
      BY <1>9, <2>1, <2>2, <3>1
  <2> QED
    BY <2>4, <2>5, <2>6 DEF DepthInv
<1> QED
  BY <1>11, <1>12, <1>13, <1>14, TypePartsNext DEF IInv

-----------------------------------------------------------------------------
(* A turn that waited goes on: its stack stays, or it fails.                *)
LEMMA MoveKeeps ==
  ASSUME IInv, NEW t \in Turn, NEW s \in Outcome,
         turn[t].phase = "recognizing", s.phase = "saving",
         s.stack = turn[t].stack \/ (s.stack = <<>> /\ s.reply = "oops"),
         Continue(t, s), Rest', UNCHANGED <<stored, greeted>>,
         fetch' = fetch \/ (s.stack = turn[t].stack /\ fetch' = [fetch EXCEPT ![t] = "asked"])
  PROVE  IInv'
<1>1. Turns /\ Stores /\ Rest
  BY TypeParts DEF IInv
<1>2. PICK next : next = [kind |-> turn[t].kind, phase |-> s.phase,
                          stack |-> s.stack, reply |-> s.reply]
  OBVIOUS
<1>3. /\ next \in Session
      /\ next.kind = turn[t].kind /\ next.phase = "saving"
      /\ next.stack = s.stack /\ next.reply = s.reply
  BY <1>1, <1>2 DEF Turns, Session, Outcome
<1>4. turn' = [turn EXCEPT ![t] = next]
  BY <1>1, <1>2 DEF Continue, Turns
<1>5. turn'[t] = next /\ \A u \in Turn \ {t} : turn'[u] = turn[u]
  BY <1>1, <1>4 DEF Turns
<1>6. turn' \in [Turn -> Session]
  BY <1>1, <1>3, <1>4 DEF Turns
<1>7. Listening(s.stack)
  BY <1>1 DEF Turns, Listening
<1>8. Turns'
  BY <1>1, <1>3, <1>5, <1>6, <1>7 DEF Turns
<1>9. Stores'
  BY <1>1 DEF Stores
<1>10. TurnInv(t)
  BY DEF IInv, HeardInv
<1>11. HeardInv'
  <2>1. TurnInv(t)'
    BY <1>3, <1>5, <1>10 DEF TurnInv
  <2>2. ASSUME NEW u \in Turn \ {t} PROVE TurnInv(u)'
    <3>1. fetch'[u] = fetch[u]
      BY <1>1 DEF Rest
    <3> QED
      BY <1>5, <3>1 DEF IInv, HeardInv, TurnInv
  <2>3. GreetedIsHeard'
    BY DEF IInv, HeardInv, GreetedIsHeard
  <2> QED
    BY <2>1, <2>2, <2>3 DEF HeardInv
<1>12. Kept
  BY <1>3, <1>5 DEF Kept
<1>13. Saved
  BY DEF Saved
<1>14. DepthInv'
  BY <1>12, <1>13, DepthKept DEF IInv
<1> QED
  BY <1>8, <1>9, <1>11, <1>14, TypePartsNext DEF IInv

(* The recognizers answer, or fail.                                         *)
LEMMA RecognizedKeeps ==
  ASSUME IInv, NEW t \in Turn,
         GetData(t) \/ Qna(t) \/ onDefault(t) \/ RecognizerFails(t)
  PROVE  IInv'
<1>1. Turns /\ Rest
  BY TypeParts DEF IInv
<1>2. PICK stack : stack = turn[t].stack
  OBVIOUS
<1>3. stack \in Seq(Name)
  BY <1>1, <1>2 DEF Turns, Session
<1>4. {"intro", "answer", "sorry", "oops"} \subseteq Reply
  BY DEF Reply
<1>5. ASSUME NEW reply \in {"intro", "answer", "sorry"}, turn[t].phase = "recognizing",
             Continue(t, Saving(turn[t].stack, reply)), Rest',
             UNCHANGED <<stored, greeted>>,
             fetch' = fetch \/ fetch' = [fetch EXCEPT ![t] = "asked"]
      PROVE  IInv'
  <2>1. PICK s : s = Saving(stack, reply)
    OBVIOUS
  <2>2. s \in Outcome /\ s.phase = "saving" /\ s.stack = turn[t].stack
    BY <1>2, <1>3, <1>4, <2>1, Parts
  <2>3. Continue(t, s)
    BY <1>2, <1>5, <2>1
  <2> QED
    BY <1>5, <2>2, <2>3, MoveKeeps
<1>6. CASE GetData(t)
  <2>1. Rest'
    BY <1>1, <1>6 DEF GetData, Rest
  <2> QED
    BY <1>5, <1>6, <2>1 DEF GetData
<1>7. CASE Qna(t)
  <2>1. Rest'
    BY <1>1, <1>7 DEF Qna, Rest
  <2> QED
    BY <1>5, <1>7, <2>1 DEF Qna
<1>8. CASE onDefault(t)
  <2>1. Rest'
    BY <1>1, <1>8 DEF onDefault, Rest
  <2> QED
    BY <1>5, <1>8, <2>1 DEF onDefault
<1>9. CASE RecognizerFails(t)
  <2>1. Rest'
    BY <1>1, <1>9, BotAssumption DEF RecognizerFails, Rest
  <2>2. PICK empty : empty = <<>>
    OBVIOUS
  <2>3. PICK s : s = Saving(empty, "oops")
    OBVIOUS
  <2>4. empty \in Seq(Name)
    BY <2>2
  <2>5. s \in Outcome /\ s.phase = "saving" /\ s.stack = empty /\ s.reply = "oops"
    BY <1>4, <2>3, <2>4, Parts
  <2>6. /\ turn[t].phase = "recognizing" /\ Continue(t, s)
        /\ UNCHANGED <<stored, fetch, greeted>>
    BY <1>9, <2>2, <2>3 DEF RecognizerFails, Failing
  <2> QED
    BY <2>1, <2>2, <2>5, <2>6, MoveKeeps
<1> QED
  BY <1>6, <1>7, <1>8, <1>9

(* A turn saves its stack, which is empty only if it failed; then the       *)
(* conversation counts as greeted no more.                                  *)
LEMMA SaveKeeps ==
  ASSUME IInv, NEW t \in Turn, Save(t)
  PROVE  IInv'
<1>1. Turns /\ Stores /\ Rest /\ Of[t] \in Conv
  BY TypeParts, BotAssumption DEF IInv
<1>2. /\ turn[t].phase = "saving"
      /\ stored' = [stored EXCEPT ![Of[t]] = turn[t].stack]
      /\ turn' = [turn EXCEPT ![t].phase = "done"]
      /\ greeted' = CASE turn[t].kind = "added" -> greeted \cup {Of[t]}
                      [] turn[t].reply = "oops" -> greeted \ {Of[t]}
                      [] OTHER -> greeted
      /\ UNCHANGED <<fetch, faults>>
  BY DEF Save
<1>3. \A u \in Turn : /\ turn'[u].kind = turn[u].kind
                      /\ turn'[u].stack = turn[u].stack
                      /\ turn'[u].reply = turn[u].reply
                      /\ turn'[u].phase = IF u = t THEN "done" ELSE turn[u].phase
  BY <1>1, <1>2 DEF Turns, Session
<1>4. Turns'
  <2>1. "done" \in Phase
    BY DEF Phase
  <2>2. turn' \in [Turn -> Session]
    BY <1>1, <1>2, <2>1 DEF Turns, Session
  <2> QED
    BY <1>1, <1>3, <2>2 DEF Turns
<1>5. turn[t].stack \in Seq(Name) /\ Listening(turn[t].stack)
  BY <1>1 DEF Turns, Session
<1>6. \A c \in Conv : stored'[c] = IF c = Of[t] THEN turn[t].stack ELSE stored[c]
  BY <1>1, <1>2 DEF Stores
<1>7. Stores'
  <2>1. stored' \in [Conv -> Seq(Name)]
    BY <1>1, <1>2, <1>5 DEF Stores
  <2> QED
    BY <1>1, <1>5, <1>6, <2>1 DEF Stores
<1>8. Rest'
  BY <1>1, <1>2 DEF Rest
<1>9. HeardInv'
  <2>1. \A u \in Turn : TurnInv(u)'
    BY <1>2, <1>3 DEF IInv, HeardInv, TurnInv
  <2>2. ASSUME NEW c \in Conv, c \in greeted'
        PROVE  stored'[c] # <<>>
    <3>1. CASE c = Of[t]
      <4>1. turn[t].kind = "added" \/ turn[t].reply # "oops"
        BY <1>2, <2>2, <3>1
      <4>2. turn[t].stack # <<>>
        BY <1>2, <4>1 DEF IInv, HeardInv, TurnInv
      <4> QED
        BY <1>6, <3>1, <4>2
    <3>2. CASE c # Of[t]
      <4>1. c \in greeted
        BY <1>2, <2>2, <3>2
      <4> QED
        BY <1>6, <3>2, <4>1 DEF IInv, HeardInv, GreetedIsHeard
    <3> QED
      BY <3>1, <3>2
  <2>3. greeted' \subseteq Conv
    BY <1>8 DEF Rest
  <2> QED
    BY <2>1, <2>2, <2>3 DEF HeardInv, GreetedIsHeard
<1>10. Kept
  BY <1>2, <1>3 DEF Kept
<1>11. Saved
  BY <1>6 DEF Saved
<1>12. DepthInv'
  BY <1>10, <1>11, DepthKept DEF IInv
<1> QED
  BY <1>4, <1>7, <1>8, <1>9, <1>12, TypePartsNext DEF IInv

(* Turns end, by a save that fails or with the server.                      *)
LEMMA LostKeeps ==
  ASSUME IInv, turn' \in [Turn -> Session], Rest', UNCHANGED <<stored, greeted>>,
         \A u \in Turn : \/ turn'[u] = turn[u]
                         \/ turn[u].phase # "none" /\ turn'[u] = [turn[u] EXCEPT !.phase = "lost"],
         \A u \in Turn : fetch'[u] # "none" => fetch[u] # "none"
  PROVE  IInv'
<1>1. Turns /\ Stores
  BY TypeParts DEF IInv
<1>2. \A u \in Turn : /\ turn'[u].kind = turn[u].kind
                      /\ turn'[u].stack = turn[u].stack
                      /\ turn'[u].reply = turn[u].reply
                      /\ \/ turn'[u].phase = turn[u].phase
                         \/ turn'[u].phase = "lost" /\ turn[u].phase # "none"
  <2> TAKE u \in Turn
  <2>1. PICK before : before = turn[u]
    OBVIOUS
  <2>2. before \in Session
    BY <1>1, <2>1 DEF Turns
  <2>3. PICK after : after = [before EXCEPT !.phase = "lost"]
    OBVIOUS
  <2>4. /\ after.kind = before.kind /\ after.stack = before.stack
        /\ after.reply = before.reply /\ after.phase = "lost"
    BY <2>2, <2>3 DEF Session
  <2>5. turn'[u] = before \/ (before.phase # "none" /\ turn'[u] = after)
    BY <2>1, <2>3
  <2> QED
    BY <2>1, <2>4, <2>5
<1>3. Turns' /\ Stores'
  BY <1>1, <1>2 DEF Turns, Stores
<1>4. HeardInv'
  <2>1. \A u \in Turn : TurnInv(u)'
    BY <1>2 DEF IInv, HeardInv, TurnInv
  <2>2. GreetedIsHeard'
    BY DEF IInv, HeardInv, GreetedIsHeard
  <2> QED
    BY <2>1, <2>2 DEF HeardInv
<1>5. Kept
  BY <1>2 DEF Kept
<1>6. Saved
  BY DEF Saved
<1>7. DepthInv'
  BY <1>5, <1>6, DepthKept DEF IInv
<1> QED
  BY <1>3, <1>4, <1>7, TypePartsNext DEF IInv

(* A save that fails loses the turn.                                        *)
LEMMA SaveFailsKeeps ==
  ASSUME IInv, NEW t \in Turn, SaveFails(t)
  PROVE  IInv'
<1>1. Turns /\ Rest
  BY TypeParts DEF IInv
<1>2. "lost" \in Phase
  BY DEF Phase
<1>3. turn' \in [Turn -> Session]
  BY <1>1, <1>2 DEF SaveFails, Turns, Session
<1>4. turn'[t] = [turn[t] EXCEPT !.phase = "lost"] /\ \A u \in Turn \ {t} : turn'[u] = turn[u]
  BY <1>1 DEF SaveFails, Turns
<1>5. turn[t].phase # "none"
  BY DEF SaveFails
<1>6. Rest'
  BY <1>1, BotAssumption DEF SaveFails, Rest
<1> QED
  BY <1>3, <1>4, <1>5, <1>6, LostKeeps DEF SaveFails

(* The titles store the stack of their turn once more: it is not empty.     *)
LEMMA TitlesKeep ==
  ASSUME IInv, NEW t \in Turn, Titles(t)
  PROVE  IInv'
<1>1. Turns /\ Stores /\ Rest /\ Of[t] \in Conv
  BY TypeParts, BotAssumption DEF IInv
<1>2. /\ fetch' = [fetch EXCEPT ![t] = "sent"]
      /\ stored' = [stored EXCEPT ![Of[t]] = turn[t].stack]
      /\ fetch[t] = "asked"
      /\ UNCHANGED <<turn, faults, greeted>>
  BY DEF Titles
<1>3. turn[t].stack \in Seq(Name) /\ Listening(turn[t].stack)
  BY <1>1 DEF Turns, Session
<1>4. \A c \in Conv : stored'[c] = IF c = Of[t] THEN turn[t].stack ELSE stored[c]
  BY <1>1, <1>2 DEF Stores
<1>5. Stores'
  <2>1. stored' \in [Conv -> Seq(Name)]
    BY <1>1, <1>2, <1>3 DEF Stores
  <2> QED
    BY <1>1, <1>3, <1>4, <2>1 DEF Stores
<1>6. Turns'
  BY <1>1, <1>2 DEF Turns
<1>7. Rest'
  BY <1>1, <1>2 DEF Rest
<1>8. HeardInv'
  <2>1. turn[t].phase \notin {"none", "recognizing"} /\ turn[t].stack # <<>>
    BY <1>2 DEF IInv, HeardInv, TurnInv
  <2>2. TurnInv(t)'
    BY <1>2, <2>1 DEF IInv, HeardInv, TurnInv
  <2>3. ASSUME NEW u \in Turn \ {t} PROVE TurnInv(u)'
    <3>1. fetch'[u] = fetch[u]
      BY <1>1, <1>2 DEF Rest
    <3> QED
      BY <1>2, <3>1 DEF IInv, HeardInv, TurnInv
  <2>4. ASSUME NEW c \in greeted' PROVE stored'[c] # <<>>
    BY <1>1, <1>2, <1>4, <2>1, <2>4 DEF Rest, IInv, HeardInv, GreetedIsHeard
  <2> QED
    BY <2>2, <2>3, <2>4 DEF HeardInv, GreetedIsHeard
<1>9. Kept
  BY <1>2 DEF Kept
<1>10. Saved
  BY <1>4 DEF Saved
<1>11. DepthInv'
  BY <1>9, <1>10, DepthKept DEF IInv
<1> QED
  BY <1>5, <1>6, <1>7, <1>8, <1>11, TypePartsNext DEF IInv

(* The request fails, and may take the server with it.                      *)
LEMMA FetchFailsKeeps ==
  ASSUME IInv, NEW t \in Turn, NoAlbums(t) \/ FetchThrows(t)
  PROVE  IInv'
<1>1. Turns /\ Rest
  BY TypeParts DEF IInv
<1>2. "lost" \in Phase
  BY DEF Phase
<1>3. CASE UNCHANGED turn /\ (NoAlbums(t) \/ FetchThrows(t))
  <2>1. Rest'
    BY <1>1, <1>3, BotAssumption DEF NoAlbums, FetchThrows, Ends, Rest
  <2>2. UNCHANGED <<stored, greeted>>
    BY <1>3 DEF NoAlbums, FetchThrows
  <2>3. turn' \in [Turn -> Session]
    BY <1>1, <1>3 DEF Turns
  <2>4. \A u \in Turn : fetch'[u] # "none" => fetch[u] # "none"
    BY <1>1, <1>3 DEF NoAlbums, FetchThrows, Ends, Rest
  <2> QED
    BY <1>3, <2>1, <2>2, <2>3, <2>4, LostKeeps
<1>4. CASE FetchThrows(t) /\ Ends(t)
  <2>1. Rest'
    <3>1. fetch' \in [Turn -> {"none", "asked", "sent", "failed"}]
      BY <1>1, <1>4 DEF Ends, Rest
    <3>2. faults' \in 0..MaxFaults
      BY <1>1, <1>4, BotAssumption DEF FetchThrows, Rest
    <3> QED
      BY <1>1, <1>4, <3>1, <3>2 DEF FetchThrows, Rest
  <2>2. \A u \in Turn : turn'[u] = IF turn[u].phase \in {"recognizing", "saving"}
                                   THEN [turn[u] EXCEPT !.phase = "lost"] ELSE turn[u]
    BY <1>4 DEF Ends
  <2>3. \A u \in Turn : turn'[u] \in Session
    BY <1>1, <1>2, <2>2 DEF Turns, Session
  <2>4. turn' \in [Turn -> Session]
    BY <1>4, <2>3 DEF Ends
  <2>5. UNCHANGED <<stored, greeted>>
    BY <1>4 DEF FetchThrows
  <2>6. \A u \in Turn : fetch'[u] # "none" => fetch[u] # "none"
    BY <1>4 DEF Ends
  <2> QED
    BY <2>1, <2>2, <2>4, <2>5, <2>6, LostKeeps
<1> QED
  BY <1>3, <1>4 DEF NoAlbums, FetchThrows

(* Every step keeps the invariant.                                          *)
LEMMA NextKeeps == IInv /\ [Next]_vars => IInv'
<1> SUFFICES ASSUME IInv, [Next]_vars PROVE IInv'
  OBVIOUS
<1>1. ASSUME NEW t \in Turn, NEW kind \in Kind, Receive(t, kind) PROVE IInv'
  BY <1>1, ReceiveKeeps
<1>2. ASSUME NEW t \in Turn, Waits(t) PROVE IInv'
  BY <1>2, RecognizedKeeps, SaveKeeps, SaveFailsKeeps DEF Waits
<1>3. ASSUME NEW t \in Turn, Fetches(t) PROVE IInv'
  BY <1>3, TitlesKeep, FetchFailsKeeps DEF Fetches
<1>4. CASE UNCHANGED vars
  <2>1. UNCHANGED <<stored, turn, fetch, faults, greeted>>
    BY <1>4 DEF vars
  <2>2. TypeOK'
    BY <2>1 DEF IInv, TypeOK
  <2>3. HeardInv'
    BY <2>1 DEF IInv, HeardInv, GreetedIsHeard, TurnInv
  <2>4. Kept /\ Saved
    BY <2>1 DEF Kept, Saved
  <2>5. DepthInv'
    BY <2>4, DepthKept DEF IInv
  <2> QED
    BY <2>2, <2>3, <2>5 DEF IInv
<1> QED
  BY <1>1, <1>2, <1>3, <1>4 DEF Next

(* The invariant holds throughout.                                          *)
LEMMA Invariance == Spec => []IInv
BY InitHolds, NextKeeps, PTL DEF Spec

(* The types, and that every stack the bot saves listens.                   *)
THEOREM TypeCorrect == Spec => []TypeOK
<1>1. IInv => TypeOK
  BY DEF IInv
<1> QED
  BY <1>1, Invariance, PTL

(* Whatever order the turns of its conversation save in, a conversation     *)
(* that was greeted has a dialog for each message until a turn fails.       *)
THEOREM Heard == Spec => []GreetedIsHeard
<1>1. IInv => GreetedIsHeard
  BY DEF IInv, HeardInv
<1> QED
  BY <1>1, Invariance, PTL

(* However often stale stacks are saved, the depth of a conversation's      *)
(* stack is paid for by the greetings and keywords that came.               *)
THEOREM DepthPaid == Spec => []DepthIsPaid
<1>1. IInv => DepthIsPaid
  BY DEF IInv, DepthInv, DepthIsPaid, Paid, Came
<1> QED
  BY <1>1, Invariance, PTL
=============================================================================
