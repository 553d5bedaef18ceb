------------------------------- MODULE Bot -------------------------------
(* The conversation bot of Bot.Node: the turns of app.js over the dialog    *)
(* stack that the bot framework keeps for each conversation.                *)
(*                                                                          *)
(* A turn loads the stack, runs the middleware and the dialog it is routed  *)
(* to, may wait for the recognizers or for a request of its own, and saves  *)
(* its stack before its replies go out.  Turns of one conversation are not  *)
(* serialised, and the last save wins.  This, what a dialog that is missing *)
(* or throws does, and when an IntentDialog recognizes the message it was   *)
(* begun with are the framework's and taken from how app.js relies on them. *)
(* The texts of replies and the cards are left out.                         *)
EXTENDS Naturals, Sequences, FiniteSets

CONSTANTS
  Conv,       \* conversations
  Turn,       \* bound: the messages and updates that may arrive
  Of,         \* the conversation of each turn
  MaxFaults   \* bound: calls of the recognizers and of the state service that fail

ASSUME BotAssumption == Of \in [Turn -> Conv] /\ IsFiniteSet(Turn) /\ MaxFaults \in Nat

VARIABLES
  stored,     \* the saved dialog stack of each conversation
  turn,       \* each turn: what came, its session's stack, how far it is, its reply
  fetch,      \* the album request of a turn
  faults,
  \* history
  greeted     \* conversations whose greeting was saved, and no turn that failed since

vars == <<stored, turn, fetch, faults, greeted>>

(* What comes: the update that adds the bot, or a message that begins with  *)
(* one of the two keywords or with none.                                    *)
Kind == {"added", "luis", "help", "other"}

Phase == {"none", "recognizing", "saving", "done", "lost"}

Reply == {"none", "card", "intro", "answer", "sorry", "oops"}

BotInit ==
  /\ stored = [c \in Conv |-> <<>>]
  /\ turn = [t \in Turn |-> [kind |-> "other", phase |-> "none",
                             stack |-> <<>>, reply |-> "none"]]
  /\ fetch = [t \in Turn |-> "none"]
  /\ faults = 0
  /\ greeted = {}

-----------------------------------------------------------------------------
(* The session of a turn: its stack and what it does next. *)

Saving(stack, reply) == [phase |-> "saving", stack |-> stack, reply |-> reply]

Recognizing(stack) == [phase |-> "recognizing", stack |-> stack, reply |-> "none"]

(* session.error and endConversation *)
Failing == Saving(<<>>, "oops")

(* An IntentDialog recognizes the message it is begun with only as the root. *)
beginLUIS(stack) ==
  IF stack = <<>> THEN Recognizing(<<"LUIS">>) ELSE Saving(Append(stack, "LUIS"), "none")

(* Mutant: the card is sent and nothing listens. *)
WelcomeAlone(stack) == Saving(Append(stack, "Welcome"), "card")

(* Sends the card; the LUIS dialog it begins is not the root and waits.     *)
Welcome(stack) == Saving(stack \o <<"Welcome", "LUIS">>, "card")

(* Mutant: each message begins the listening dialog once more. *)
routeDeeper(stack) == IF stack = <<>> THEN Failing ELSE Recognizing(Append(stack, "LUIS"))

(* bot.dialog('/') names the root dialog and gives it no steps, so that     *)
(* nothing is registered: a message that finds no dialog fails.             *)
route(stack) == IF stack = <<>> THEN Failing ELSE Recognizing(stack)

(* The expression of a locale and a keyword is built once and holds no      *)
(* state: what matters is the keyword the text begins with.                 *)
localizedRegex(kind, key) == kind = key

middleware(kind, stack) ==
  CASE localizedRegex(kind, "luis") -> beginLUIS(stack)
    [] localizedRegex(kind, "help") -> Welcome(stack)
    [] OTHER -> route(stack)

(* bot.beginDialog starts a new stack. *)
conversationUpdate == Welcome(<<>>)

-----------------------------------------------------------------------------
(* The update or the message, with everything its turn does before it has   *)
(* to wait.                                                                 *)
Receive(t, kind) ==
  LET stack == stored[Of[t]]
      s == IF kind = "added" THEN conversationUpdate ELSE middleware(kind, stack)
  IN /\ turn[t].phase = "none"
     /\ turn' = [turn EXCEPT ![t] = [kind |-> kind, phase |-> s.phase, stack |-> s.stack,
                                     reply |-> s.reply]]
     /\ UNCHANGED <<stored, fetch, faults, greeted>>

Continue(t, s) ==
  turn' = [turn EXCEPT ![t] = [kind |-> @.kind, phase |-> s.phase, stack |-> s.stack,
                               reply |-> s.reply]]

(* The recognizers found the intent Get_Data: the request is started, and   *)
(* the text that announces its result is sent.                              *)
GetData(t) ==
  /\ turn[t].phase = "recognizing"
  /\ Continue(t, Saving(turn[t].stack, "intro"))
  /\ fetch' = [fetch EXCEPT ![t] = "asked"]
  /\ UNCHANGED <<stored, faults, greeted>>

(* Mutants: the answer is not sent; the conversation ends without a match. *)
QnaSilent(t) ==
  /\ turn[t].phase = "recognizing"
  /\ Continue(t, Saving(turn[t].stack, "none"))
  /\ UNCHANGED <<stored, fetch, faults, greeted>>

onDefaultEnds(t) ==
  /\ turn[t].phase = "recognizing"
  /\ Continue(t, Saving(<<>>, "sorry"))
  /\ UNCHANGED <<stored, fetch, faults, greeted>>

(* An answer of the knowledge base, or no match. *)
Qna(t) ==
  /\ turn[t].phase = "recognizing"
  /\ Continue(t, Saving(turn[t].stack, "answer"))
  /\ UNCHANGED <<stored, fetch, faults, greeted>>

onDefault(t) ==
  /\ turn[t].phase = "recognizing"
  /\ Continue(t, Saving(turn[t].stack, "sorry"))
  /\ UNCHANGED <<stored, fetch, faults, greeted>>

RecognizerFails(t) ==
  /\ turn[t].phase = "recognizing"
  /\ faults < MaxFaults
  /\ Continue(t, Failing)
  /\ faults' = faults + 1
  /\ UNCHANGED <<stored, fetch, greeted>>

-----------------------------------------------------------------------------
(* A save overwrites whatever is stored; the replies follow it. *)
Save(t) ==
  /\ turn[t].phase = "saving"
  /\ stored' = [stored EXCEPT ![Of[t]] = turn[t].stack]
  /\ turn' = [turn EXCEPT ![t].phase = "done"]
  /\ greeted' = CASE turn[t].kind = "added" -> greeted \cup {Of[t]}
                  [] turn[t].reply = "oops" -> greeted \ {Of[t]}
                  [] OTHER -> greeted
  /\ UNCHANGED <<fetch, faults>>

SaveFails(t) ==
  /\ turn[t].phase = "saving"
  /\ faults < MaxFaults
  /\ turn' = [turn EXCEPT ![t].phase = "lost"]
  /\ faults' = faults + 1
  /\ UNCHANGED <<stored, fetch, greeted>>

(* The albums arrive after the first replies went out: their titles are     *)
(* another batch of the same session, which saves its stack once more.      *)
Titles(t) ==
  /\ fetch[t] = "asked"
  /\ turn[t].phase \in {"done", "lost"}
  /\ fetch' = [fetch EXCEPT ![t] = "sent"]
  /\ stored' = [stored EXCEPT ![Of[t]] = turn[t].stack]
  /\ UNCHANGED <<turn, faults, greeted>>

(* A status other than 200 is logged. *)
NoAlbums(t) ==
  /\ fetch[t] = "asked"
  /\ fetch' = [fetch EXCEPT ![t] = "failed"]
  /\ UNCHANGED <<stored, turn, faults, greeted>>

(* Without any response the logging throws, and so does a body that is no   *)
(* list of ten albums; nothing catches it.  The server may survive, or end  *)
(* with every turn and request under way.                                   *)
Ends(t) ==
  /\ turn' = [u \in Turn |-> IF turn[u].phase \in {"recognizing", "saving"}
                             THEN [turn[u] EXCEPT !.phase = "lost"] ELSE turn[u]]
  /\ fetch' = [u \in Turn |-> IF fetch[u] = "asked" THEN "failed" ELSE fetch[u]]

FetchThrows(t) ==
  /\ fetch[t] = "asked"
  /\ faults < MaxFaults
  /\ \/ Ends(t)
     \/ fetch' = [fetch EXCEPT ![t] = "failed"] /\ UNCHANGED turn
  /\ faults' = faults + 1
  /\ UNCHANGED <<stored, greeted>>

-----------------------------------------------------------------------------
Waits(t) == \/ GetData(t) \/ Qna(t) \/ onDefault(t) \/ RecognizerFails(t)
            \/ Save(t) \/ SaveFails(t)

Fetches(t) == Titles(t) \/ NoAlbums(t) \/ FetchThrows(t)

Next ==
  \E t \in Turn :
    \/ \E kind \in Kind : Receive(t, kind)
    \/ Waits(t)
    \/ Fetches(t)

(* Calls that a turn waits for return, if only with an error. *)
Spec == BotInit /\ [][Next]_vars /\ \A t \in Turn : WF_vars(Waits(t))

-----------------------------------------------------------------------------
(* A stack is empty or ends in the dialog that listens; a Welcome never is  *)
(* on top of it.                                                            *)
Listening(stack) == stack = <<>> \/ stack[Len(stack)] = "LUIS"

(* The types, and that every stack, saved or of a session, listens: no      *)
(* message is routed to the Welcome dialog, which would greet again.        *)
TypeOK ==
  /\ stored \in [Conv -> Seq({"Welcome", "LUIS"})]
  /\ turn \in [Turn -> [kind : Kind, phase : Phase, stack : Seq({"Welcome", "LUIS"}),
                        reply : Reply]]
  /\ fetch \in [Turn -> {"none", "asked", "sent", "failed"}]
  /\ faults \in 0..MaxFaults
  /\ greeted \subseteq Conv
  /\ \A c \in Conv : Listening(stored[c])
  /\ \A t \in Turn : Listening(turn[t].stack)

(* Only a turn that fails, and saves after the greeting, takes a greeted    *)
(* conversation back to the missing root dialog: no stale stack does, in    *)
(* whatever order turns and batches of titles save.                         *)
GreetedIsHeard == \A c \in greeted : stored[c] # <<>>

(* Nothing ends a dialog, so the stack of a conversation only grows: by two *)
(* for each greeting or "help" and by one for each "luis", never by a       *)
(* message of another kind, and however often a stale stack is saved.       *)
DepthIsPaid ==
  \A c \in Conv :
    LET came(K) == {t \in Turn : Of[t] = c /\ turn[t].phase # "none" /\ turn[t].kind \in K}
    IN Len(stored[c]) <= 2 * Cardinality(came({"added", "help"})) + Cardinality(came({"luis"}))

(* Every message is answered, except a "luis" that only adds a dialog, and  *)
(* those that are lost with the server or with a save that fails.           *)
Answered(t) ==
  \/ turn[t].phase \in {"none", "lost"}
  \/ turn[t].phase = "done" /\ (turn[t].kind # "luis" => turn[t].reply # "none")

MessageIsAnswered == []<>(\A t \in Turn : Answered(t))
=============================================================================
