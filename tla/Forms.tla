------------------------------ MODULE Forms ------------------------------
(* A form of OouiForms under the scripts of _ValidationScriptsPartial: the  *)
(* parsing of its attributes (jquery.validate.unobtrusive.js) and the       *)
(* validator they are handed to (jquery.validate.js), with the remote rule  *)
(* asking a service about single values while the user goes on.             *)
(*                                                                          *)
(* Not here: hidden, disabled and removed fields, the wording of messages,  *)
(* aria attributes, what moves the focus, buttons marked cancel or          *)
(* formnovalidate, which send the form unchecked (jquery.validate.js:89),   *)
(* and remote rules that ask about several fields at once.                  *)
EXTENDS FormRules, FiniteSets

CONSTANTS
  Declarations,  \* the forms a server may render: functions from fields to declarations
  Early,         \* the fields of the page as it is loaded; scripts add the others
  Start,         \* the value of an untouched field
  MaxEdits,      \* bound: changes of a value
  MaxResets,     \* bound: resets of the form
  MaxFailures    \* bound: remote calls that fail

VARIABLES
  declared,   \* field -> its declaration
  present,    \* the fields on the page
  options,    \* validationInfo(form).options.rules: parsed field -> rules
  settings,   \* the validator's own copy of them, None without a validator
  val,        \* field -> value
  validator,  \* what the validator remembers, see FormsInit
  sent,       \* the values the browser sent, None while the page is open
  granted,    \* history: <<field, value>> the service accepted
  unblurred,  \* history: fields changed since they lost the focus
  awaiting,   \* history: a click waits for the service and nothing happened since
  used        \* changes, resets and failures so far

vars == <<declared, present, options, settings, val, validator, sent, granted,
          unblurred, awaiting, used>>

ASSUME FormsAssumption ==
  /\ Early \subseteq Field /\ Start \in Value /\ Blank(Start)
  /\ IsFiniteSet(Field) /\ None \notin Value \cup Field \cup [Field -> Value]
  /\ MaxEdits \in Nat /\ MaxResets \in Nat /\ MaxFailures \in Nat

Untried == [old |-> None, valid |-> TRUE]

FormsInit ==
  /\ declared \in Declarations
  /\ present = Early
  /\ options = NoRules
  /\ settings = None
  /\ val = [f \in Field |-> Start]
  /\ validator = [mark |-> {},                           \* fields whose message shows an error
                  summary |-> FALSE,                     \* the summary lists errors
                  previous |-> [f \in Field |-> Untried],
                  live |-> [f \in Field |-> None],       \* the value a request under way asks about
                  pending |-> {},
                  pendingRequest |-> 0,
                  formSubmitted |-> FALSE,
                  submitted |-> {},                      \* fields that once failed
                  lastElement |-> None,
                  blur |-> [f \in Field |-> None]]       \* whom the target of an equalTo rechecks
  /\ sent = None
  /\ granted = {}
  /\ unblurred = {}
  /\ awaiting = FALSE
  /\ used = [edits |-> 0, resets |-> 0, failures |-> 0]

Enforced == IF settings = None THEN {} ELSE DOMAIN settings

-----------------------------------------------------------------------------
(* Parsing *)

parseElement(S) ==
  [f \in DOMAIN options \cup S |->
     IF f \in S THEN adapters(declared[f], present) ELSE options[f]]

(* validate() returns the validator the form already has. *)
attachValidation(rules) == IF settings = None THEN rules ELSE settings

parse(S) ==
  /\ S # {} /\ S \subseteq present
  /\ options' = parseElement(S)
  /\ settings' = attachValidation(options')
  /\ awaiting' = FALSE
  /\ UNCHANGED <<declared, present, val, validator, sent, granted, unblurred, used>>

(* The document is ready, or a script parses what it added. *)
Parse == sent = None /\ (parse(present) \/ \E f \in present \ Early : parse({f}))

ParseElement(f, skipAttach) ==
  /\ sent = None
  /\ f \in present \ Early
  /\ options' = parseElement({f})
  /\ settings' = IF skipAttach THEN settings ELSE attachValidation(options')
  /\ awaiting' = FALSE
  /\ UNCHANGED <<declared, present, val, validator, sent, granted, unblurred, used>>

AddField(f) ==
  /\ sent = None
  /\ f \in DOMAIN declared \ present
  /\ present' = present \cup {f}
  /\ awaiting' = FALSE
  /\ UNCHANGED <<declared, options, settings, val, validator, sent, granted, unblurred, used>>

-----------------------------------------------------------------------------
(* Checking the fields of S.  The values w are given, so that a change can  *)
(* be checked in the step that makes it.                                    *)

(* Mutant: the service is asked about the first value only. *)
VerdictOfAnyValue(s, f, w) ==
  CASE ~ Passes(settings[f], w[f], w) -> "error"
    [] "remote" \in DOMAIN settings[f] /\ ~ Blank(w[f]) /\ s.previous[f].old = None
         /\ Passes(settings[f], w[f], w) -> "pending"
    [] OTHER -> "success"

Verdict(s, f, w) ==
  LET previous == s.previous[f]
      passes == Passes(settings[f], w[f], w)
      asks == "remote" \in DOMAIN settings[f] /\ ~ Blank(w[f])
  IN CASE ~ passes -> "error"
       [] passes /\ asks /\ previous.old # w[f] -> "pending"
       [] passes /\ asks /\ previous.old = w[f] /\ ~ previous.valid -> "error"
       [] OTHER -> "success"

Judged(s, S, w, verdict) == {f \in S \cap Enforced : Verdict(s, f, w) = verdict}

(* A rule equalTo that is reached has the other field recheck this one when *)
(* it loses the focus.  It is reached when every rule before it holds: all  *)
(* of them but remote, in a field that is not a password's as well.         *)
Rebinds(f, t, w) ==
  /\ "equalTo" \in DOMAIN settings[f]
  /\ settings[f]["equalTo"] = t
  /\ \A rule \in DOMAIN settings[f] \ {"remote", "equalTo"} :
       Holds(rule, settings[f][rule], w[f], w)

(* What the page shows.  A message is put into its container as an error    *)
(* each time, for its label is not found again (it lost the class it is     *)
(* looked for with); a success then empties and clears the container.       *)
onError(mark, S) == mark \cup S

onSuccess(mark, S) == mark \ S

onErrors(s) == [s EXCEPT !.summary = TRUE]

showErrors(mark, error, success) == onSuccess(onError(mark, error \cup success), success)

(* Mutants: the field is not noted; every request is counted. *)
startUnnoted(s, asked) ==
  [s EXCEPT !.pendingRequest = @ + Cardinality(asked \ s.pending)]

startCountsAll(s, asked) ==
  [s EXCEPT !.pending = @ \cup asked, !.pendingRequest = @ + Cardinality(asked)]

(* startRequest: a field is counted once while its answer is outstanding.   *)
startRequests(s, asked) ==
  [s EXCEPT !.pending = @ \cup asked,
            !.pendingRequest = @ + Cardinality(asked \ s.pending)]

check(s, S, w) ==
  LET error == Judged(s, S, w, "error")
      success == Judged(s, S, w, "success")
      asked == Judged(s, S, w, "pending")
      binders(t) == {f \in S \cap Enforced : Rebinds(f, t, w)}
  IN [startRequests(s, asked) EXCEPT
       !.mark = showErrors(@, error, success),
       !.submitted = @ \cup error,
       !.previous = [f \in Field |-> IF f \in asked THEN [old |-> w[f], valid |-> @[f].valid] ELSE @[f]],
       !.live = [f \in Field |-> IF f \in asked THEN w[f] ELSE @[f]],
       !.blur = [t \in Field |-> IF binders(t) # {} THEN CHOOSE f \in binders(t) : TRUE ELSE @[t]]]

element(s, f, w) == [check(s, {f}, w) EXCEPT !.lastElement = f]

formValid(s) == Judged(s, Enforced, val, "error") = {}

form(s) ==
  IF formValid(s) THEN check(s, Enforced, val) ELSE onErrors(check(s, Enforced, val))

-----------------------------------------------------------------------------
(* The user *)

Edit(f, v) ==
  /\ sent = None
  /\ used.edits < MaxEdits
  /\ f \in present /\ v # val[f]
  /\ val' = [val EXCEPT ![f] = v]
  /\ \/ UNCHANGED validator      \* pasted, or filled in by the browser or a script
     \/ /\ settings # None       \* typed
        /\ validator' = IF f \in validator.submitted \cup {validator.lastElement}
                        THEN element(validator, f, val') ELSE validator
  /\ unblurred' = unblurred \cup {f}
  /\ awaiting' = FALSE
  /\ used' = [used EXCEPT !.edits = @ + 1]
  /\ UNCHANGED <<declared, present, options, settings, sent, granted>>

(* Mutant: the field that repeats this one is not rechecked. *)
FocusOutAlone(f) ==
  /\ sent = None
  /\ f \in present
  /\ validator' = IF settings # None /\ (f \in validator.submitted \/ ~ Blank(val[f]))
                  THEN element(validator, f, val) ELSE validator
  /\ unblurred' = unblurred \ {f}
  /\ awaiting' = (awaiting /\ validator'.mark = {})
  /\ UNCHANGED <<declared, present, options, settings, val, sent, granted, used>>

(* blur comes before focusout.  Checkboxes, which leaving does not check    *)
(* (jquery.validate.js:265), are checked here like any other field.         *)
FocusOut(f) ==
  LET bound == validator.blur[f]
      s == IF bound = None THEN validator ELSE element(validator, bound, val)
  IN /\ sent = None
     /\ f \in present
     /\ validator' = IF settings # None /\ (f \in validator.submitted \/ ~ Blank(val[f]))
                     THEN element(s, f, val) ELSE s
     /\ unblurred' = unblurred \ {f}
     /\ awaiting' = (awaiting /\ validator'.mark = {})
     /\ UNCHANGED <<declared, present, options, settings, val, sent, granted, used>>

Submit ==
  LET s == form(validator) IN
  /\ sent = None
  /\ IF settings = None
     THEN sent' = val /\ UNCHANGED <<validator, awaiting>>
     ELSE IF ~ formValid(validator)
     THEN validator' = s /\ awaiting' = FALSE /\ UNCHANGED sent
     ELSE IF s.pendingRequest > 0
     THEN /\ validator' = [s EXCEPT !.formSubmitted = TRUE]
          /\ awaiting' = (s.mark = {} /\ \A f \in s.pending : s.live[f] # None)
          /\ UNCHANGED sent
     ELSE validator' = s /\ sent' = val /\ awaiting' = FALSE
  /\ UNCHANGED <<declared, present, options, settings, val, granted, unblurred, used>>

onReset(s) ==
  [s EXCEPT !.submitted = {}, !.lastElement = None,
            !.previous = [f \in Field |-> Untried],
            !.mark = {}, !.summary = FALSE]

(* The browser puts the values back once the handlers have run. *)
Reset ==
  /\ sent = None
  /\ used.resets < MaxResets
  /\ val' = [f \in Field |-> Start]
  /\ validator' = IF settings = None THEN validator ELSE onReset(validator)
  /\ unblurred' = {}
  /\ awaiting' = FALSE
  /\ used' = [used EXCEPT !.resets = @ + 1]
  /\ UNCHANGED <<declared, present, options, settings, sent, granted>>

-----------------------------------------------------------------------------
(* The service answers, or the call fails, which nothing handles. *)

(* A request whose value was asked about before a reset changes the old     *)
(* record of the previous value, which nobody reads any more.               *)
Answered(f, valid) ==
  [validator EXCEPT
     !.mark = IF valid THEN showErrors(@, {}, {f}) ELSE showErrors(@, {f}, {}),
     !.previous[f].valid = IF validator.previous[f].old = validator.live[f] THEN valid ELSE @,
     !.live[f] = None,
     !.pending = @ \ {f},
     !.pendingRequest = IF @ > 0 THEN @ - 1 ELSE 0]

(* Mutant: a submit that was held back is forgotten. *)
stopForgets(s, valid) == validator' = [s EXCEPT !.formSubmitted = FALSE] /\ UNCHANGED sent

stopRequest(s, valid) ==
  IF s.pendingRequest > 0 \/ ~ s.formSubmitted
  THEN validator' = s /\ UNCHANGED sent
  ELSE IF ~ valid
  THEN validator' = [onErrors(s) EXCEPT !.formSubmitted = FALSE] /\ UNCHANGED sent
  ELSE IF ~ formValid(s)
  THEN validator' = form(s) /\ UNCHANGED sent
  ELSE LET twice == form(form(s)) IN   \* the handler of submit checks the form once more
       /\ validator' = [twice EXCEPT !.formSubmitted = FALSE]
       /\ sent' = IF formValid(form(s)) /\ twice.pendingRequest = 0 THEN val ELSE None

RemoteAnswer(f, valid) ==
  /\ sent = None
  /\ validator.live[f] # None
  /\ granted' = IF valid THEN granted \cup {<<f, validator.live[f]>>} ELSE granted
  /\ stopRequest(Answered(f, valid), valid)
  /\ awaiting' = (awaiting /\ sent' = None /\ validator'.mark = {})
  /\ UNCHANGED <<declared, present, options, settings, val, unblurred, used>>

RemoteFails(f) ==
  /\ sent = None
  /\ validator.live[f] # None
  /\ used.failures < MaxFailures
  /\ validator' = [validator EXCEPT !.live[f] = None]
  /\ awaiting' = FALSE
  /\ used' = [used EXCEPT !.failures = @ + 1]
  /\ UNCHANGED <<declared, present, options, settings, val, sent, granted, unblurred>>

-----------------------------------------------------------------------------
Next ==
  \/ Parse
  \/ Submit
  \/ Reset
  \/ \E f \in Field :
       \/ AddField(f)
       \/ \E skipAttach \in BOOLEAN : ParseElement(f, skipAttach)
       \/ \E v \in Value : Edit(f, v)
       \/ FocusOut(f)
       \/ \E valid \in BOOLEAN : RemoteAnswer(f, valid)
       \/ RemoteFails(f)

(* A call that is under way ends: the browser answers it or gives it up. *)
Spec == FormsInit /\ [][Next]_vars
          /\ \A f \in Field : WF_vars((\E valid \in BOOLEAN : RemoteAnswer(f, valid)) \/ RemoteFails(f))

-----------------------------------------------------------------------------
(* The form remembers only values, fields and rules of its own, and has a   *)
(* request under way only for a field that is pending.                      *)
TypeOK ==
  /\ present \subseteq Field
  /\ DOMAIN options \subseteq present
  /\ Enforced \subseteq DOMAIN options
  /\ val \in [Field -> Value]
  /\ validator \in [mark : SUBSET Enforced, summary : BOOLEAN,
                    previous : [Field -> [old : Value \cup {None}, valid : BOOLEAN]],
                    live : [Field -> Value \cup {None}],
                    pending : SUBSET Enforced, pendingRequest : Nat,
                    formSubmitted : BOOLEAN, submitted : SUBSET Enforced,
                    lastElement : Field \cup {None},
                    blur : [Field -> Enforced \cup {None}]]
  /\ \A f \in Field : validator.live[f] # None => f \in validator.pending
  /\ sent \in [Field -> Value] \cup {None}
  /\ granted \subseteq Enforced \X Value
  /\ awaiting => validator.formSubmitted

(* jquery.validate.js:927 expects that "sometimes synchronization fails":   *)
(* the counter that holds a submit back is always the number of fields      *)
(* whose answer is outstanding, over aborted, failed and late requests.     *)
CountIsPending == validator.pendingRequest = Cardinality(validator.pending)

(* What a form is sent with passes the rules of every enforced field, and   *)
(* the service accepted that very value of each remote one: edits behind    *)
(* the validator's back, aborted and late answers, resets and the two       *)
(* checks of a submit that was held back notwithstanding.  The button is    *)
(* not one that skips validation, and the service judges a value by itself. *)
SentIsAccepted ==
  sent # None => \A f \in Enforced :
    /\ Passes(settings[f], sent[f], sent)
    /\ ("remote" \in DOMAIN settings[f] /\ ~ Blank(sent[f])) => <<f, sent[f]>> \in granted

(* The rules of an enforced field accept only values that are what its      *)
(* attributes mean, whenever it was parsed.  Left out: declarations that    *)
(* are not plain, and an equalto whose other field came after the field was *)
(* parsed, which is lost.                                                   *)
PlainDeclarations ==
  UNION {{d \in {page[f] : f \in DOMAIN page} : Plain(d)} : page \in Declarations}

RulesMeanAttributes ==
  \A f \in Enforced, v \in Value :
    LET d == declared[f]
        w == [val EXCEPT ![f] = v]
    IN ( /\ d \in PlainDeclarations
         /\ "equalto" \in DOMAIN d.attrs => d.attrs["equalto"] \in Early )
         => (Passes(settings[f], v, w) => Means(d, v, w))

(* A confirmation that was once compared is compared again when the field   *)
(* it repeats is left (jquery.validate.js:1294): two fields left by the     *)
(* user never differ without a message, but for a confirmation that was     *)
(* emptied before it ever failed, which leaving it does not check           *)
(* (jquery.validate.js:265).  A remote rule on the confirmation may clear   *)
(* the message and is left out.                                             *)
ConfirmIsRechecked ==
  \A t \in Field : LET f == validator.blur[t] IN
    ( /\ f # None /\ "remote" \notin DOMAIN settings[f]
      /\ {f, t} \cap unblurred = {}
      /\ ~ Blank(val[f]) \/ f \in validator.submitted )
      => val[f] = val[t] \/ f \in validator.mark

(* A click that waits for the service, in a form nobody touches afterwards, *)
(* ends with the form sent or an error shown, unless a call fails.          *)
SubmitSettles == []<> ~ awaiting

=============================================================================
