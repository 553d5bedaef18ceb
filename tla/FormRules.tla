---------------------------- MODULE FormRules ----------------------------
(* How the form scripts of OouiForms read the data-val-* attributes of a    *)
(* field and what the rules they become accept: the adapters of             *)
(* jquery.validate.unobtrusive.js and the methods of jquery.validate.js.    *)
(*                                                                          *)
(* A declaration d is what the server rendered: d.input, the kind of input, *)
(* and d.attrs, from the names of the adapters present to their parameters. *)
(* Rules are functions from rule names to parameters.  A value is what the  *)
(* methods can tell of a text: its length, the number it spells, how many   *)
(* of its characters are no word characters, and whether it fits what the   *)
(* field asks for (its pattern; its being an address, a date, a number...). *)
EXTENDS Integers

CONSTANTS
  Field, Value, None,
  TextOrder  \* <<m, n>> when the numeral of m, as a text, does not come after that of n

ASSUME ValueAssumption ==
  /\ Value \subseteq [length : Nat, amount : Int, odd : Nat, fits : BOOLEAN]
  /\ TextOrder \subseteq Int \X Int

Blank(v) == v.length = 0

-----------------------------------------------------------------------------
(* Adapters: each yields the rules of its own attribute.                    *)

NoRules == [rule \in {} |-> TRUE]

setValidationValues(rule, value) == [r \in {rule} |-> value]

addBool(attrs, name) ==
  IF name \in DOMAIN attrs THEN setValidationValues(name, TRUE) ELSE NoRules

(* regex, whose only parameter is the pattern: v.fits stands for matching.  *)
addSingleVal(attrs, name) ==
  IF name \in DOMAIN attrs THEN setValidationValues(name, attrs[name]) ELSE NoRules

(* Mutant: the bounds change places. *)
addMinMaxSwapped(attrs, name, minRule, maxRule, minMaxRule) ==
  IF name \notin DOMAIN attrs THEN NoRules
  ELSE LET min == attrs[name].min
           max == attrs[name].max
       IN CASE min # None /\ max # None -> setValidationValues(minMaxRule, <<min, max>>)
            [] min # None /\ max = None -> setValidationValues(maxRule, min)
            [] min = None /\ max # None -> setValidationValues(minRule, max)
            [] OTHER -> NoRules

addMinMax(attrs, name, minRule, maxRule, minMaxRule) ==
  IF name \notin DOMAIN attrs THEN NoRules
  ELSE LET min == attrs[name].min
           max == attrs[name].max
       IN CASE min # None /\ max # None -> setValidationValues(minMaxRule, <<min, max>>)
            [] min # None /\ max = None -> setValidationValues(minRule, min)
            [] min = None /\ max # None -> setValidationValues(maxRule, max)
            [] OTHER -> NoRules

(* The other field is looked up while the attribute is parsed.  When it is  *)
(* not there yet the rule is undefined, and is lost when the rules are copied. *)
adaptEqualTo(attrs, inputs) ==
  IF "equalto" \in DOMAIN attrs /\ attrs["equalto"] \in inputs
  THEN setValidationValues("equalTo", attrs["equalto"])
  ELSE NoRules

adaptRequired(attrs, input) ==
  IF "required" \in DOMAIN attrs /\ input # "checkbox"
  THEN setValidationValues("required", TRUE)
  ELSE NoRules

(* The service is asked about the field's own value; the values of other    *)
(* fields that "additionalfields" may add to the question are left out, and *)
(* with them verdicts that a change of another field makes stale.           *)
adaptRemote(attrs) ==
  IF "remote" \in DOMAIN attrs THEN setValidationValues("remote", TRUE) ELSE NoRules

adaptPassword(attrs) ==
  IF "password" \notin DOMAIN attrs THEN NoRules
  ELSE LET p == attrs["password"]
           given == [minlength |-> p.min, nonalphamin |-> p.nonalphamin, regex |-> p.regex]
       IN [rule \in {r \in DOMAIN given : given[r] # None} |-> given[rule]]

BoolAdapter == {"creditcard", "date", "digits", "email", "number", "url"}

Bools(attrs) == [name \in BoolAdapter \cap DOMAIN attrs |-> addBool(attrs, name)[name]]

(* All adapters in their order.  Every element gets the rule __dummy__ last. *)
written(d, inputs) ==
  << addSingleVal(d.attrs, "regex"),
     Bools(d.attrs),
     addMinMax(d.attrs, "length", "minlength", "maxlength", "rangelength"),
     addMinMax(d.attrs, "range", "min", "max", "range"),
     addMinMax(d.attrs, "minlength", "minlength", "undefined", "undefined"),
     addMinMax(d.attrs, "maxlength", "minlength", "maxlength", "undefined"),
     adaptEqualTo(d.attrs, inputs),
     adaptRequired(d.attrs, d.input),
     adaptRemote(d.attrs),
     adaptPassword(d.attrs),
     setValidationValues("__dummy__", TRUE) >>

(* A later adapter overrides the rules of an earlier one.                   *)
adapters(d, inputs) ==
  LET rules == written(d, inputs)
      last(rule) == CHOOSE i \in DOMAIN rules :
                      /\ rule \in DOMAIN rules[i]
                      /\ \A j \in DOMAIN rules : rule \in DOMAIN rules[j] => j <= i
  IN [rule \in UNION {DOMAIN rules[i] : i \in DOMAIN rules} |-> rules[last(rule)][rule]]

-----------------------------------------------------------------------------
(* Methods.  Most of them accept an empty value (optional); equalTo and     *)
(* nonalphamin do not ask.  The parameters of min and max stay the texts    *)
(* they were read as, so those two compare texts; the others' are numbers.  *)

regex(v) == Blank(v) \/ v.fits

nonalphamin(v, least) == v.odd > 0 /\ v.odd >= least

Holds(rule, param, v, val) ==
  CASE rule = "required" -> ~ Blank(v)
    [] rule = "minlength" -> Blank(v) \/ v.length >= param
    [] rule = "maxlength" -> Blank(v) \/ v.length <= param
    [] rule = "rangelength" -> Blank(v) \/ (v.length >= param[1] /\ v.length <= param[2])
    [] rule = "range" -> Blank(v) \/ (v.amount >= param[1] /\ v.amount <= param[2])
    [] rule = "min" -> Blank(v) \/ <<param, v.amount>> \in TextOrder
    [] rule = "max" -> Blank(v) \/ <<v.amount, param>> \in TextOrder
    [] rule \in BoolAdapter \cup {"regex"} -> regex(v)
    [] rule = "nonalphamin" -> nonalphamin(v, param)
    [] rule = "equalTo" -> v = val[param]
    [] OTHER -> TRUE

(* Every rule but remote, which the service answers. *)
Passes(rules, v, val) ==
  \A rule \in DOMAIN rules \ {"remote"} : Holds(rule, rules[rule], v, val)

-----------------------------------------------------------------------------
(* What the attributes mean, said without the rules.                        *)

Within(n, bounds) ==
  (bounds.min # None => n >= bounds.min) /\ (bounds.max # None => n <= bounds.max)

Means(d, v, val) ==
  /\ ("required" \in DOMAIN d.attrs /\ d.input # "checkbox") => ~ Blank(v)
  /\ "equalto" \in DOMAIN d.attrs => v = val[d.attrs["equalto"]]
  /\ ~ Blank(v) =>
       /\ \A name \in {"length", "minlength", "maxlength"} \cap DOMAIN d.attrs :
            Within(v.length, d.attrs[name])
       /\ "range" \in DOMAIN d.attrs => Within(v.amount, d.attrs["range"])
       /\ (BoolAdapter \cup {"regex"}) \cap DOMAIN d.attrs # {} => v.fits
  /\ ("password" \in DOMAIN d.attrs /\ ~ Blank(v)) =>
       LET p == d.attrs["password"] IN
       /\ p.min # None => v.length >= p.min
       /\ p.nonalphamin # None => v.odd >= p.nonalphamin
       /\ p.regex # None => v.fits

(* Declarations whose rules can mean the same: no two adapters write one    *)
(* rule, a minimum or maximum length has the bound of its name, and a range *)
(* has both, as the annotations of the server render them.                  *)
Plain(d) ==
  /\ LET rules == written(d, Field) IN
     \A i, j \in DOMAIN rules : i # j => DOMAIN rules[i] \cap DOMAIN rules[j] = {}
  /\ "minlength" \in DOMAIN d.attrs => d.attrs["minlength"].max = None
  /\ "maxlength" \in DOMAIN d.attrs => d.attrs["maxlength"].min = None
  /\ "range" \in DOMAIN d.attrs => d.attrs["range"].min # None /\ d.attrs["range"].max # None
=============================================================================
