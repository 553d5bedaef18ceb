----------------------------- MODULE MCForms -----------------------------
EXTENDS Forms, TLC

CONSTANTS user, again, late

blank == [length |-> 0, amount |-> 0, odd |-> 0, fits |-> FALSE]
brief == [length |-> 2, amount |-> 30, odd |-> 1, fits |-> TRUE]
large == [length |-> 4, amount |-> 70, odd |-> 0, fits |-> TRUE]

MCField == {user, again, late}
MCValue == {blank, brief, large}
MCEarly == {user, again}
MCStart == blank

(* The order of numerals below 100 as texts: 10 comes before 9.             *)
Leading(n) == IF n < 10 THEN 10 * n ELSE n
MCTextOrder ==
  {<<m, n>> \in (0..99) \X (0..99) :
     Leading(m) < Leading(n) \/ (Leading(m) = Leading(n) /\ m <= n)}

Minimum(n) == [min |-> n, max |-> None]
Maximum(n) == [min |-> None, max |-> n]
Between(m, n) == [min |-> m, max |-> n]

Text(attrs) == [input |-> "text", attrs |-> attrs]

(* A name that is asked for and repeated, with a checkbox that a script     *)
(* adds; two remote fields, one of them optional; a password beside a field *)
(* that repeats one that is added later.                                    *)
MCDeclarations ==
  { (user :> Text("required" :> TRUE @@ "remote" :> TRUE @@ "minlength" :> Minimum(1)))
      @@ (again :> Text("equalto" :> user @@ "regex" :> TRUE @@ "length" :> Between(1, 5)))
      @@ (late :> [input |-> "checkbox",
                   attrs |-> ("required" :> TRUE @@ "range" :> Between(0, 50))]),
    (user :> Text("remote" :> TRUE @@ "maxlength" :> Maximum(9) @@ "number" :> TRUE))
      @@ (again :> Text("required" :> TRUE @@ "remote" :> TRUE @@ "range" :> Maximum(8))),
    (user :> Text("password" :> [min |-> 1, nonalphamin |-> 1, regex |-> None]))
      @@ (again :> Text("equalto" :> late @@ "length" :> Minimum(3)))
      @@ (late :> Text("required" :> TRUE @@ "length" :> Maximum(3))) }
=============================================================================
