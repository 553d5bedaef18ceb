---------------------------- MODULE MCVideoSummary ----------------------------
(* Three deliveries: an event delivered twice, and one of another job.     *)
EXTENDS VideoSummary, TLC

CONSTANTS x1, x2, x3, e1, e2, a1, a2

MCEventOf  == [x \in Executions |-> IF x = x3 THEN e2 ELSE e1]
MCAssetOf  == [j \in Events |-> IF j = e1 THEN a1 ELSE a2]
Twins      == Permutations({x1, x2})
MCNumPages == [a \in Assets |-> IF a = a1 THEN 2 ELSE 1]

===============================================================================
