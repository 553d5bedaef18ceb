-------------------------------- MODULE MCPortal -------------------------------
(* One page with two uploads of its own and one by somebody else.          *)
EXTENDS Portal, TLC

CONSTANTS k1, k2, o1, good, bad
===============================================================================
