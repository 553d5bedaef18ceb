---------------------------- MODULE MCReservedUnits ----------------------------
(* Four deliveries around both limits of the reserved units.               *)
EXTENDS ReservedUnits, TLC

CONSTANTS c1, c2, c3, c4

CallSymmetry == Permutations({c1, c2, c3, c4})
===============================================================================
