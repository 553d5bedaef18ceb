----------------------------- MODULE ReservedUnits -----------------------------
(***************************************************************************)
(* The encoding reserved units of MediaServices.Demo.  ScaleUnits.Run      *)
(* answers every job state event, and a job that is being processed makes  *)
(* it scale by one unit: down as it stands, up by the call that is kept    *)
(* commented out beside it.  Both are a GET, a PUT of a number computed    *)
(* from the answer, and a GET of the result, with other invocations in     *)
(* between; Media Services keeps one number, and the last PUT wins.        *)
(***************************************************************************)
EXTENDS Integers, FiniteSets

CONSTANTS
  Calls,      \* invocations of Run, one per delivery of an event
  Scalings,   \* the operations of MediaServicesHelper that Run may call
  MaxInitial  \* bound: units reserved before the first call

ASSUME UnitsAssumption ==
  /\ IsFiniteSet(Calls)
  /\ Scalings \subseteq {"up", "down"}
  /\ MaxInitial \in Nat

VARIABLES
  initial,  \* the units before the first call
  units,    \* CurrentReservedUnits, as the service keeps it
  scaling,  \* per call: the operation it performs
  at,       \* per call: where it is
  read,     \* per call: what its first GET answered
  applied,  \* history: calls whose PUT reached the service
  raced     \* history: a GET was answered between another call's GET and PUT

unitsVars == <<initial, units, scaling, at, read, applied, raced>>

ScaleUpLimit == 4

UnitsInit ==
  /\ initial \in 0..MaxInitial
  /\ units = initial
  /\ scaling \in [Calls -> Scalings]
  /\ at = [c \in Calls |-> "none"]
  /\ read = [c \in Calls |-> 0]
  /\ applied = {}
  /\ raced = FALSE

Proceed(c, to) == at' = [at EXCEPT ![c] = to]

Run(c) ==
  /\ at[c] = "none"
  /\ \E state \in {"Scheduled", "Processing"} :
       Proceed(c, IF state = "Processing" THEN "get" ELSE "ignored")
  /\ UNCHANGED <<initial, units, scaling, read, applied, raced>>

(* The tests of ScaleUpReservedUnits and ScaleDownReservedUnits.           *)
MayScaleFromFive(s, n)  == IF s = "up" THEN n <= ScaleUpLimit + 1 ELSE n > 0
MayScale(s, n)          == IF s = "up" THEN n <= ScaleUpLimit ELSE n > 0

ScaledUp(s, n) == n + 1
Scaled(s, n)   == IF s = "up" THEN n + 1 ELSE n - 1

Get(c) ==
  /\ at[c] = "get"
  /\ read' = [read EXCEPT ![c] = units]
  /\ Proceed(c, IF MayScale(scaling[c], units) THEN "put" ELSE "done")
  /\ raced' = (raced \/ \E d \in Calls : at[d] = "put")
  /\ UNCHANGED <<initial, units, scaling, applied>>

(* IncreaseReservedUnits sets the number, whichever way it goes.  When the *)
(* answer does not arrive the number is set all the same.                  *)
Put(c) ==
  /\ at[c] = "put"
  /\ units' = Scaled(scaling[c], read[c])
  /\ applied' = applied \cup {c}
  /\ \E to \in {"getAgain", "threw"} : Proceed(c, to)
  /\ UNCHANGED <<initial, scaling, read, raced>>

GetAgain(c) ==
  /\ at[c] = "getAgain"
  /\ Proceed(c, "done")
  /\ UNCHANGED <<initial, units, scaling, read, applied, raced>>

(* A request fails, or EnsureSuccessStatusCode throws at its answer.       *)
RequestThrows(c) ==
  /\ at[c] \in {"get", "put", "getAgain"}
  /\ Proceed(c, "threw")
  /\ UNCHANGED <<initial, units, scaling, read, applied, raced>>

UnitsNext ==
  \E c \in Calls : Run(c) \/ Get(c) \/ Put(c) \/ GetAgain(c) \/ RequestThrows(c)

UnitsSpec == UnitsInit /\ [][UnitsNext]_unitsVars

-----------------------------------------------------------------------------

(* The types of the variables; a call that is going to PUT read a number   *)
(* that its operation may scale.                                           *)
UnitsTypeOK ==
  /\ initial \in 0..MaxInitial
  /\ units \in Nat
  /\ scaling \in [Calls -> Scalings]
  /\ at \in [Calls -> {"none", "ignored", "get", "put", "getAgain", "done", "threw"}]
  /\ read \in [Calls -> Nat]
  /\ applied \subseteq Calls
  /\ raced \in BOOLEAN

(* However stale the number a call read has become when it is put, the     *)
(* units are never negative and never exceed five, unless there were more  *)
(* to begin with.                                                          *)
UnitsInRange ==
  0 <= units /\ (units <= ScaleUpLimit + 1 \/ units <= initial)

Applied(s) == Cardinality({c \in applied : scaling[c] = s})

(* A race loses updates and never invents one: the units differ from the   *)
(* initial ones by no more than the calls that were applied in that        *)
(* direction.                                                              *)
NothingInvented ==
  initial - Applied("down") <= units /\ units <= initial + Applied("up")

(* Both, for every interleaving. *)
UnitsAreAccountedFor == UnitsInRange /\ NothingInvented

(* Only a race loses an update: as long as no call reads between another   *)
(* call's GET and PUT, every PUT that reached the service counts, also the *)
(* one whose answer was lost.                                              *)
OnlyRacesLose ==
  ~raced => units = initial + Applied("up") - Applied("down")
===============================================================================
