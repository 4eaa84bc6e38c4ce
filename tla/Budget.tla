------------------------------- MODULE Budget -------------------------------
(***************************************************************************)
(* What the gateway promises of a run's budget, without saying how: while  *)
(* a run is open, what is committed to it (charged, or held for calls that *)
(* are out) grows only by a call that fits under the ceiling together with *)
(* everything committed before it, or by what a call already taken on cost *)
(* beyond its estimate; and a run starts from nothing when it is opened.   *)
(***************************************************************************)
EXTENDS Integers

CONSTANTS
  Runs,         \* run ids
  MaximumRcc    \* the RCC ceiling of each run

VARIABLES
  active,       \* the runs that are open
  committed,    \* charged plus held, per run
  overrun       \* what calls have cost beyond their estimates, per run

bvars == <<active, committed, overrun>>

BInit ==
  /\ active = {}
  /\ committed = [r \in Runs |-> 0]
  /\ overrun = [r \in Runs |-> 0]

BOpen(r) ==
  /\ r \notin active
  /\ active' = active \cup {r}
  /\ UNCHANGED <<committed, overrun>>

Only(r) == committed' = [committed EXCEPT ![r] = committed'[r]]

(* A call is taken on.                                                     *)
BTake(r) ==
  /\ r \in active
  /\ Only(r)
  /\ committed[r] <= committed'[r]
  /\ committed'[r] <= MaximumRcc[r]
  /\ UNCHANGED <<active, overrun>>

(* A call turned out cheaper than it was taken on for ...                  *)
BGiveBack(r) ==
  /\ r \in active
  /\ Only(r)
  /\ committed'[r] <= committed[r]
  /\ UNCHANGED <<active, overrun>>

(* ... or dearer: the provider has billed it, so it is charged in full.    *)
BOverrun(r) ==
  /\ r \in active
  /\ Only(r)
  /\ committed[r] <= committed'[r]
  /\ overrun' = [overrun EXCEPT ![r] = @ + committed'[r] - committed[r]]
  /\ UNCHANGED active

(* Runs are closed one by one, or lost all at once.                        *)
BClose(S) ==
  /\ active' = active \ S
  /\ committed' = [r \in Runs |-> IF r \in S THEN 0 ELSE committed[r]]
  /\ overrun' = [r \in Runs |-> IF r \in S THEN 0 ELSE overrun[r]]

BNext ==
  \/ \E r \in Runs : BOpen(r) \/ BTake(r) \/ BGiveBack(r) \/ BOverrun(r)
  \/ \E S \in SUBSET Runs : BClose(S)

BSpec == BInit /\ [][BNext]_bvars
=============================================================================
