------------------------------- MODULE Ledger -------------------------------
(***************************************************************************)
(* gateway/metering.py: per-run spend, with holds.  Every operation of the *)
(* code runs under the ledger's lock, so each is one step here, a formula  *)
(* over the ledger's variables that the gateway conjoins with what it does *)
(* itself in the same step.                                                *)
(***************************************************************************)
EXTENDS Integers, Functions

CONSTANTS
  Runs,                \* run ids
  MaximumRcc,          \* per run, the ceilings it is admitted with
  MaximumRequests,
  MaximumSearchCalls

ASSUME LedgerAssumption ==
  /\ MaximumRcc \in [Runs -> Nat]
  /\ MaximumRequests \in [Runs -> Nat]
  /\ MaximumSearchCalls \in [Runs -> Nat]

VARIABLES
  limits,        \* the runs that have their ceilings in the ledger
  settled,       \* settled RCC
  held,          \* reservations not yet settled or released
  requests,      \* reservations made
  searches,      \* of those, searches
  next_id,       \* the last reservation id given out
  excess,        \* history: by how much charges went beyond estimates, in all
  worst          \* history: and the one that did so most

ledger == <<limits, settled, held, requests, searches, next_id,
            excess, worst>>

Hold == [id : Nat, rcc : Nat]

LedgerTypeOK ==
  /\ limits \subseteq Runs
  /\ settled \in [Runs -> Nat]
  /\ held \in [Runs -> SUBSET Hold]
  /\ requests \in [Runs -> Nat]
  /\ searches \in [Runs -> Nat]
  /\ next_id \in Nat
  /\ excess \in [Runs -> Nat]
  /\ worst \in [Runs -> Nat]

Nothing == [r \in Runs |-> 0]

LedgerInit ==
  /\ limits = {}
  /\ settled = Nothing
  /\ held = [r \in Runs |-> {}]
  /\ requests = Nothing
  /\ searches = Nothing
  /\ next_id = 0
  /\ excess = Nothing
  /\ worst = Nothing

-----------------------------------------------------------------------------
(* What is kept of a run that is not open is nothing: `close` pops it all, *)
(* so `admit` finds the zeroes it would write.                             *)

(* Slip: reservation ids counted afresh for every run that is opened.      *)
admit_RestartsIds(r) ==
  /\ limits' = limits \cup {r}
  /\ next_id' = 0
  /\ UNCHANGED <<settled, held, requests, searches, excess, worst>>

(* admit: a run that is already open keeps its ceilings and its spend.     *)
admit(r) ==
  /\ limits' = limits \cup {r}
  /\ UNCHANGED <<settled, held, requests, searches, next_id,
                 excess, worst>>

(* close: the account goes, with whatever holds were still out; what they  *)
(* are reported to have cost is left out.                                  *)
close(r) ==
  /\ limits' = limits \ {r}
  /\ settled' = [settled EXCEPT ![r] = 0]
  /\ held' = [held EXCEPT ![r] = {}]
  /\ requests' = [requests EXCEPT ![r] = 0]
  /\ searches' = [searches EXCEPT ![r] = 0]
  /\ excess' = [excess EXCEPT ![r] = 0]
  /\ worst' = [worst EXCEPT ![r] = 0]
  /\ UNCHANGED next_id

-----------------------------------------------------------------------------
(* reserve: refuse, or hold the estimate.                                  *)

(* What a run is committed to: what it was charged, and what its holds add *)
(* up to.                                                                  *)
outstanding(r) == SumFunction([hold \in held[r] |-> hold.rcc])

spent(r) == settled[r] + outstanding(r)

(* Slip: the check against what has been settled only.                     *)
MayReserve_IgnoresHolds(r, estimate, kind) ==
  /\ r \in limits
  /\ requests[r] < MaximumRequests[r]
  /\ kind = "search" => searches[r] < MaximumSearchCalls[r]
  /\ settled[r] + estimate <= MaximumRcc[r]

MayReserve(r, estimate, kind) ==
  /\ r \in limits
  /\ requests[r] < MaximumRequests[r]
  /\ kind = "search" => searches[r] < MaximumSearchCalls[r]
  /\ spent(r) + estimate <= MaximumRcc[r]

reserve(r, estimate, kind) ==
  /\ MayReserve(r, estimate, kind)
  /\ next_id' = next_id + 1
  /\ held' = [held EXCEPT ![r] = @ \cup {[id |-> next_id', rcc |-> estimate]}]
  /\ requests' = [requests EXCEPT ![r] = @ + 1]
  /\ searches' = [searches EXCEPT ![r] = @ + (IF kind = "search" THEN 1 ELSE 0)]
  /\ UNCHANGED <<limits, settled, excess, worst>>

-----------------------------------------------------------------------------
(* settle and release: both pop the hold, by run and id.                   *)

IsHeld(r, hold) == hold \in held[r]

Over(actual, estimate) == IF actual > estimate THEN actual - estimate ELSE 0

Larger(m, n) == IF m > n THEN m ELSE n

(* Slip: the measured cost added beside the hold it was to replace.        *)
settle_KeepsHold(r, hold, actual) ==
  /\ IsHeld(r, hold)
  /\ settled' = [settled EXCEPT ![r] = @ + actual]
  /\ excess' = [excess EXCEPT ![r] = @ + Over(actual, hold.rcc)]
  /\ worst' = [worst EXCEPT ![r] = Larger(@, Over(actual, hold.rcc))]
  /\ UNCHANGED <<limits, held, requests, searches, next_id>>

(* Slip: what is settled corrected by the estimate, which it never held.   *)
settle_Corrects(r, hold, actual) ==
  /\ IsHeld(r, hold)
  /\ settled' = [settled EXCEPT ![r] = @ + actual - hold.rcc]
  /\ held' = [held EXCEPT ![r] = @ \ {hold}]
  /\ UNCHANGED <<limits, requests, searches, next_id, excess, worst>>

(* settle: a call that cost more than its estimate is charged in full.  A  *)
(* hold that is gone makes settle raise: there is no step.                 *)
settle(r, hold, actual) ==
  /\ IsHeld(r, hold)
  /\ settled' = [settled EXCEPT ![r] = @ + actual]
  /\ held' = [held EXCEPT ![r] = @ \ {hold}]
  /\ excess' = [excess EXCEPT ![r] = @ + Over(actual, hold.rcc)]
  /\ worst' = [worst EXCEPT ![r] = Larger(@, Over(actual, hold.rcc))]
  /\ UNCHANGED <<limits, requests, searches, next_id>>

-----------------------------------------------------------------------------
(* The process is gone, and the ledger with it.                            *)
lose ==
  /\ limits' = {}
  /\ settled' = Nothing
  /\ held' = [r \in Runs |-> {}]
  /\ requests' = Nothing
  /\ searches' = Nothing
  /\ next_id' = 0
  /\ excess' = Nothing
  /\ worst' = Nothing
=============================================================================
