--------------------------- MODULE RoundLifecycle ---------------------------
(***************************************************************************)
(* What the driver promises of a round, without saying how: its five steps *)
(* complete one at a time and in order, none before the chain has reached  *)
(* the window the scheduler opens for it, and a round that has been given  *)
(* up on, or has completed, is never touched again.                        *)
(*                                                                         *)
(* The promise is silent about closing: see README.md, "What the windows   *)
(* do not bound".                                                          *)
(***************************************************************************)
EXTENDS Cycle

CONSTANT Rounds   \* epochs

VARIABLES
  clock,      \* the chain's head block
  progress,   \* how many of a round's steps are recorded as done
  given_up    \* whether the round is recorded as abandoned

lvars == <<clock, progress, given_up>>

LInit ==
  /\ clock \in Nat
  /\ progress = [r \in Rounds |-> 0]
  /\ given_up = [r \in Rounds |-> FALSE]

InProgress(r) == ~ given_up[r] /\ progress[r] < SUBMIT_WEIGHTS

LTimePasses ==
  /\ clock' \in Nat
  /\ clock < clock'
  /\ UNCHANGED <<progress, given_up>>

LAdvance(r) ==
  /\ InProgress(r)
  /\ windows[progress[r] + 1].opens <= offset_in(r, clock)
  /\ progress' = [progress EXCEPT ![r] = @ + 1]
  /\ UNCHANGED <<clock, given_up>>

LGiveUp(r) ==
  /\ InProgress(r)
  /\ given_up' = [given_up EXCEPT ![r] = TRUE]
  /\ UNCHANGED <<clock, progress>>

LNext == LTimePasses \/ \E r \in Rounds : LAdvance(r) \/ LGiveUp(r)

LSpec == LInit /\ [][LNext]_lvars
=============================================================================
