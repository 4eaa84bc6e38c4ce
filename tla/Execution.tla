----------------------------- MODULE Execution -----------------------------
(***************************************************************************)
(* EXECUTE: execute_step of validator/__main__.py around execute_round of  *)
(* validator/execution.py.                                                 *)
(*                                                                         *)
(* Every laboratory meets every challenge, each meeting a task on one      *)
(* event loop, a semaphore bounding how many have begun.  A task awaits    *)
(* the gateway's answers to its admission and its close; in between it     *)
(* runs its container with a blocking call, which stops the loop, and with *)
(* it every other task, until the container is gone.                       *)
(*                                                                         *)
(* Time is counted only while a container runs: the awaits have a timeout  *)
(* that is short beside it.  The execution window closes at any time.      *)
(***************************************************************************)
EXTENDS Submissions, FiniteSets

CONSTANTS
  Challenges,          \* the pack, by position
  References,          \* {REFERENCE_UID}, or {} in a season without one
  concurrency,
  wall_time_seconds,   \* what a container may run, from its start
  kill_grace_seconds,
  MaxDeaths            \* bound: how often the process dies

REFERENCE_UID == -1

ASSUME ExecutionAssumption ==
  /\ Challenges \subseteq Nat
  /\ References \subseteq {REFERENCE_UID}
  /\ concurrency \in Int
  /\ wall_time_seconds \in Nat
  /\ kill_grace_seconds \in Nat
  /\ MaxDeaths \in Nat

VARIABLES
  stage,      \* per task, where it is
  verdict,    \* per task, what is or will be recorded of it
  ran,        \* how long the container that has the loop has run
  failed,     \* a task has raised
  closed,     \* the chain has reached the deadline block
  overtime,   \* history: time spent in containers since then
  document    \* the store: what was written for SCORE

round   == <<stage, verdict, ran, failed>>
outside == <<closed, overtime, document>>
vars    == <<at, outcome, preparation, provider, deaths, round, outside>>

-----------------------------------------------------------------------------
Tasks == [uid : Uids \cup References, challenge : Challenges]

Stage == {"absent", "queued", "admitting", "contained", "closing", "ended"}

Verdict == {"none", "measured", "timed_out", "not_attempted", "window_closed"}

Blank == [t \in Tasks |-> "none"]

TypeOK ==
  /\ SubmissionsTypeOK
  /\ stage \in [Tasks -> Stage]
  /\ verdict \in [Tasks -> Verdict]
  /\ ran \in 0 .. wall_time_seconds + kill_grace_seconds
  /\ failed \in BOOLEAN
  /\ closed \in BOOLEAN
  /\ overtime \in Nat
  /\ document \in [Tasks -> Verdict]

Nobody == /\ stage' = [t \in Tasks |-> "absent"]
          /\ verdict' = Blank
          /\ ran' = 0
          /\ failed' = FALSE

Init ==
  /\ SubmissionsInit
  /\ stage = [t \in Tasks |-> "absent"]
  /\ verdict = Blank
  /\ ran = 0
  /\ failed = FALSE
  /\ closed = FALSE
  /\ overtime = 0
  /\ document = Blank

-----------------------------------------------------------------------------
(* execute_step up to execute_round *)

Submission(u) == RefuseUnread(u) \/ Prepare(u) \/ PrepareFails(u) \/ PrepareRaises(u)

(* The reference's credential or docker's network is missing: the step     *)
(* raises after the keys were minted and before the try that revokes them. *)
RunnerUnbuilt ==
  /\ at = "prepared"
  /\ at' = "over"
  /\ outcome' = "unstarted"
  /\ UNCHANGED <<preparation, provider, deaths, round, outside>>

Laboratories == ready \cup References

BeginRound ==
  /\ at = "prepared"
  /\ at' = "executing"
  /\ stage' = [t \in Tasks |-> IF t.uid \in Laboratories THEN "queued" ELSE "absent"]
  /\ UNCHANGED <<outcome, preparation, provider, deaths, verdict, ran, failed,
                 outside>>

-----------------------------------------------------------------------------
(* A task.  `gather` starts them laboratory by laboratory, the reference   *)
(* last, and the semaphore serves them in that order.                      *)

Before(s, t) ==
  \/ s.uid = t.uid /\ s.challenge < t.challenge
  \/ s.uid # t.uid /\ (t.uid = REFERENCE_UID \/ s.uid \in 0 .. t.uid - 1)

Slots == IF concurrency < 1 THEN 1 ELSE concurrency

(* Slip: a slot is not given back.                                         *)
InFlight_EverBegun == {t \in Tasks : stage[t] \notin {"absent", "queued"}}

InFlight == {t \in Tasks : stage[t] \in {"admitting", "contained", "closing"}}

LoopFree == at = "executing" /\ \A t \in Tasks : stage[t] # "contained"

Enters(t) ==
  /\ LoopFree
  /\ stage[t] = "queued"
  /\ \A s \in Tasks : stage[s] = "queued" => s = t \/ Before(t, s)
  /\ Cardinality(InFlight) < Slots

Task == <<at, outcome, preparation, provider, deaths, outside>>

EndsAs(t, what) ==
  /\ stage' = [stage EXCEPT ![t] = "ended"]
  /\ verdict' = [verdict EXCEPT ![t] = what]

(* The head block cannot be read: the task raises.                         *)
HeadUnread(t) ==
  /\ Enters(t)
  /\ EndsAs(t, "none")
  /\ failed' = TRUE
  /\ UNCHANGED <<Task, ran>>

(* Slip: an execution the window has no room for is passed over.           *)
TooLate_Silent(t) ==
  /\ Enters(t)
  /\ closed
  /\ EndsAs(t, "none")
  /\ UNCHANGED <<Task, ran, failed>>

TooLate(t) ==
  /\ Enters(t)
  /\ closed
  /\ EndsAs(t, "window_closed")
  /\ UNCHANGED <<Task, ran, failed>>

(* Slip: the window is not looked at when a slot comes free.               *)
AskAdmission_Unchecked(t) ==
  /\ Enters(t)
  /\ stage' = [stage EXCEPT ![t] = "admitting"]
  /\ UNCHANGED <<Task, verdict, ran, failed>>

(* The deadline is computed, the workspace made, the admission sent.       *)
AskAdmission(t) ==
  /\ Enters(t)
  /\ ~ closed
  /\ stage' = [stage EXCEPT ![t] = "admitting"]
  /\ UNCHANGED <<Task, verdict, ran, failed>>

(* Anything that raises in runner.execute, the workspace, an admission     *)
(* refused or unanswered, a close refused or unanswered, is one execution  *)
(* that was not attempted.                                                 *)
NotAttempted(t) ==
  /\ LoopFree
  /\ stage[t] \in {"admitting", "closing"}
  /\ EndsAs(t, "not_attempted")
  /\ UNCHANGED <<Task, ran, failed>>

(* The token arrives; the task goes on into its container and the loop     *)
(* stops.                                                                  *)
StartContainer(t) ==
  /\ LoopFree
  /\ stage[t] = "admitting"
  /\ stage' = [stage EXCEPT ![t] = "contained"]
  /\ ran' = 0
  /\ UNCHANGED <<Task, verdict, failed>>

ContainerEnds(t, next, what) ==
  /\ at = "executing"
  /\ stage[t] = "contained"
  /\ stage' = [stage EXCEPT ![t] = next]
  /\ verdict' = [verdict EXCEPT ![t] = what]
  /\ ran' = 0
  /\ UNCHANGED <<Task, failed>>

(* It exits within its wall clock, or is killed at its end, which may take *)
(* a while; or docker fails, which the runner sees as a ContainerError,    *)
(* closing the run, or lets through, leaving it open.                      *)
Exits(t)  == ran <= wall_time_seconds /\ ContainerEnds(t, "closing", "measured")
Killed(t) == wall_time_seconds <= ran /\ ContainerEnds(t, "closing", "timed_out")
Breaks(t) == \E next \in {"closing", "ended"} : ContainerEnds(t, next, "not_attempted")

(* The close answers: the portfolio is read and the gates are run.         *)
Measured(t) ==
  /\ LoopFree
  /\ stage[t] = "closing"
  /\ stage' = [stage EXCEPT ![t] = "ended"]
  /\ UNCHANGED <<Task, verdict, ran, failed>>

(* The gates are run outside the try around the execution, and raise.      *)
GatesRaise(t) ==
  /\ LoopFree
  /\ stage[t] = "closing"
  /\ verdict[t] # "not_attempted"
  /\ EndsAs(t, "none")
  /\ failed' = TRUE
  /\ UNCHANGED <<Task, ran>>

TaskStep(t) ==
  \/ HeadUnread(t) \/ TooLate(t) \/ AskAdmission(t)
  \/ NotAttempted(t) \/ StartContainer(t)
  \/ Exits(t) \/ Killed(t) \/ Breaks(t)
  \/ Measured(t) \/ GatesRaise(t)

-----------------------------------------------------------------------------
(* Time passes in a container.  `docker kill` has a timeout of its own.    *)

(* Slip: it has none.                                                      *)
Tick_KillUnbounded ==
  /\ at = "executing"
  /\ \E t \in Tasks : stage[t] = "contained"
  /\ ran' = ran + 1
  /\ overtime' = IF closed THEN overtime + 1 ELSE overtime
  /\ UNCHANGED <<at, outcome, preparation, provider, deaths, stage, verdict,
                 failed, closed, document>>

Tick ==
  /\ at = "executing"
  /\ \E t \in Tasks : stage[t] = "contained"
  /\ ran < wall_time_seconds + kill_grace_seconds
  /\ ran' = ran + 1
  /\ overtime' = IF closed THEN overtime + 1 ELSE overtime
  /\ UNCHANGED <<at, outcome, preparation, provider, deaths, stage, verdict,
                 failed, closed, document>>

WindowCloses ==
  /\ ~ closed
  /\ closed' = TRUE
  /\ UNCHANGED <<at, outcome, preparation, provider, deaths, round, overtime,
                 document>>

-----------------------------------------------------------------------------
(* execute_step after execute_round *)

(* Slip: the round ended with the window, its tasks still in flight.       *)
RoundEnds_AtTheDeadline ==
  /\ LoopFree
  /\ ~ failed
  /\ closed
  /\ at' = "revoking"
  /\ UNCHANGED <<outcome, preparation, provider, deaths, round, outside>>

RoundEnds ==
  /\ LoopFree
  /\ ~ failed
  /\ \A t \in Tasks : stage[t] \in {"absent", "ended"}
  /\ at' = "revoking"
  /\ UNCHANGED <<outcome, preparation, provider, deaths, round, outside>>

(* Slip: the exception leaves the step before its keys are revoked.        *)
RoundFails_NoFinally ==
  /\ LoopFree
  /\ failed
  /\ at' = "over"
  /\ outcome' = "raised"
  /\ Nobody
  /\ UNCHANGED <<preparation, provider, deaths, outside>>

(* gather passes a task's exception on, and asyncio.run cancels the rest.  *)
RoundFails ==
  /\ LoopFree
  /\ failed
  /\ at' = "revoking"
  /\ outcome' = "raised"
  /\ Nobody
  /\ UNCHANGED <<preparation, provider, deaths, outside>>

Revoked ==
  /\ at = "revoking"
  /\ held = {}
  /\ at' = IF outcome = "raised" THEN "over" ELSE "writing"
  /\ UNCHANGED <<outcome, preparation, provider, deaths, round, outside>>

(* The document is stored and the step returns; or the store refuses.      *)
WriteExecutions ==
  /\ at = "writing"
  /\ at' = "over"
  /\ \/ document' = verdict /\ outcome' = "returned"
     \/ UNCHANGED document /\ outcome' = "raised"
  /\ UNCHANGED <<preparation, provider, deaths, round, closed, overtime>>

(* The process dies, perhaps after the step has raised.  Restarted, the    *)
(* driver begins EXECUTE again while its window is open, and gives the     *)
(* round up if it is not.  The keys that were minted and not revoked are   *)
(* still there.  (For a death after the document was stored see            *)
(* RoundDriver.)                                                           *)
Dies ==
  /\ outcome # "returned"
  /\ deaths < MaxDeaths
  /\ deaths' = deaths + 1
  /\ IF closed THEN at' = "over" /\ outcome' = "unstarted"
               ELSE at' = "idle" /\ outcome' = "none"
  /\ todo' = {} /\ kept' = {} /\ ready' = {} /\ refused' = {}
  /\ held' = {}
  /\ Nobody
  /\ overtime' = 0
  /\ UNCHANGED <<keys, unrevoked, closed, document>>

-----------------------------------------------------------------------------
Preparing == /\ \/ NothingRead \/ BeginPreparing \/ Prepared
                \/ \E u \in Uids : Submission(u)
             /\ UNCHANGED <<round, outside>>

Revoking == (\E key \in held : Revoke(key)) /\ UNCHANGED <<round, outside>>

Work ==
  \/ Preparing \/ RunnerUnbuilt \/ BeginRound
  \/ \E t \in Tasks : TaskStep(t)
  \/ Tick
  \/ RoundEnds \/ RoundFails
  \/ Revoking \/ Revoked \/ WriteExecutions

Next == Work \/ WindowCloses \/ Dies

Spec == Init /\ [][Next]_vars

(* The loop runs what is ready, the gateway's client answers or times out  *)
(* and a container is killed at the end of its wall clock.                 *)
FairSpec == Spec /\ WF_vars(Work)

-----------------------------------------------------------------------------
(* Safety *)

(* No key is taken away from a laboratory that may still spend from it:    *)
(* until the last of its tasks is over, its key is alive.                  *)
KeysOutliveTheirUse ==
  \A t \in InFlight : t.uid \in management => KeyOf(t.uid) \in keys

(* What SCORE is given is complete: a verdict on every prepared laboratory *)
(* and every challenge, "window closed" only if it had.                    *)
EveryExecutionRecorded ==
  outcome = "returned" =>
    \A t \in Tasks : t.uid \in Laboratories =>
      /\ document[t] # "none"
      /\ document[t] = "window_closed" => closed

(* After the window has closed, containers run on for no longer than those *)
(* may take that had a slot when it did.                                   *)
OvertimeBounded ==
  overtime <= Slots * (wall_time_seconds + kill_grace_seconds)

-----------------------------------------------------------------------------
(* What the code's comments say and the code does not do: see README.md,   *)
(* "Findings".                                                             *)

(* Nothing ends the round before its last execution but its deadline: the  *)
(* failure of one is that one's.                                           *)
OnlyTheDeadlineEndsTheRound ==
  [][at = "executing" /\ at' = "revoking" =>
       closed \/ \A t \in Tasks : stage[t] \in {"absent", "ended"}]_vars

-----------------------------------------------------------------------------
(* Liveness *)

(* The step ends, for good once the process no longer dies.                *)
StepEnds == <>[](at = "over")
=============================================================================
