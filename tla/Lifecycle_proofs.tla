-------------------------- MODULE Lifecycle_proofs --------------------------
(***************************************************************************)
(* What RoundDriver's process promises, for every calendar, every set of   *)
(* rounds, durable stores or not, and however many steps raise.  First,    *)
(* through any crashes: it keeps the promise of RoundLifecycle, and no     *)
(* live round's missed window goes unrecorded.  Then, of a process that    *)
(* does not crash and is never later than a delay, whatever that is, but   *)
(* for an EXECUTE that may take its window: it misses no window as wide,   *)
(* draws one salt for a round, has its salt on chain late by no more than  *)
(* the delay, and its pack before the reveal if the margin is as wide.     *)
(***************************************************************************)
EXTENDS RoundDriver_proofs

-----------------------------------------------------------------------------
(* Steps are recorded in order *)

(* The first k steps, and nothing else, are done.                          *)
Prefix(done, k) == k \in 0 .. 5 /\ done = 1 .. k

(* How far a set of done steps reaches, as the refinement mapping has it.  *)
Reach(done) == IF done = {} THEN 0
               ELSE CHOOSE s \in done : \A t \in done : t <= s

LEMMA ReachOfPrefix ==
  ASSUME NEW done, NEW k, Prefix(done, k)
  PROVE  Reach(done) = k
<1>1. CASE k = 0
  BY <1>1 DEF Prefix, Reach
<1>2. CASE k # 0
  <2>1. /\ k \in done
        /\ \A t \in done : t <= k
        /\ \A s \in done : (\A t \in done : t <= s) => s = k
    BY <1>2 DEF Prefix
  <2>2. (CHOOSE s \in done : \A t \in done : t <= s) = k
    BY <2>1
  <2>. QED
    BY <2>1, <2>2 DEF Reach
<1>. QED
  BY <1>1, <1>2

(* The first step not done extends the prefix by one.                      *)
LEMMA NextOfPrefix ==
  ASSUME NEW done, NEW k, Prefix(done, k), NEW s, FirstNotDone(s, done)
  PROVE  s = k + 1 /\ k < 5 /\ Prefix(done \cup {s}, s)
<1>1. /\ s \in 1 .. 5 /\ s \notin 1 .. k /\ k \in 0 .. 5
      /\ \A t \in 1 .. 5 : t \notin 1 .. k => s <= t
  BY DEF Prefix, FirstNotDone, Step
<1>2. k < 5
  BY <1>1
<1>3. s = k + 1
  <2>1. k + 1 \in 1 .. 5 /\ k + 1 \notin 1 .. k
    BY <1>1, <1>2
  <2>. QED
    BY <1>1, <2>1
<1>4. (1 .. k) \cup {s} = 1 .. s
  BY <1>1, <1>3
<1>. QED
  BY <1>1, <1>2, <1>3, <1>4 DEF Prefix

(* A step whose window is open runs for a round all of whose earlier steps *)
(* are recorded, and a document being saved differs from the stored one by *)
(* one step or by being given up on.                                       *)
InOrder ==
  /\ tickBlock <= head
  /\ \A r \in Rounds : \E k \in 0 .. 5 : Prefix(rounds[r].done, k)
  /\ pc \in StepStage =>
       /\ rounds[at].abandoned = NotAbandoned
       /\ FirstNotDone(step, rounds[at].done)
       /\ produced.done = rounds[at].done
       /\ produced.abandoned = NotAbandoned
       /\ windows[step].opens <= TickOffset(at)
       /\ TickOffset(at) < windows[step].closes
  /\ pc = "save" =>
       /\ rounds[at].abandoned = NotAbandoned
       /\ \/ /\ produced.done = rounds[at].done
             /\ produced.abandoned # NotAbandoned
             /\ rounds[at].done # Step
          \/ /\ produced.abandoned = NotAbandoned
             /\ \E s \in Step :
                  /\ FirstNotDone(s, rounds[at].done)
                  /\ produced.done = rounds[at].done \cup {s}
                  /\ windows[s].opens <= TickOffset(at)
                  /\ TickOffset(at) < windows[s].closes

LEMMA OrderInit == Init => InOrder
<1>1. Prefix({}, 0)
  BY DEF Prefix
<1>. QED
  BY <1>1, DriverAssumption DEF Init, InOrder, Fresh, StepStage, DriverAssumption

LEMMA OrderStep == TypeInv /\ InOrder /\ [Next]_vars => InOrder'
<1> SUFFICES ASSUME TypeInv, InOrder, [Next]_vars PROVE InOrder'
  OBVIOUS
<1> USE DEF InOrder, chain, stores, local
<1>a. ASSUME UNCHANGED <<rounds, head>>, tickBlock' \in {tickBlock, head, 0},
             pc' \notin StepStage \cup {"save"}
      PROVE  InOrder'
  BY <1>a DEF TypeInv, TypeOK
<1>b. ASSUME UNCHANGED <<rounds, head, tickBlock, at, step>>,
             produced'.done = produced.done,
             produced'.abandoned = produced.abandoned,
             pc \in StepStage, pc' \in StepStage
      PROVE  InOrder'
  BY <1>b DEF TickOffset, StepStage
<1>1. CASE MineBlock
  <2>1. /\ head' = head + 1 /\ head \in Nat /\ tickBlock \in Nat
        /\ UNCHANGED <<rounds, tickBlock, at, step, produced, pc>>
    BY <1>1 DEF MineBlock, TypeInv, TypeOK
  <2>2. tickBlock <= head'
    BY <2>1
  <2>. QED
    BY <2>1, <2>2 DEF TickOffset
<1>2. CASE StartTick \/ EndTick \/ Publish \/ Restart
  BY <1>2, <1>a DEF StartTick, EndTick, Publish, Restart, StepStage
<1>3. ASSUME NEW r \in Rounds, Skip(r) PROVE InOrder'
  BY <1>3, <1>a DEF Skip, StepStage
<1>4. ASSUME NEW r \in Rounds, Abandon(r) PROVE InOrder'
  <2>1. /\ UNCHANGED <<rounds, head, tickBlock>> /\ at' = r /\ pc' = "save"
        /\ produced'.done = rounds[r].done /\ produced'.abandoned = WindowClosed
        /\ rounds[r].abandoned = NotAbandoned
    BY <1>4 DEF Abandon, TypeInv, TypeOK, RoundState
  <2>2. rounds[r].done # Step
    BY <1>4 DEF Abandon, decide_Abandon, FirstNotDone
  <2>. QED
    BY <2>1, <2>2 DEF StepStage, NotAbandoned, WindowClosed
<1>5. ASSUME NEW r \in Rounds, NEW s \in Step, Begin(r, s) PROVE InOrder'
  <2>1. /\ UNCHANGED <<rounds, head, tickBlock>> /\ at' = r /\ step' = s
        /\ produced' = rounds[r] /\ rounds[r].abandoned = NotAbandoned
        /\ FirstNotDone(s, rounds[r].done)
        /\ windows[s].opens <= TickOffset(r) /\ TickOffset(r) < windows[s].closes
    BY <1>5 DEF Begin, decide_Run
  <2>2. pc' \in StepStage
    BY <1>5 DEF Begin, Entry, StepStage, Step, COMMIT_SALT, GENERATE, EXECUTE,
                SCORE, SUBMIT_WEIGHTS
  <2>. QED
    BY <2>1, <2>2 DEF TickOffset, StepStage
<1>6. CASE PublishSalt \/ PublishPack \/ ReadPack \/ Score
  <2>1. /\ produced'.done = produced.done
        /\ produced'.abandoned = produced.abandoned
    BY <1>6 DEF PublishSalt, PublishPack, ReadPack, Score, TypeInv, TypeOK,
                RoundState
  <2>. QED
    BY <1>6, <1>b, <2>1
       DEF PublishSalt, PublishPack, ReadPack, Score, StepStage
<1>7. CASE \/ BuildPack \/ WritePack \/ Execute \/ WriteExecutions
           \/ SubmitWeights \/ SubmitFails
  BY <1>7, <1>b
     DEF BuildPack, WritePack, Execute, WriteExecutions, SubmitWeights,
         SubmitFails, Attempt, StepStage
<1>8. CASE StepReturns
  <2>1. /\ UNCHANGED <<rounds, head, tickBlock, at, step>>
        /\ pc = "return" /\ pc' = "save" /\ step \in Step
        /\ produced'.done = produced.done \cup {step}
        /\ produced'.abandoned = produced.abandoned
    BY <1>8 DEF StepReturns, TypeInv, TypeOK, Focus, RoundState, StepStage
  <2>. QED
    BY <2>1 DEF TickOffset, StepStage
<1>9. CASE StepRaises
  <2>1. /\ UNCHANGED <<rounds, head, tickBlock, at>>
        /\ pc \in StepStage /\ pc' = "save"
        /\ produced'.done = rounds[at].done
        /\ produced'.abandoned = StepFailed
    BY <1>9 DEF StepRaises, TypeInv, TypeOK, Focus, RoundState
  <2>2. rounds[at].done # Step
    BY <2>1 DEF FirstNotDone
  <2>. QED
    BY <2>1, <2>2 DEF StepStage, NotAbandoned, StepFailed
<1>10. CASE Save
  <2>1. /\ at \in Rounds /\ pc = "save" /\ pc' \in {"publish", "tick"}
        /\ UNCHANGED <<head, tickBlock>>
        /\ \A r \in Rounds : rounds'[r] = IF r = at THEN produced ELSE rounds[r]
    BY <1>10 DEF Save, TypeInv, TypeOK, Focus
  <2>2. \E k \in 0 .. 5 : Prefix(produced.done, k)
    BY <2>1, NextOfPrefix DEF Step
  <2>. QED
    BY <2>1, <2>2 DEF StepStage
<1>11. CASE Crash
  <2>1. CASE Durable
    BY <1>11, <2>1, <1>a DEF Crash, StepStage
  <2>2. CASE ~ Durable
    <3>1. Prefix({}, 0)
      BY DEF Prefix
    <3>2. tickBlock' <= head'
      BY <1>11 DEF Crash, TypeInv, TypeOK
    <3>. QED
      BY <1>11, <2>2, <3>1, <3>2 DEF Crash, StepStage, Fresh
  <2>. QED
    BY <2>1, <2>2
<1>12. CASE UNCHANGED vars
  BY <1>12 DEF vars, TickOffset
<1>. QED
  BY <1>1, <1>2, <1>3, <1>4, <1>5, <1>6, <1>7, <1>8, <1>9, <1>10, <1>11, <1>12
     DEF Next, Work, Tick, StepBody, Record, Fault

-----------------------------------------------------------------------------
(* The driver implements RoundLifecycle *)

(* The abstract round, as the refinement mapping reads it off the store.   *)
progress == [r \in Rounds |-> Reach(rounds[r].done)]
given_up == [r \in Rounds |-> rounds[r].abandoned # NotAbandoned]

LEMMA MapsInit == Init => Lifecycle!LInit
<1> SUFFICES ASSUME Init PROVE Lifecycle!LInit
  OBVIOUS
<1>1. /\ head \in Nat
      /\ \A r \in Rounds : /\ rounds[r].done = {}
                           /\ rounds[r].abandoned = NotAbandoned
  BY DriverAssumption DEF Init, Fresh, DriverAssumption
<1>. QED
  BY <1>1 DEF Lifecycle!LInit

(* A round in progress, read through the mapping.                          *)
LEMMA MapsInProgress ==
  ASSUME NEW r
  PROVE  Lifecycle!InProgress(r)
           <=> ~ given_up[r] /\ progress[r] < SUBMIT_WEIGHTS
BY Zenon DEF Lifecycle!InProgress, progress, given_up, Reach, SUBMIT_WEIGHTS,
             Lifecycle!SUBMIT_WEIGHTS

(* The calendar of RoundLifecycle is the driver's.                         *)
LEMMA MapsCalendar ==
  /\ Lifecycle!windows = windows
  /\ \A r, b : Lifecycle!offset_in(r, b) = offset_in(r, b)
BY Zenon
   DEF Lifecycle!windows, windows, Lifecycle!Step, Step,
       Lifecycle!round_closes, round_closes,
       Lifecycle!COMMIT_SALT, COMMIT_SALT, Lifecycle!GENERATE, GENERATE,
       Lifecycle!EXECUTE, EXECUTE, Lifecycle!SCORE, SCORE,
       Lifecycle!SUBMIT_WEIGHTS, SUBMIT_WEIGHTS,
       Lifecycle!offset_in, offset_in, Lifecycle!epoch_start_of, epoch_start_of

(* A step that leaves the documents alone stutters, or lets time pass.     *)
LEMMA MapsStep ==
  TypeInv /\ InOrder /\ Durable /\ [Next]_vars
    => [Lifecycle!LNext]_Lifecycle!lvars
<1> SUFFICES ASSUME TypeInv, InOrder, Durable, [Next]_vars
             PROVE  [Lifecycle!LNext]_Lifecycle!lvars
  OBVIOUS
<1> USE DEF chain, stores, local
<1>1. CASE UNCHANGED <<head, rounds>>
  BY <1>1 DEF Lifecycle!lvars
<1>2. CASE MineBlock
  <2>1. head' \in Nat /\ head < head' /\ UNCHANGED rounds
    BY <1>2 DEF MineBlock, TypeInv, TypeOK
  <2>. QED
    BY <2>1 DEF Lifecycle!LNext, Lifecycle!LTimePasses
<1>3. CASE Save
  <2>1. PICK r \in Rounds :
          /\ r = at /\ pc = "save" /\ UNCHANGED head
          /\ \A q \in Rounds : rounds'[q] = IF q = r THEN produced ELSE rounds[q]
    BY <1>3 DEF Save, TypeInv, TypeOK, Focus
  <2>2. PICK k \in 0 .. 5 : Prefix(rounds[r].done, k)
    BY <2>1 DEF InOrder
  <2>3. progress[r] = k /\ ~ given_up[r]
    BY <2>1, <2>2, ReachOfPrefix DEF InOrder, progress, given_up
  <2>4. CASE /\ produced.done = rounds[r].done
             /\ produced.abandoned # NotAbandoned
             /\ rounds[r].done # Step
    <3>1. k < SUBMIT_WEIGHTS
      BY <2>2, <2>4 DEF Prefix, Step, SUBMIT_WEIGHTS
    <3>2. progress' = progress
      BY <2>1, <2>4 DEF progress
    <3>3. given_up' = [given_up EXCEPT ![r] = TRUE]
      BY <2>1, <2>4 DEF given_up
    <3>4. Lifecycle!InProgress(r)
      BY <2>3, <3>1, MapsInProgress
    <3>5. Lifecycle!LGiveUp(r)
      BY <2>1, <3>2, <3>3, <3>4
         DEF Lifecycle!LGiveUp, progress, given_up, Reach
    <3>6. Lifecycle!LNext
      BY <3>5, Zenon DEF Lifecycle!LNext
    <3>. QED
      BY <3>6
  <2>5. CASE /\ produced.abandoned = NotAbandoned
             /\ \E s \in Step :
                  /\ FirstNotDone(s, rounds[r].done)
                  /\ produced.done = rounds[r].done \cup {s}
                  /\ windows[s].opens <= TickOffset(r)
    <3>1. PICK s \in Step : /\ FirstNotDone(s, rounds[r].done)
                            /\ produced.done = rounds[r].done \cup {s}
                            /\ windows[s].opens <= TickOffset(r)
      BY <2>5
    <3>2. s = k + 1 /\ k < 5 /\ Prefix(produced.done, s)
      BY <2>2, <3>1, NextOfPrefix
    <3>3. Reach(produced.done) = k + 1
      BY <3>2, ReachOfPrefix
    <3>4. given_up' = given_up
      BY <2>1, <2>3, <2>5 DEF given_up
    <3>5. progress' = [progress EXCEPT ![r] = @ + 1]
      BY <2>1, <2>3, <3>3 DEF progress
    <3>6. windows[progress[r] + 1].opens <= offset_in(r, head)
      <4>1. /\ TickOffset(r) \in Int /\ offset_in(r, head) \in Int
            /\ TickOffset(r) <= offset_in(r, head)
        BY OffsetType, CycleAssumption, DriverAssumption
           DEF TypeInv, TypeOK, InOrder, TickOffset, offset_in, epoch_start_of,
               CycleAssumption, DriverAssumption
      <4>2. windows[s].opens \in Int
        BY CycleAssumption
           DEF CycleAssumption, windows, Step, COMMIT_SALT, GENERATE, EXECUTE,
               SCORE, SUBMIT_WEIGHTS
      <4>. QED
        BY <2>3, <3>1, <3>2, <4>1, <4>2
    <3>7. Lifecycle!InProgress(r)
      <4>1. k < SUBMIT_WEIGHTS
        BY <3>2 DEF SUBMIT_WEIGHTS
      <4>. QED
        BY <2>3, <4>1, MapsInProgress
    <3>8. Lifecycle!LAdvance(r)
      BY <2>1, <3>4, <3>5, <3>6, <3>7, MapsCalendar
         DEF Lifecycle!LAdvance, progress, given_up, Reach
    <3>9. Lifecycle!LNext
      BY <3>8, Zenon DEF Lifecycle!LNext
    <3>. QED
      BY <3>9
  <2>. QED
    BY <2>1, <2>4, <2>5 DEF InOrder
<1>4. CASE \/ StartTick \/ EndTick \/ StepBody \/ StepReturns \/ Publish
           \/ Fault \/ Crash \/ Restart \/ UNCHANGED vars
  BY <1>1, <1>4
     DEF StartTick, EndTick, StepBody, PublishSalt, BuildPack, PublishPack,
         WritePack, ReadPack, Execute, WriteExecutions, Score, SubmitWeights,
         StepReturns, Publish, Fault, StepRaises, SubmitFails, Crash, Restart,
         vars
<1>5. ASSUME NEW r \in Rounds,
             Skip(r) \/ Abandon(r) \/ \E s \in Step : Begin(r, s)
      PROVE  UNCHANGED <<head, rounds>>
  BY <1>5 DEF Skip, Abandon, Begin
<1>. QED
  BY <1>1, <1>2, <1>3, <1>4, <1>5 DEF Next, Work, Tick, Record

(* With stores that survive a crash, the driver's rounds do what the       *)
(* abstract round does: one step at a time, in order, never before its     *)
(* window, and nothing once it is given up on or complete.                 *)
THEOREM LifecycleCorrect == Durable => (Spec => ImplementsLifecycle)
<1> SUFFICES ASSUME Durable PROVE Spec => ImplementsLifecycle
  OBVIOUS
<1>1. Init => TypeInv /\ InOrder
  BY TypeInit, OrderInit
<1>2. (TypeInv /\ InOrder) /\ [Next]_vars => (TypeInv /\ InOrder)'
  BY TypeStep, OrderStep
<1>3. TypeInv /\ InOrder /\ [Next]_vars => [Lifecycle!LNext]_Lifecycle!lvars
  BY MapsStep
<1>. QED
  BY <1>1, <1>2, <1>3, MapsInit, PTL
     DEF Spec, ImplementsLifecycle, Lifecycle!LSpec

-----------------------------------------------------------------------------
(* No missed window goes unrecorded *)

(* live_rounds looks at the epoch of the block and at the next one.  That  *)
(* is every live round if a round opens at most a day before its reveal,   *)
(* which CycleConfig does not require.                                     *)
OpensWithinADay == reveal_offset - salt_commit_offset <= blocks_per_day

LEMMA DivisionBounds ==
  ASSUME NEW b \in Nat, NEW n \in Nat \ {0}
  PROVE  /\ b \div n \in Int
         /\ (b \div n) * n <= b
         /\ b < (b \div n) * n + n
OBVIOUS

LEMMA LiveRoundsAreAll ==
  ASSUME OpensWithinADay, NEW r \in Rounds, NEW b \in Nat, IsLive(r, b)
  PROVE  r \in live_rounds(b)
<1> DEFINE e == epoch_index(b)
           n == blocks_per_day
<1>1. /\ e \in Int /\ n \in Nat \ {0} /\ r \in Int
      /\ e * n <= b /\ b < e * n + n
  BY DivisionBounds, CycleAssumption, DriverAssumption
     DEF CycleAssumption, DriverAssumption, epoch_index
<1>2. /\ b < r * n + n /\ r * n <= b + n
      /\ r * n \in Int /\ e * n \in Int
  BY <1>1, CycleAssumption
     DEF IsLive, OpensWithinADay, offset_in, epoch_start_of, round_opens,
         round_closes, CycleAssumption
<1> HIDE DEF e, n
<1>3. r >= e
  <2>1. e * n < (r + 1) * n
    BY <1>1, <1>2
  <2>2. ASSUME r + 1 <= e PROVE (r + 1) * n <= e * n
    BY <1>1, <2>2
  <2>. QED
    BY <1>1, <2>1, <2>2
<1>4. r <= e + 1
  <2>1. r * n < (e + 2) * n
    BY <1>1, <1>2
  <2>2. ASSUME e + 2 <= r PROVE (e + 2) * n <= r * n
    BY <1>1, <2>2
  <2>. QED
    BY <1>1, <2>1, <2>2
<1>5. r = e \/ r = e + 1
  BY <1>1, <1>3, <1>4
<1>. QED
  BY <1>5 DEF e, live_rounds

(* The first step not done has not missed its window at the tick's block.  *)
Timely(r, done) ==
  \A s \in Step : FirstNotDone(s, done) => TickOffset(r) < windows[s].closes

(* A live round is still to be looked at by this tick, or being advanced,  *)
(* or up to date.                                                          *)
LookedAt ==
  /\ pc \in {"idle", "down"} => pending = {}
  /\ pc = "down" => tickBlock = 0
  /\ pc = "save" => produced.abandoned # NotAbandoned \/ Timely(at, produced.done)
  /\ tickBlock # 0 =>
       \A r \in Rounds : IsLive(r, tickBlock) =>
         \/ r \in pending
         \/ r = at /\ pc \in StepStage \cup {"save"}
         \/ rounds[r].abandoned # NotAbandoned
         \/ Timely(r, rounds[r].done)

(* Windows follow one another.                                             *)
LEMMA WindowsInOrder ==
  ASSUME NEW s \in Step, NEW t \in Step, s < t
  PROVE  /\ windows[s].closes \in Int /\ windows[t].closes \in Int
         /\ windows[s].opens \in Int /\ windows[s].opens <= windows[s].closes
         /\ windows[s].closes <= windows[t].closes
BY CycleAssumption
   DEF CycleAssumption, windows, Step, round_closes, COMMIT_SALT, GENERATE,
       EXECUTE, SCORE, SUBMIT_WEIGHTS

(* A round that waits is up to date.                                       *)
LEMMA WaitIsTimely ==
  ASSUME TypeInv, NEW r \in Rounds, NEW s \in Step,
         decide_Wait(s, TickOffset(r), rounds[r].done)
  PROVE  Timely(r, rounds[r].done)
<1>1. TickOffset(r) \in Int
  BY OffsetType DEF TickOffset, TypeInv, TypeOK
<1>2. /\ windows[s].opens \in Int /\ windows[s].closes \in Int
      /\ windows[s].opens <= windows[s].closes
  BY CycleAssumption
     DEF CycleAssumption, windows, Step, round_closes, COMMIT_SALT, GENERATE,
         EXECUTE, SCORE, SUBMIT_WEIGHTS
<1>3. \A t \in Step : FirstNotDone(t, rounds[r].done) => t = s
  BY DEF decide_Wait, FirstNotDone, Step
<1>. QED
  BY <1>1, <1>2, <1>3 DEF decide_Wait, Timely

(* A step that returns leaves its successor's window open or ahead.        *)
LEMMA AdvanceIsTimely ==
  ASSUME TypeInv, NEW r \in Rounds, NEW s \in Step, NEW done,
         FirstNotDone(s, done), TickOffset(r) < windows[s].closes
  PROVE  Timely(r, done \cup {s})
<1> SUFFICES ASSUME NEW t \in Step, FirstNotDone(t, done \cup {s})
             PROVE  TickOffset(r) < windows[t].closes
  BY DEF Timely
<1>1. TickOffset(r) \in Int
  BY OffsetType DEF TickOffset, TypeInv, TypeOK
<1>2. s < t
  BY DEF FirstNotDone, Step
<1>. QED
  BY <1>1, <1>2, WindowsInOrder

LEMMA LookedAtInit == Init => LookedAt
BY DEF Init, LookedAt

LEMMA LookedAtStep ==
  TypeInv /\ InOrder /\ LookedAt /\ OpensWithinADay /\ [Next]_vars => LookedAt'
<1> SUFFICES ASSUME TypeInv, InOrder, LookedAt, OpensWithinADay, [Next]_vars
             PROVE  LookedAt'
  OBVIOUS
<1> USE DEF LookedAt, chain, stores, local
(* While a step runs, only where it is changes.                            *)
<1>a. ASSUME UNCHANGED <<rounds, tickBlock, pending, at>>,
             pc \in StepStage, pc' \in StepStage
      PROVE  LookedAt'
  BY <1>a DEF Timely, TickOffset, StepStage
<1>1. CASE MineBlock \/ UNCHANGED vars
  BY <1>1 DEF MineBlock, vars, Timely, TickOffset
<1>2. CASE StartTick
  <2>1. \A r \in Rounds : IsLive(r, head) => r \in live_rounds(head) \cap Rounds
    BY LiveRoundsAreAll DEF TypeInv, TypeOK
  <2>. QED
    BY <1>2, <2>1 DEF StartTick, StepStage
<1>3. CASE EndTick
  BY <1>3 DEF EndTick, Timely, TickOffset, StepStage
<1>4. ASSUME NEW r \in Rounds, Skip(r) PROVE LookedAt'
  <2>1. rounds[r].abandoned # NotAbandoned \/ Timely(r, rounds[r].done)
    <3>1. CASE decide_Complete(rounds[r].done)
      BY <3>1 DEF decide_Complete, Timely, FirstNotDone
    <3>. QED
      BY <1>4, <3>1, WaitIsTimely DEF Skip
  <2>. QED
    BY <1>4, <2>1 DEF Skip, Timely, TickOffset, StepStage
<1>5. ASSUME NEW r \in Rounds, Abandon(r) PROVE LookedAt'
  <2>1. /\ UNCHANGED <<rounds, tickBlock>> /\ at' = r /\ pc = "tick" /\ pc' = "save"
        /\ pending' = pending \ {r}
        /\ produced'.abandoned = WindowClosed
    BY <1>5 DEF Abandon, TypeInv, TypeOK, RoundState
  <2>. QED
    BY <2>1 DEF Timely, TickOffset, StepStage, NotAbandoned, WindowClosed
<1>6. ASSUME NEW r \in Rounds, NEW s \in Step, Begin(r, s) PROVE LookedAt'
  <2>1. /\ UNCHANGED <<rounds, tickBlock>> /\ at' = r /\ pc = "tick"
        /\ pending' = pending \ {r}
    BY <1>6 DEF Begin
  <2>2. pc' \in StepStage
    BY <1>6 DEF Begin, Entry, StepStage, Step, COMMIT_SALT, GENERATE, EXECUTE,
                SCORE, SUBMIT_WEIGHTS
  <2>. QED
    BY <2>1, <2>2 DEF Timely, TickOffset, StepStage
<1>7. CASE StepBody \/ SubmitFails
  BY <1>7, <1>a
     DEF StepBody, PublishSalt, BuildPack, PublishPack, WritePack, ReadPack,
         Execute, WriteExecutions, Score, SubmitWeights, SubmitFails, Attempt,
         StepStage
<1>8. CASE StepReturns
  <2>1. /\ UNCHANGED <<rounds, tickBlock, pending, at>>
        /\ pc = "return" /\ pc' = "save" /\ at \in Rounds /\ step \in Step
        /\ produced'.done = produced.done \cup {step}
    BY <1>8 DEF StepReturns, TypeInv, TypeOK, Focus, RoundState, StepStage
  <2>2. Timely(at, produced'.done)
    BY <2>1, AdvanceIsTimely DEF InOrder, StepStage
  <2>. QED
    BY <2>1, <2>2 DEF Timely, TickOffset, StepStage
<1>9. CASE StepRaises
  <2>1. /\ UNCHANGED <<rounds, tickBlock, pending, at>>
        /\ pc \in StepStage /\ pc' = "save"
        /\ produced'.abandoned = StepFailed
    BY <1>9 DEF StepRaises, TypeInv, TypeOK, Focus, RoundState
  <2>. QED
    BY <2>1 DEF Timely, TickOffset, StepStage, NotAbandoned, StepFailed
<1>10. CASE Save
  <2>1. /\ at \in Rounds /\ pc = "save" /\ pc' \in {"publish", "tick"}
        /\ UNCHANGED <<tickBlock, pending>>
        /\ \A r \in Rounds : rounds'[r] = IF r = at THEN produced ELSE rounds[r]
    BY <1>10 DEF Save, TypeInv, TypeOK, Focus
  <2>. QED
    BY <2>1 DEF Timely, TickOffset, StepStage
<1>11. CASE Publish
  BY <1>11 DEF Publish, Timely, TickOffset, StepStage
<1>12. CASE Crash \/ Restart
  BY <1>12 DEF Crash, Restart, StepStage
<1>. QED
  BY <1>1, <1>2, <1>3, <1>4, <1>5, <1>6, <1>7, <1>8, <1>9, <1>10, <1>11, <1>12
     DEF Next, Work, Tick, Record, Fault

(* After every tick, whatever crashes came before, a live round is settled *)
(* or its next window is open or ahead: no missed window goes unrecorded,  *)
(* provided a round opens at most a day before its reveal.                 *)
THEOREM UpToDateCorrect == OpensWithinADay => (Spec => []LiveRoundsUpToDate)
<1> SUFFICES ASSUME OpensWithinADay PROVE Spec => []LiveRoundsUpToDate
  OBVIOUS
<1>1. Init => TypeInv /\ InOrder /\ LookedAt
  BY TypeInit, OrderInit, LookedAtInit
<1>2. (TypeInv /\ InOrder /\ LookedAt) /\ [Next]_vars
        => (TypeInv /\ InOrder /\ LookedAt)'
  BY TypeStep, OrderStep, LookedAtStep
<1>3. LookedAt => LiveRoundsUpToDate
  BY DEF LookedAt, LiveRoundsUpToDate, Timely, StepStage
<1>. QED
  BY <1>1, <1>2, <1>3, PTL DEF Spec

-----------------------------------------------------------------------------
(* A prompt process *)

(* What a prompt process does, the process does.                           *)
LEMMA PromptIsNext == [PromptNext]_vars => [Next]_vars
BY DEF PromptNext, PromptMine, Next

(* The head is within the delay of where it was last read; or that was in  *)
(* a round's execution window, and it is within the delay of its end.      *)
ExecutionHolds(h) ==
  \E r \in Rounds : /\ Executing(r)
                    /\ h < block_at(r, execution_close_offset) + Delay

WithinDelay ==
  /\ head # 0
  /\ pc # "down"
  /\ pc # "idle" => tickBlock # 0
  /\ tickBlock # 0 => head <= tickBlock + Delay \/ ExecutionHolds(head)

LEMMA DelayInit == Init => WithinDelay
BY DriverAssumption DEF Init, WithinDelay, DriverAssumption

LEMMA DelayStep == TypeInv /\ WithinDelay /\ [PromptNext]_vars => WithinDelay'
<1> SUFFICES ASSUME TypeInv, WithinDelay, [PromptNext]_vars PROVE WithinDelay'
  OBVIOUS
<1> USE DEF WithinDelay, chain, stores, local
<1>0. head \in Nat \ {0} /\ tickBlock \in Nat /\ Delay \in Nat
  BY DriverAssumption DEF TypeInv, TypeOK, DriverAssumption
<1>a. ASSUME UNCHANGED <<head, tickBlock>>, pc # "idle", pc' # "down" PROVE WithinDelay'
  <2>1. ExecutionHolds(head)' <=> ExecutionHolds(head)
    BY <1>a DEF ExecutionHolds, Executing, TickOffset
  <2>. QED
    BY <1>a, <2>1
<1>1. CASE PromptMine
  <2>1. /\ UNCHANGED <<tickBlock, pc>> /\ tickBlock # 0 /\ head' # 0
        /\ head' <= tickBlock + Delay \/ ExecutionHolds(head')
    BY <1>0, <1>1 DEF PromptMine, MineBlock, ExecutionHolds
  <2>2. ExecutionHolds(head)' <=> ExecutionHolds(head')
    BY <2>1 DEF ExecutionHolds, Executing, TickOffset
  <2>. QED
    BY <2>1, <2>2
<1>2. CASE StartTick
  BY <1>0, <1>2 DEF StartTick
<1>3. CASE EndTick
  BY <1>3, <1>a DEF EndTick
<1>4. ASSUME NEW r \in Rounds, Skip(r) \/ Abandon(r) PROVE WithinDelay'
  BY <1>4, <1>a DEF Skip, Abandon
<1>5. ASSUME NEW r \in Rounds, NEW s \in Step, Begin(r, s) PROVE WithinDelay'
  <2>1. pc' # "down"
    BY <1>5, EntryStage DEF Begin, StepStage
  <2>. QED
    BY <1>5, <1>a, <2>1 DEF Begin
<1>6. CASE StepBody \/ Fault
  BY <1>6, <1>a
     DEF StepBody, PublishSalt, BuildPack, PublishPack, WritePack, ReadPack,
         Execute, WriteExecutions, Score, SubmitWeights, Fault, SubmitFails,
         StepRaises, Attempt, StepStage
<1>7. CASE Record
  BY <1>7, <1>a DEF Record, StepReturns, Save, Publish
<1>8. CASE UNCHANGED vars
  <2>1. UNCHANGED <<head, tickBlock, pc>>
    BY <1>8 DEF vars
  <2>2. ExecutionHolds(head)' <=> ExecutionHolds(head)
    BY <2>1 DEF ExecutionHolds, Executing, TickOffset
  <2>. QED
    BY <2>1, <2>2
<1>. QED
  BY <1>1, <1>2, <1>3, <1>4, <1>5, <1>6, <1>7, <1>8 DEF PromptNext, Work, Tick

(* While a round executes no other is live: its execution window is over   *)
(* before the next round opens.                                            *)
ExecutesAlone == execution_close_offset <= blocks_per_day + salt_commit_offset

(* Of two rounds the later is at least a day behind the other.             *)
LEMMA DaysApart ==
  ASSUME NEW r \in Rounds, NEW q \in Rounds, r < q, NEW b \in Nat
  PROVE  /\ offset_in(q, b) + blocks_per_day <= offset_in(r, b)
         /\ offset_in(q, b) \in Int /\ offset_in(r, b) \in Int
<1> DEFINE n == blocks_per_day
<1>1. r \in Nat /\ q \in Nat /\ n \in Nat /\ reveal_offset \in Int
  BY CycleAssumption, DriverAssumption DEF CycleAssumption, DriverAssumption
<1>2. PICK d \in Nat : q = r + 1 + d
  <2>1. q - r - 1 \in Nat /\ q = r + 1 + (q - r - 1)
    BY <1>1
  <2>. QED
    BY <2>1
<1>3. PICK e \in Int : e = r * n
  BY <1>1
<1>4. PICK f \in Nat : f = d * n
  BY <1>1
<1>5. q * n = e + n + f
  BY <1>1, <1>2, <1>3, <1>4
<1>6. offset_in(r, b) = b - e + reveal_offset /\ offset_in(q, b) = b - (e + n + f) + reveal_offset
  BY <1>3, <1>5 DEF offset_in, epoch_start_of
<1> HIDE DEF n
<1>7. offset_in(q, b) + n <= offset_in(r, b) /\ offset_in(q, b) \in Int /\ offset_in(r, b) \in Int
  BY <1>1, <1>3, <1>4, <1>6
<1>. QED
  BY <1>7 DEF n

(* So a round that has its salt or its pack to commit is not kept waiting  *)
(* by another's EXECUTE.                                                   *)
LEMMA NobodyExecutes ==
  ASSUME ExecutesAlone, NEW r \in Rounds, NEW q \in Rounds, NEW b \in Nat,
         salt_commit_offset <= offset_in(r, b), offset_in(r, b) < pack_commit_offset
  PROVE  \/ offset_in(q, b) < windows[EXECUTE].opens
         \/ windows[EXECUTE].closes <= offset_in(q, b)
<1>1. /\ windows[EXECUTE].opens = reveal_offset
      /\ windows[EXECUTE].closes = execution_close_offset
  BY DEF windows, Step, COMMIT_SALT, GENERATE, EXECUTE, SCORE, SUBMIT_WEIGHTS
<1>2. /\ blocks_per_day \in Nat \ {0} /\ salt_commit_offset \in Int
      /\ pack_commit_offset \in Int /\ reveal_offset \in Int
      /\ execution_close_offset \in Int /\ pack_commit_offset < reveal_offset
      /\ r \in Int /\ q \in Int
  BY CycleAssumption, DriverAssumption DEF CycleAssumption, DriverAssumption
<1>3. CASE q < r
  BY <1>1, <1>2, <1>3, DaysApart DEF ExecutesAlone
<1>4. CASE r < q
  BY <1>1, <1>2, <1>4, DaysApart
<1>5. CASE r = q
  BY <1>1, <1>2, <1>5, OffsetMoves
<1>. QED
  BY <1>2, <1>3, <1>4, <1>5

-----------------------------------------------------------------------------
(* On schedule *)

(* At block b the next step of r is still to open, or still to close;      *)
(* unless r has been given up on, or is no longer live.                    *)
Ahead(r, b) ==
  \/ rounds[r].abandoned # NotAbandoned
  \/ round_closes <= offset_in(r, b)
  \/ \A s \in Step : FirstNotDone(s, rounds[r].done)
                       => offset_in(r, b) < windows[s].opens

OnTime(r, b) ==
  \/ rounds[r].abandoned # NotAbandoned
  \/ round_closes <= offset_in(r, b)
  \/ \A s \in Step : FirstNotDone(s, rounds[r].done)
                       => offset_in(r, b) < windows[s].closes

(* A tick leaves every round waiting for a window to open; when the head   *)
(* is read again, no window that was still to open has closed.             *)
OnSchedule ==
  /\ pc \in {"idle", "down"} => pending = {}
  /\ tickBlock = 0 => \A r \in Rounds : OnTime(r, head)
  /\ \A r \in pending : OnTime(r, tickBlock) /\ IsLive(r, tickBlock)
  /\ tickBlock # 0 =>
       \A r \in Rounds : \/ r \in pending
                         \/ r = at /\ pc \in StepStage \cup {"save"}
                         \/ Ahead(r, tickBlock)
  /\ \A r \in Rounds : rounds[r].abandoned # WindowClosed
  /\ pc = "save" => produced.abandoned # WindowClosed
  /\ pc \in StepStage \cup {"save"} => at \notin pending

(* No window is empty, and each opens no sooner than the one before has    *)
(* closed.                                                                 *)
LEMMA WindowsApart ==
  ASSUME NEW s \in Step
  PROVE  /\ windows[s].opens \in Int /\ windows[s].closes \in Int
         /\ round_opens \in Int /\ round_closes \in Int
         /\ round_opens <= windows[s].opens
         /\ windows[s].opens < windows[s].closes
         /\ windows[s].closes <= round_closes
         /\ \A t \in Step : s < t => windows[s].closes <= windows[t].opens
BY CycleAssumption
   DEF CycleAssumption, windows, Step, round_opens, round_closes, COMMIT_SALT,
       GENERATE, EXECUTE, SCORE, SUBMIT_WEIGHTS

(* Every window is at least as wide as the delay.                          *)
WindowsAsWide ==
  \A s \in Step : windows[s].opens + Delay <= windows[s].closes

LEMMA AheadIsOnTime ==
  ASSUME WindowsAsWide, NEW r \in Rounds, NEW b \in Nat, NEW c \in Nat,
         b <= c, c <= b + Delay, Ahead(r, b)
  PROVE  OnTime(r, c)
<1>1. /\ offset_in(r, b) \in Int /\ offset_in(r, c) \in Int
      /\ offset_in(r, c) = offset_in(r, b) + c - b
  BY OffsetType, CycleAssumption, DriverAssumption
     DEF CycleAssumption, DriverAssumption, offset_in, epoch_start_of
<1>2. /\ round_closes \in Int /\ Delay \in Nat
      /\ \A s \in Step : /\ windows[s].opens \in Int /\ windows[s].closes \in Int
                         /\ windows[s].opens + Delay <= windows[s].closes
  BY WindowsApart, CycleAssumption, DriverAssumption
     DEF CycleAssumption, DriverAssumption, round_closes, WindowsAsWide
<1>3. CASE rounds[r].abandoned # NotAbandoned
  BY <1>3 DEF OnTime
<1>4. CASE round_closes <= offset_in(r, b)
  BY <1>1, <1>2, <1>4 DEF OnTime
<1>5. ASSUME \A s \in Step : FirstNotDone(s, rounds[r].done)
                               => offset_in(r, b) < windows[s].opens
      PROVE  OnTime(r, c)
  <2>1. ASSUME NEW s \in Step, FirstNotDone(s, rounds[r].done)
        PROVE  offset_in(r, c) < windows[s].closes
    <3>1. offset_in(r, b) < windows[s].opens
      BY <1>5, <2>1
    <3>. QED
      BY <1>1, <1>2, <3>1
  <2>. QED
    BY <2>1 DEF OnTime
<1>. QED
  BY <1>3, <1>4, <1>5 DEF Ahead

(* Nor has one when the head is read again after an EXECUTE: the round's   *)
(* own next window is SCORE's, which opens as EXECUTE's closes, and the    *)
(* next round's first one opens no sooner.                                 *)
LEMMA AheadOfExecution ==
  ASSUME WindowsAsWide, ExecutesAlone, NEW r \in Rounds, NEW q \in Rounds,
         NEW b \in Nat, NEW c \in Nat, b <= c,
         windows[EXECUTE].opens <= offset_in(q, b),
         c < block_at(q, execution_close_offset) + Delay,
         Ahead(r, b)
  PROVE  OnTime(r, c)
<1>1. /\ windows[COMMIT_SALT].opens = salt_commit_offset
      /\ windows[COMMIT_SALT].closes = randomness_offset
      /\ windows[EXECUTE].opens = reveal_offset
      /\ windows[SCORE].opens = execution_close_offset
      /\ windows[SCORE].closes = weights_offset
      /\ COMMIT_SALT \in Step /\ EXECUTE \in Step /\ SCORE \in Step
  BY DEF windows, Step, COMMIT_SALT, GENERATE, EXECUTE, SCORE, SUBMIT_WEIGHTS
<1>2. /\ blocks_per_day \in Nat \ {0} /\ Delay \in Nat /\ reveal_offset \in Int
      /\ salt_commit_offset \in Int /\ randomness_offset \in Int
      /\ execution_close_offset \in Int /\ weights_offset \in Int
      /\ r \in Int /\ q \in Int /\ round_closes = blocks_per_day + reveal_offset
  BY CycleAssumption, DriverAssumption
     DEF CycleAssumption, DriverAssumption, round_closes
<1>3. /\ salt_commit_offset + Delay <= randomness_offset
      /\ execution_close_offset + Delay <= weights_offset
  BY <1>1 DEF WindowsAsWide
<1>4. \A p \in Rounds : /\ offset_in(p, b) \in Int /\ offset_in(p, c) \in Int
                        /\ offset_in(p, c) = offset_in(p, b) + c - b
  BY CycleAssumption, DriverAssumption
     DEF CycleAssumption, DriverAssumption, offset_in, epoch_start_of
<1>5. offset_in(q, c) < execution_close_offset + Delay
  <2>1. PICK e \in Int : e = epoch_start_of(q)
    BY CycleAssumption, DriverAssumption
       DEF CycleAssumption, DriverAssumption, epoch_start_of
  <2>. QED
    BY <1>2, <2>1 DEF block_at, offset_in
<1>6. CASE rounds[r].abandoned # NotAbandoned
  BY <1>6 DEF OnTime
<1>7. CASE round_closes <= offset_in(r, b)
  BY <1>2, <1>4, <1>7 DEF OnTime
<1>8. ASSUME offset_in(r, b) < round_closes, NEW s \in Step,
             FirstNotDone(s, rounds[r].done),
             offset_in(r, b) < windows[s].opens
      PROVE  offset_in(r, c) < windows[s].closes
  <2>1. r >= q
    <3>1. ASSUME r < q PROVE FALSE
      BY <1>1, <1>2, <1>8, <3>1, DaysApart
    <3>. QED
      BY <1>2, <3>1
  <2>2. /\ windows[s].opens \in Int /\ windows[s].closes \in Int
        /\ randomness_offset <= windows[s].closes
    BY <1>1, <1>2, WindowsInOrder, WindowsApart DEF Step, COMMIT_SALT
  <2>3. CASE r = q
    <3>1. EXECUTE < s
      <4>1. ASSUME s <= EXECUTE PROVE windows[s].opens <= reveal_offset
        BY <1>1, <2>2, <4>1, WindowsApart DEF Step, EXECUTE
      <4>. QED
        BY <1>1, <1>2, <1>4, <1>8, <2>2, <2>3, <4>1 DEF Step, EXECUTE
    <3>2. weights_offset <= windows[s].closes
      BY <1>1, <1>2, <2>2, <3>1, WindowsInOrder DEF Step, EXECUTE, SCORE
    <3>. QED
      BY <1>2, <1>3, <1>4, <1>5, <2>2, <2>3, <3>2
  <2>4. CASE q < r
    <3>1. offset_in(r, c) + blocks_per_day <= offset_in(q, c)
      BY <2>4, DaysApart
    <3>. QED
      BY <1>2, <1>3, <1>4, <1>5, <2>2, <3>1 DEF ExecutesAlone
  <2>. QED
    BY <1>2, <2>1, <2>3, <2>4
<1>9. ASSUME offset_in(r, b) < round_closes,
             \A s \in Step : FirstNotDone(s, rounds[r].done)
                               => offset_in(r, b) < windows[s].opens
      PROVE  OnTime(r, c)
  BY <1>8, <1>9 DEF OnTime
<1>. QED
  BY <1>2, <1>4, <1>6, <1>7, <1>9 DEF Ahead

(* A round that is not live yet waits for COMMIT_SALT or a later step.     *)
LEMMA NotYetLiveIsAhead ==
  ASSUME NEW r \in Rounds, NEW b \in Nat, ~ IsLive(r, b)
  PROVE  Ahead(r, b)
<1>1. offset_in(r, b) \in Int /\ round_opens \in Int /\ round_closes \in Int
  BY OffsetMoves, CycleAssumption DEF CycleAssumption, round_opens, round_closes
<1>. QED
  BY <1>1, WindowsApart DEF Ahead, IsLive

(* A step begun in its window leaves its successor waiting.                *)
LEMMA AdvanceIsAhead ==
  ASSUME NEW r \in Rounds, NEW b \in Nat, NEW done, NEW s \in Step,
         FirstNotDone(s, done), offset_in(r, b) < windows[s].closes,
         NEW t \in Step, FirstNotDone(t, done \cup {s})
  PROVE  offset_in(r, b) < windows[t].opens
<1>1. s < t
  BY DEF FirstNotDone, Step
<1>2. offset_in(r, b) \in Int /\ windows[s].closes \in Int /\ windows[t].opens \in Int
  BY OffsetMoves, WindowsApart
<1>3. windows[s].closes <= windows[t].opens
  BY <1>1, WindowsApart
<1>. QED
  BY <1>2, <1>3

(* No round is live when the validator is started whose salt window has    *)
(* closed: of such a round the first window has been missed already.       *)
StartedInTime ==
  \A b \in StartBlocks, r \in Rounds :
    IsLive(r, b) => offset_in(r, b) < randomness_offset

LEMMA ScheduleInit == Init /\ StartedInTime => OnSchedule
<1> SUFFICES ASSUME Init, StartedInTime PROVE OnSchedule
  OBVIOUS
<1>1. head \in Nat \ {0} /\ head \in StartBlocks /\ tickBlock = 0
  BY DriverAssumption DEF Init, DriverAssumption
<1>2. ASSUME NEW r \in Rounds PROVE OnTime(r, head)
  <2>1. CASE IsLive(r, head)
    <3>1. COMMIT_SALT \in Step /\ windows[COMMIT_SALT].closes = randomness_offset
      BY DEF windows, Step, COMMIT_SALT, GENERATE, EXECUTE, SCORE, SUBMIT_WEIGHTS
    <3>2. rounds[r].done = {}
      BY DEF Init, Fresh
    <3>3. \A s \in Step : FirstNotDone(s, {}) => s = COMMIT_SALT
      BY DEF Step, COMMIT_SALT, FirstNotDone
    <3>4. offset_in(r, head) < randomness_offset
      BY <1>1, <2>1 DEF StartedInTime
    <3>. QED
      BY <3>1, <3>2, <3>3, <3>4 DEF OnTime
  <2>2. CASE ~ IsLive(r, head)
    <3>1. Ahead(r, head) /\ offset_in(r, head) \in Int
      BY <1>1, <2>2, NotYetLiveIsAhead, OffsetMoves
    <3>2. \A s \in Step : /\ windows[s].opens \in Int /\ windows[s].closes \in Int
                         /\ windows[s].opens < windows[s].closes
      BY WindowsApart
    <3>. QED
      BY <3>1, <3>2 DEF Ahead, OnTime
  <2>. QED
    BY <2>1, <2>2
<1>. QED
  BY <1>1, <1>2 DEF Init, OnSchedule, Fresh, NotAbandoned, WindowClosed

LEMMA ScheduleStep ==
  ASSUME TypeInv, InOrder, WithinDelay, OnSchedule, OpensWithinADay,
         WindowsAsWide, ExecutesAlone, [PromptNext]_vars
  PROVE  OnSchedule'
<1> USE DEF OnSchedule, chain, stores, local
<1>0. head \in Nat /\ tickBlock \in Nat /\ tickBlock <= head
  BY DEF InOrder, TypeInv, TypeOK
(* While a step runs, only where it is changes.                            *)
<1>a. ASSUME UNCHANGED <<rounds, tickBlock, pending, at>>, tickBlock # 0,
             pc \in StepStage, pc' \in StepStage
      PROVE  OnSchedule'
  BY <1>a DEF Ahead, OnTime, StepStage
<1>1. CASE PromptMine
  <2>1. /\ tickBlock # 0
        /\ UNCHANGED <<rounds, tickBlock, pending, at, pc, produced>>
    BY <1>1 DEF PromptMine, MineBlock
  <2>. QED
    BY <2>1 DEF Ahead, OnTime, StepStage
<1>2. CASE StartTick
  <2>1. /\ pc = "idle" /\ pc' = "tick" /\ tickBlock' = head /\ pending = {}
        /\ pending' = live_rounds(head) \cap Rounds
        /\ UNCHANGED <<rounds, head>>
    BY <1>2 DEF StartTick
  <2>2. \A r \in live_rounds(head) : IsLive(r, head)
    BY DEF live_rounds
  <2>3. ASSUME NEW r \in Rounds PROVE OnTime(r, head)
    <3>1. CASE tickBlock = 0
      BY <3>1
    <3>2. CASE tickBlock # 0
      <4>1. Ahead(r, tickBlock)
        BY <2>1, <3>2 DEF StepStage
      <4>2. CASE head <= tickBlock + Delay
        BY <1>0, <4>1, <4>2, AheadIsOnTime
      <4>3. ASSUME NEW q \in Rounds, Executing(q),
                   head < block_at(q, execution_close_offset) + Delay
            PROVE  OnTime(r, head)
        BY <1>0, <4>1, <4>3, AheadOfExecution DEF Executing, TickOffset
      <4>. QED
        BY <3>2, <4>2, <4>3 DEF WithinDelay, ExecutionHolds
    <3>. QED
      BY <3>1, <3>2
  <2>4. \A r \in Rounds : r \in pending' \/ Ahead(r, head)
    BY <1>0, <2>1, LiveRoundsAreAll, NotYetLiveIsAhead
  <2>5. head # 0
    BY DEF WithinDelay
  <2>6. \A r \in Rounds : /\ OnTime(r, head)' <=> OnTime(r, head)
                          /\ Ahead(r, head)' <=> Ahead(r, head)
    BY <2>1 DEF OnTime, Ahead
  <2>7. \A r \in Rounds : /\ OnTime(r, tickBlock)' <=> OnTime(r, head)
                          /\ Ahead(r, tickBlock)' <=> Ahead(r, head)
    BY <2>1 DEF OnTime, Ahead
  <2>. QED
    BY <2>1, <2>2, <2>3, <2>4, <2>5, <2>7 DEF StepStage
<1>3. CASE EndTick
  BY <1>3 DEF EndTick, OnTime, Ahead, StepStage, WithinDelay
<1>4. ASSUME NEW r \in Rounds, Skip(r) PROVE OnSchedule'
  <2>1. /\ pc = "tick" /\ pc' = "tick"
        /\ pending' = pending \ {r}
        /\ UNCHANGED <<rounds, head, tickBlock>>
    BY <1>4 DEF Skip
  <2>2. Ahead(r, tickBlock)
    <3>1. CASE rounds[r].abandoned # NotAbandoned
      BY <3>1 DEF Ahead
    <3>2. CASE decide_Complete(rounds[r].done)
      BY <3>2 DEF decide_Complete, FirstNotDone, Ahead
    <3>3. ASSUME NEW s \in Step, decide_Wait(s, TickOffset(r), rounds[r].done)
          PROVE  Ahead(r, tickBlock)
      <4>1. \A t \in Step : FirstNotDone(t, rounds[r].done) => t = s
        BY <3>3 DEF decide_Wait, FirstNotDone, Step
      <4>. QED
        BY <2>1, <3>3, <4>1 DEF decide_Wait, TickOffset, Ahead
    <3>. QED
      BY <1>4, <3>1, <3>2, <3>3 DEF Skip
  <2>. QED
    BY <2>1, <2>2 DEF OnTime, Ahead, StepStage, WithinDelay
(* Nothing the tick has to look at has missed its window.                  *)
<1>5. ASSUME NEW r \in Rounds, Abandon(r) PROVE OnSchedule'
  <2>1. r \in pending /\ rounds[r].abandoned = NotAbandoned
    BY <1>5 DEF Abandon, Oldest
  <2>2. PICK s \in Step : decide_Abandon(s, offset_in(r, tickBlock), rounds[r].done)
    BY <1>5 DEF Abandon, TickOffset
  <2>3. /\ offset_in(r, tickBlock) \in Int /\ round_closes \in Int
        /\ windows[s].closes \in Int
    BY <1>0, OffsetMoves, WindowsApart
  <2>4. offset_in(r, tickBlock) < round_closes
    BY <2>1 DEF IsLive
  <2>5. offset_in(r, tickBlock) < windows[s].closes
    BY <2>1, <2>2, <2>3, <2>4 DEF OnTime, decide_Abandon
  <2>. QED
    BY <2>2, <2>3, <2>5 DEF decide_Abandon
<1>6. ASSUME NEW r \in Rounds, NEW s \in Step, Begin(r, s) PROVE OnSchedule'
  <2>1. /\ pc = "tick" /\ at' = r /\ tickBlock # 0
        /\ pending' = pending \ {r}
        /\ UNCHANGED <<rounds, head, tickBlock>>
    BY <1>6 DEF Begin, WithinDelay
  <2>2. pc' \in StepStage
    BY <1>6, EntryStage DEF Begin
  <2>. QED
    BY <2>1, <2>2 DEF OnTime, Ahead, StepStage
<1>7. CASE StepBody \/ SubmitFails
  BY <1>7, <1>a
     DEF StepBody, PublishSalt, BuildPack, PublishPack, WritePack, ReadPack,
         Execute, WriteExecutions, Score, SubmitWeights, SubmitFails, Attempt,
         StepStage, WithinDelay
<1>8. CASE StepReturns \/ StepRaises
  <2>1. /\ UNCHANGED <<rounds, head, tickBlock, pending, at>> /\ tickBlock # 0
        /\ pc \in StepStage /\ pc' = "save" /\ at \in Rounds
    BY <1>8 DEF StepReturns, StepRaises, TypeInv, Focus, StepStage, WithinDelay
  <2>2. produced'.abandoned # WindowClosed
    BY <1>8, <2>1
       DEF StepReturns, StepRaises, InOrder, TypeInv, TypeOK, RoundState,
           NotAbandoned, StepFailed, WindowClosed
  <2>. QED
    BY <2>1, <2>2 DEF OnTime, Ahead, StepStage
<1>9. CASE Save
  <2>1. /\ at \in Rounds /\ pc = "save" /\ pc' \in {"publish", "tick"}
        /\ tickBlock # 0 /\ UNCHANGED <<head, tickBlock, pending>>
        /\ \A r \in Rounds : rounds'[r] = IF r = at THEN produced ELSE rounds[r]
    BY <1>9 DEF Save, TypeInv, TypeOK, Focus, WithinDelay
  <2>2. at \notin pending
    BY <2>1
  <2>3. \/ produced.abandoned # NotAbandoned
        \/ \A t \in Step : FirstNotDone(t, produced.done)
                             => offset_in(at, tickBlock) < windows[t].opens
    BY <1>0, <2>1, AdvanceIsAhead DEF InOrder, TickOffset, StepStage
  <2>4. \/ rounds'[at].abandoned # NotAbandoned
        \/ \A t \in Step : FirstNotDone(t, rounds'[at].done)
                             => offset_in(at, tickBlock) < windows[t].opens
    BY <2>1, <2>3
  <2>5. \A r \in Rounds \ {at} : (OnTime(r, tickBlock)' <=> OnTime(r, tickBlock))
                              /\ (Ahead(r, tickBlock)' <=> Ahead(r, tickBlock))
    BY <2>1 DEF OnTime, Ahead
  <2>6. \A r \in Rounds : r = at => Ahead(r, tickBlock)'
    BY <2>1, <2>4 DEF Ahead
  <2>. QED
    <3>1. \A r \in Rounds : r \in pending' \/ Ahead(r, tickBlock)'
      BY <2>1, <2>5, <2>6
    <3>2. \A r \in pending' : OnTime(r, tickBlock)' /\ IsLive(r, tickBlock')
      BY <2>1, <2>2, <2>5 DEF TypeInv, TypeOK
    <3>3. \A r \in Rounds : rounds'[r].abandoned # WindowClosed
      BY <2>1
    <3>. QED
      BY <2>1, <3>1, <3>2, <3>3 DEF StepStage
<1>10. CASE Publish
  <2>1. /\ pc = "publish" /\ pc' = "tick" /\ tickBlock # 0
        /\ UNCHANGED <<rounds, head, tickBlock, pending>>
    BY <1>10 DEF Publish, WithinDelay
  <2>. QED
    BY <2>1 DEF OnTime, Ahead, StepStage
<1>11. CASE UNCHANGED vars
  BY <1>11 DEF vars, OnTime, Ahead
<1>. QED
  BY <1>1, <1>2, <1>3, <1>4, <1>5, <1>6, <1>7, <1>8, <1>9, <1>10, <1>11
     DEF PromptNext, Work, Tick, Record, Fault

(* Only a step that raises ends a round early: of rounds that share its    *)
(* ticks none misses a window, whatever the others' steps take, if windows *)
(* are as wide as the process may be late, and though an EXECUTE takes the *)
(* whole of its own, if that is over before the next round opens.  A round *)
(* must open at most a day before its reveal for live_rounds to find it,   *)
(* and a validator started in the middle of a round has missed that one's  *)
(* first window.                                                           *)
THEOREM PromptMissesNothing ==
  OpensWithinADay /\ StartedInTime /\ WindowsAsWide /\ ExecutesAlone
    => (PromptSpec => []NoWindowMissed)
<1> SUFFICES ASSUME OpensWithinADay, StartedInTime, WindowsAsWide, ExecutesAlone
             PROVE  PromptSpec => []NoWindowMissed
  OBVIOUS
<1> DEFINE Inv == TypeInv /\ InOrder /\ WithinDelay /\ OnSchedule
<1>1. Init => Inv
  BY TypeInit, OrderInit, DelayInit, ScheduleInit
<1>2. Inv /\ [PromptNext]_vars => Inv'
  BY PromptIsNext, TypeStep, OrderStep, DelayStep, ScheduleStep
<1>3. Inv => NoWindowMissed
  BY DEF OnSchedule, NoWindowMissed
<1>. QED
  BY <1>1, <1>2, <1>3, PTL DEF PromptSpec

-----------------------------------------------------------------------------
(* Once *)

(* Where a salt, or a pack, of r may be out that no document records.      *)
Salting(r) == r = at /\ (pc = "save" \/ (pc = "return" /\ step = COMMIT_SALT))

Packing(r) == r = at /\ \/ pc \in {"write_pack", "read_pack", "save"}
                        \/ pc = "return" /\ step = GENERATE

Unsalted(r) == SaltsOf(r) = {}

Unpacked(r) == PacksOf(r) = {} /\ packs[r] = None

(* The pack k is the one of r's last pack commitment.                      *)
VouchedFor(r, k) == \E c \in PacksOf(r) : IsLast(c, PacksOf(r)) /\ c.pack = k

(* A pack hash is on chain before GENERATE's window closes, but for the    *)
(* delay.                                                                  *)
PackLateByDelay ==
  \A c \in log : c.kind = "pack" =>
                    c.block < block_at(c.round, pack_commit_offset) + Delay

(* A round not given up on whose document does not have a step yet has     *)
(* nothing of that step on chain or in the store either.                   *)
Once ==
  /\ \A c \in log : c.n <= serial
  /\ pc = "commit_salt" => step = COMMIT_SALT
  /\ pc \in Generating => step = GENERATE
  /\ \A r \in Rounds : rounds[r].abandoned = NotAbandoned =>
       /\ COMMIT_SALT \notin rounds[r].done /\ ~ Salting(r) => Unsalted(r)
       /\ GENERATE \notin rounds[r].done /\ ~ Packing(r) => Unpacked(r)
  /\ pc = "save" /\ produced.abandoned = NotAbandoned =>
       /\ COMMIT_SALT \in produced.done
       /\ GENERATE \notin produced.done => Unpacked(at)
  /\ pc = "write_pack" => VouchedFor(at, produced.pack)
  /\ OneSaltPerRound
  /\ ExecutesAlone => SaltLateByDelay /\ PackLateByDelay
  /\ StoredPackIsVouchedFor

LEMMA OnceInit == Init => Once
BY DEF Init, Once, OneSaltPerRound, SaltLateByDelay, PackLateByDelay,
       StoredPackIsVouchedFor, Unsalted, Unpacked, SaltsOf, PacksOf, None, Generating

(* A step that may publish a salt or a pack was in its window when the     *)
(* head was last read.                                                     *)
LEMMA InItsWindow ==
  ASSUME TypeInv, InOrder, WithinDelay, Once, pc \in Generating \cup {"commit_salt"}
  PROVE  /\ at \in Rounds
         /\ step \notin rounds[at].done
         /\ rounds[at].abandoned = NotAbandoned
         /\ ExecutesAlone =>
              /\ step = COMMIT_SALT => head < block_at(at, randomness_offset) + Delay
              /\ step = GENERATE => head < block_at(at, pack_commit_offset) + Delay
<1>1. /\ pc \in StepStage /\ at \in Rounds /\ tickBlock \in Nat /\ head \in Nat
      /\ FirstNotDone(step, rounds[at].done) /\ rounds[at].abandoned = NotAbandoned
      /\ windows[step].opens <= offset_in(at, tickBlock)
      /\ offset_in(at, tickBlock) < windows[step].closes
      /\ step \in {COMMIT_SALT, GENERATE} /\ tickBlock # 0
  BY DEF StepStage, Generating, TypeInv, TypeOK, Focus, InOrder, TickOffset, Once,
         WithinDelay
<1>2. /\ windows[COMMIT_SALT].closes = randomness_offset
      /\ windows[GENERATE].closes = pack_commit_offset
      /\ windows[COMMIT_SALT].opens = salt_commit_offset
      /\ windows[GENERATE].opens = randomness_offset + 1
  BY DEF windows, Step, COMMIT_SALT, GENERATE, EXECUTE, SCORE, SUBMIT_WEIGHTS
<1>5. /\ salt_commit_offset \in Int /\ randomness_offset \in Int
      /\ pack_commit_offset \in Int /\ Delay \in Nat
      /\ salt_commit_offset < randomness_offset
      /\ randomness_offset < pack_commit_offset
      /\ offset_in(at, tickBlock) \in Int
  BY <1>1, OffsetMoves, CycleAssumption, DriverAssumption
     DEF CycleAssumption, DriverAssumption
<1>3. ASSUME ExecutesAlone PROVE head <= tickBlock + Delay
  <2>1. /\ salt_commit_offset <= offset_in(at, tickBlock)
        /\ offset_in(at, tickBlock) < pack_commit_offset
    BY <1>1, <1>2, <1>5
  <2>2. ASSUME NEW q \in Rounds, Executing(q) PROVE FALSE
    <3>1. /\ windows[EXECUTE].opens <= offset_in(q, tickBlock)
          /\ offset_in(q, tickBlock) < windows[EXECUTE].closes
      BY <2>2 DEF Executing, TickOffset
    <3>2. /\ windows[EXECUTE].opens \in Int /\ windows[EXECUTE].closes \in Int
          /\ offset_in(q, tickBlock) \in Int
      BY <1>1, OffsetMoves, WindowsApart DEF Step, EXECUTE
    <3>. QED
      BY <1>1, <1>3, <2>1, <3>1, <3>2, NobodyExecutes
  <2>. QED
    BY <1>1, <2>2 DEF WithinDelay, ExecutionHolds
<1>4. ASSUME ExecutesAlone, NEW o \in Int, offset_in(at, tickBlock) < o
      PROVE  head < block_at(at, o) + Delay
  <2>1. PICK e \in Int : e = epoch_start_of(at)
    BY <1>1, CycleAssumption, DriverAssumption
       DEF CycleAssumption, DriverAssumption, epoch_start_of
  <2>2. tickBlock - e + reveal_offset < o /\ reveal_offset \in Int
    BY <1>4, <2>1, CycleAssumption DEF offset_in, CycleAssumption
  <2>. QED
    BY <1>1, <1>3, <1>4, <1>5, <2>1, <2>2 DEF block_at
<1>6. ExecutesAlone /\ step = COMMIT_SALT
        => head < block_at(at, randomness_offset) + Delay
  BY <1>1, <1>2, <1>4, <1>5
<1>7. ExecutesAlone /\ step = GENERATE
        => head < block_at(at, pack_commit_offset) + Delay
  BY <1>1, <1>2, <1>4, <1>5
<1>. QED
  BY <1>1, <1>6, <1>7 DEF FirstNotDone

LEMMA OnceStep ==
  TypeInv /\ InOrder /\ WithinDelay /\ Once /\ [PromptNext]_vars => Once'
<1> SUFFICES ASSUME TypeInv, InOrder, WithinDelay, Once, [PromptNext]_vars PROVE Once'
  OBVIOUS
<1> USE DEF Once, chain, stores, local
<1> DEFINE kept == <<head, tickBlock, log, serial, rounds, packs>>
(* What leaves chain and store alone need only account for the stage.      *)
<1>a. ASSUME UNCHANGED <<log, serial, rounds, packs>>,
             pc' = "commit_salt" => step' = COMMIT_SALT,
             pc' \in Generating => step' = GENERATE,
             \A r \in Rounds : rounds[r].abandoned = NotAbandoned =>
               /\ COMMIT_SALT \notin rounds[r].done /\ Salting(r) => Salting(r)'
               /\ GENERATE \notin rounds[r].done /\ Packing(r) => Packing(r)',
             pc' = "save" /\ produced'.abandoned = NotAbandoned =>
               /\ COMMIT_SALT \in produced'.done
               /\ GENERATE \notin produced'.done => Unpacked(at)',
             pc' = "write_pack" => VouchedFor(at, produced.pack)'
      PROVE  Once'
  <2>1. \A r : SaltsOf(r)' = SaltsOf(r) /\ PacksOf(r)' = PacksOf(r)
    BY <1>a DEF SaltsOf, PacksOf
  <2>2. \A r \in Rounds : Unsalted(r)' = Unsalted(r) /\ Unpacked(r)' = Unpacked(r)
    BY <1>a, <2>1 DEF Unsalted, Unpacked
  <2>3. /\ OneSaltPerRound' /\ StoredPackIsVouchedFor'
        /\ ExecutesAlone => SaltLateByDelay' /\ PackLateByDelay'
    BY <1>a, <2>1 DEF OneSaltPerRound, SaltLateByDelay, PackLateByDelay,
                      StoredPackIsVouchedFor, IsLast
  <2>4. \A r \in Rounds : rounds'[r].abandoned = NotAbandoned =>
          /\ COMMIT_SALT \notin rounds'[r].done /\ ~ Salting(r)' => Unsalted(r)'
          /\ GENERATE \notin rounds'[r].done /\ ~ Packing(r)' => Unpacked(r)'
    BY <1>a, <2>2
  <2>. QED
    BY <1>a, <2>3, <2>4
<1>1. CASE PromptMine
  <2>1. UNCHANGED <<log, serial, rounds, packs, pc, at, step, produced>>
    BY <1>1 DEF PromptMine, MineBlock
  <2>2. \A r : Salting(r)' = Salting(r) /\ Packing(r)' = Packing(r)
    BY <2>1 DEF Salting, Packing
  <2>3. /\ Unpacked(at)' = Unpacked(at)
        /\ VouchedFor(at, produced.pack)' = VouchedFor(at, produced.pack)
    BY <2>1 DEF Unpacked, PacksOf, VouchedFor, IsLast
  <2>. QED
    BY <1>a, <2>1, <2>2, <2>3
<1>2. CASE StartTick \/ EndTick
  BY <1>2, <1>a DEF StartTick, EndTick, Generating, Salting, Packing
<1>3. ASSUME NEW r \in Rounds, Skip(r) PROVE Once'
  BY <1>3, <1>a DEF Skip, Generating, Salting, Packing
<1>4. ASSUME NEW r \in Rounds, Abandon(r) PROVE Once'
  <2>1. produced'.abandoned = WindowClosed
    BY <1>4 DEF Abandon, TypeInv, TypeOK, RoundState
  <2>. QED
    BY <1>4, <1>a, <2>1
       DEF Abandon, Generating, Salting, Packing, NotAbandoned, WindowClosed
<1>5. ASSUME NEW r \in Rounds, NEW s \in Step, Begin(r, s) PROVE Once'
  <2>1. /\ pc = "tick" /\ pc' = Entry(s) /\ step' = s /\ at' = r
        /\ UNCHANGED kept
    BY <1>5 DEF Begin
  <2>2. \A q \in Rounds : ~ Salting(q) /\ ~ Packing(q)
    BY <2>1 DEF Salting, Packing
  <2>3. /\ pc' \notin {"save", "write_pack"}
        /\ pc' = "commit_salt" => step' = COMMIT_SALT
        /\ pc' \in Generating => step' = GENERATE
    BY <2>1, EntryStage DEF StepStage, Generating
  <2>. QED
    BY <1>a, <2>1, <2>2, <2>3
<1>6. CASE PublishSalt
  <2> DEFINE c == [kind |-> "salt", round |-> at, n |-> serial',
                   salt |-> serial', pack |-> None, block |-> head]
  <2>1. /\ pc = "commit_salt" /\ pc' = "return" /\ step = COMMIT_SALT
        /\ UNCHANGED <<head, tickBlock, rounds, packs, at, step>>
        /\ serial \in Nat /\ serial' = serial + 1 /\ log' = log \cup {c}
        /\ log \subseteq Commitment
    BY <1>6 DEF PublishSalt, TypeInv, TypeOK
  <2>2. /\ at \in Rounds /\ COMMIT_SALT \notin rounds[at].done
        /\ rounds[at].abandoned = NotAbandoned
        /\ ExecutesAlone => head < block_at(at, randomness_offset) + Delay
    BY <2>1, InItsWindow
  <2>3. SaltsOf(at) = {}
    BY <2>1, <2>2 DEF Salting, Unsalted
  <2>4. /\ \A r \in Rounds : r # at => SaltsOf(r)' = SaltsOf(r)
        /\ \A r : PacksOf(r)' = PacksOf(r)
    BY <2>1 DEF SaltsOf, PacksOf
  <2>5. \A d \in log' : d.n <= serial'
    BY <2>1, SMT DEF Commitment
  <2>6. OneSaltPerRound'
    BY <2>1, <2>3 DEF OneSaltPerRound, SaltsOf
  <2>7. ExecutesAlone => SaltLateByDelay' /\ PackLateByDelay'
    BY <2>1, <2>2 DEF SaltLateByDelay, PackLateByDelay
  <2>8. StoredPackIsVouchedFor'
    BY <2>1, <2>4 DEF StoredPackIsVouchedFor, IsLast
  <2>9. \A r \in Rounds : rounds[r].abandoned = NotAbandoned =>
          /\ COMMIT_SALT \notin rounds[r].done /\ ~ Salting(r)' => Unsalted(r)'
          /\ GENERATE \notin rounds[r].done /\ ~ Packing(r)' => Unpacked(r)'
    BY <2>1, <2>4 DEF Salting, Packing, Unsalted, Unpacked, COMMIT_SALT, GENERATE
  <2>. QED
    BY <2>1, <2>5, <2>6, <2>7, <2>8, <2>9 DEF Generating
<1>7. CASE BuildPack
  BY <1>7, <1>a
     DEF BuildPack, Generating, Salting, Packing, COMMIT_SALT, GENERATE
<1>8. CASE PublishPack
  <2> DEFINE p == [kind |-> "pack", round |-> at, n |-> serial',
                   salt |-> rounds[at].salt, pack |-> serial', block |-> head]
  <2>1. /\ pc = "publish_pack" /\ pc' = "write_pack" /\ step = GENERATE
        /\ UNCHANGED <<head, tickBlock, rounds, packs, at, step>>
        /\ serial \in Nat /\ serial' = serial + 1 /\ log' = log \cup {p}
        /\ log \subseteq Commitment
        /\ produced'.pack = serial'
    BY <1>8 DEF PublishPack, TypeInv, TypeOK, RoundState, Generating
  <2>2. /\ at \in Rounds /\ GENERATE \notin rounds[at].done
        /\ rounds[at].abandoned = NotAbandoned
        /\ ExecutesAlone => head < block_at(at, pack_commit_offset) + Delay
    BY <2>1, InItsWindow DEF Generating
  <2>3. PacksOf(at) = {} /\ packs[at] = None
    BY <2>1, <2>2 DEF Packing, Unpacked
  <2>4. /\ \A r \in Rounds : r # at => PacksOf(r)' = PacksOf(r)
        /\ \A r : SaltsOf(r)' = SaltsOf(r)
        /\ PacksOf(at)' = {p}
    BY <2>1, <2>3 DEF SaltsOf, PacksOf
  <2>5. \A d \in log' : d.n <= serial'
    BY <2>1, SMT DEF Commitment
  <2>6. VouchedFor(at, produced.pack)'
    <3>1. p.n = serial' /\ p.pack = serial' /\ serial' <= serial'
      BY <2>1
    <3> HIDE DEF p
    <3>. QED
      BY <2>1, <2>4, <3>1 DEF VouchedFor, IsLast
  <2>7. OneSaltPerRound' /\ (ExecutesAlone => SaltLateByDelay')
    BY <2>1 DEF OneSaltPerRound, SaltLateByDelay
  <2>8. ExecutesAlone => PackLateByDelay'
    BY <2>1, <2>2 DEF PackLateByDelay
  <2>9. StoredPackIsVouchedFor'
    BY <2>1, <2>3, <2>4 DEF StoredPackIsVouchedFor, IsLast
  <2>10. \A r \in Rounds : rounds[r].abandoned = NotAbandoned =>
          /\ COMMIT_SALT \notin rounds[r].done /\ ~ Salting(r)' => Unsalted(r)'
          /\ GENERATE \notin rounds[r].done /\ ~ Packing(r)' => Unpacked(r)'
    BY <2>1, <2>4 DEF Salting, Packing, Unsalted, Unpacked, COMMIT_SALT, GENERATE
  <2>. QED
    BY <2>1, <2>5, <2>6, <2>7, <2>8, <2>9, <2>10 DEF Generating
<1>9. CASE WritePack
  <2>1. /\ pc = "write_pack" /\ pc' = "read_pack" /\ at \in Rounds /\ step = GENERATE
        /\ UNCHANGED <<head, tickBlock, log, serial, rounds, at, step>>
        /\ packs'[at] = produced.pack
        /\ \A r \in Rounds : r # at => packs'[r] = packs[r]
    BY <1>9 DEF WritePack, TypeInv, TypeOK, Focus, StepStage, Generating
  <2>2. \A r : PacksOf(r)' = PacksOf(r) /\ SaltsOf(r)' = SaltsOf(r)
    BY <2>1 DEF PacksOf, SaltsOf
  <2>3. StoredPackIsVouchedFor'
    BY <2>1, <2>2 DEF StoredPackIsVouchedFor, VouchedFor, IsLast
  <2>4. OneSaltPerRound' /\ (ExecutesAlone => SaltLateByDelay' /\ PackLateByDelay')
    BY <2>1 DEF OneSaltPerRound, SaltLateByDelay, PackLateByDelay
  <2>. QED
    BY <2>1, <2>2, <2>3, <2>4
       DEF Generating, Salting, Packing, Unsalted, Unpacked, COMMIT_SALT, GENERATE
<1>10. CASE ReadPack \/ Execute \/ WriteExecutions \/ Score \/ SubmitWeights \/ SubmitFails
  BY <1>10, <1>a
     DEF ReadPack, Execute, WriteExecutions, Score, SubmitWeights, SubmitFails,
         Attempt, Generating, Salting, Packing
<1>11. CASE StepReturns
  <2>1. /\ UNCHANGED <<kept, at, step>> /\ pc = "return" /\ pc' = "save"
        /\ at \in Rounds /\ step \in Step
        /\ produced'.done = rounds[at].done \cup {step}
        /\ FirstNotDone(step, rounds[at].done)
        /\ rounds[at].abandoned = NotAbandoned
    BY <1>11 DEF StepReturns, TypeInv, TypeOK, Focus, RoundState, StepStage, InOrder
  <2>2. COMMIT_SALT \in produced'.done
    BY <2>1 DEF FirstNotDone, Step, COMMIT_SALT
  <2>3. GENERATE \notin produced'.done => Unpacked(at)
    BY <2>1 DEF Packing
  <2>. QED
    BY <1>a, <2>1, <2>2, <2>3 DEF Salting, Packing, Unpacked, PacksOf, Generating
<1>12. CASE StepRaises
  <2>1. /\ UNCHANGED <<kept, at, step>> /\ pc \in StepStage /\ pc' = "save"
        /\ produced'.abandoned = StepFailed
    BY <1>12 DEF StepRaises, TypeInv, TypeOK, Focus, RoundState
  <2>. QED
    BY <1>a, <2>1
       DEF Salting, Packing, Generating, StepStage, NotAbandoned, StepFailed
<1>13. CASE Save
  <2>1. /\ at \in Rounds /\ pc = "save" /\ pc' \in {"publish", "tick"}
        /\ UNCHANGED <<head, tickBlock, log, serial, packs>>
        /\ \A r \in Rounds : rounds'[r] = IF r = at THEN produced ELSE rounds[r]
    BY <1>13 DEF Save, TypeInv, TypeOK, Focus
  <2>2. \A r : PacksOf(r)' = PacksOf(r) /\ SaltsOf(r)' = SaltsOf(r)
    BY <2>1 DEF PacksOf, SaltsOf
  <2>3. /\ StoredPackIsVouchedFor' /\ OneSaltPerRound'
        /\ ExecutesAlone => SaltLateByDelay' /\ PackLateByDelay'
    BY <2>1, <2>2
       DEF StoredPackIsVouchedFor, IsLast, OneSaltPerRound, SaltLateByDelay,
           PackLateByDelay
  <2>4. \A r \in Rounds : rounds'[r].abandoned = NotAbandoned =>
          /\ COMMIT_SALT \notin rounds'[r].done => Unsalted(r)
          /\ GENERATE \notin rounds'[r].done => Unpacked(r)
    BY <2>1 DEF Salting, Packing
  <2>5. \A r \in Rounds : Unsalted(r)' = Unsalted(r) /\ Unpacked(r)' = Unpacked(r)
    BY <2>1, <2>2 DEF Unsalted, Unpacked
  <2>. QED
    BY <2>1, <2>3, <2>4, <2>5 DEF Generating
<1>14. CASE Publish
  BY <1>14, <1>a DEF Publish, Generating, Salting, Packing
<1>15. CASE UNCHANGED vars
  <2>1. UNCHANGED <<kept, pc, at, step, produced>>
    BY <1>15 DEF vars
  <2>. QED
    BY <1>a, <2>1 DEF Salting, Packing, Unpacked, PacksOf, VouchedFor, IsLast
<1>. QED
  BY <1>1, <1>2, <1>3, <1>4, <1>5, <1>6, <1>7, <1>8, <1>9, <1>10, <1>11, <1>12,
     <1>13, <1>14, <1>15
     DEF PromptNext, Work, Tick, StepBody, Record, Fault

(* Without crashes, whatever else raises or fails.                         *)
LEMMA PromptInvariance == PromptSpec => [](TypeInv /\ InOrder /\ WithinDelay /\ Once)
<1> DEFINE Inv == TypeInv /\ InOrder /\ WithinDelay /\ Once
<1>1. Init => Inv
  BY TypeInit, OrderInit, DelayInit, OnceInit
<1>2. Inv /\ [PromptNext]_vars => Inv'
  BY PromptIsNext, TypeStep, OrderStep, DelayStep, OnceStep
<1>. QED
  BY <1>1, <1>2, PTL DEF PromptSpec

(* A round has one salt commitment: the seed it vouches for is the only    *)
(* one this validator ever drew for it.                                    *)
THEOREM PromptDrawsOneSalt == PromptSpec => []OneSaltPerRound
<1>1. Once => OneSaltPerRound
  BY DEF Once
<1>. QED
  BY <1>1, PromptInvariance, PTL

(* A salt is on chain before its round's randomness block but for the      *)
(* delay.  commit_salt_step never looks at the block its commitment lands  *)
(* in, its window closes at the randomness block itself, and another       *)
(* round's EXECUTE may hold the process up for as long as its window: if   *)
(* that is over before the next round opens, it makes no salt later.       *)
THEOREM PromptSaltsLateByDelay == ExecutesAlone => (PromptSpec => []SaltLateByDelay)
<1> SUFFICES ASSUME ExecutesAlone PROVE PromptSpec => []SaltLateByDelay
  OBVIOUS
<1>1. Once => SaltLateByDelay
  BY DEF Once
<1>. QED
  BY <1>1, PromptInvariance, PTL

(* A pack hash is on chain before the bundles of its round open, though    *)
(* GENERATE lasts many blocks and is decided on before they pass: if they  *)
(* are no more than the margin between its window and the reveal (60 or    *)
(* 100 blocks in the seasons kept with the code), and no EXECUTE reaches   *)
(* into the next round.                                                    *)
THEOREM PromptPacksWithinMargin ==
  ExecutesAlone /\ pack_commit_offset + Delay <= reveal_offset
    => (PromptSpec => []PackBeforeReveal)
<1> SUFFICES ASSUME ExecutesAlone, pack_commit_offset + Delay <= reveal_offset
             PROVE  PromptSpec => []PackBeforeReveal
  OBVIOUS
<1>1. TypeInv /\ Once => PackBeforeReveal
  <2> SUFFICES ASSUME TypeInv, Once, NEW c \in log, c.kind = "pack"
               PROVE  c.block < block_at(c.round, reveal_offset)
    BY DEF PackBeforeReveal
  <2>1. c.block < block_at(c.round, pack_commit_offset) + Delay
    BY DEF Once, PackLateByDelay
  <2>2. c.block \in Nat /\ c.round \in Rounds
    BY DEF TypeInv, TypeOK, Commitment
  <2>3. PICK e \in Int : e = epoch_start_of(c.round)
    <3>1. ASSUME NEW r \in Rounds PROVE epoch_start_of(r) \in Int
      BY CycleAssumption, DriverAssumption
         DEF CycleAssumption, DriverAssumption, epoch_start_of
    <3>. QED
      BY <2>2, <3>1
  <2>4. /\ pack_commit_offset \in Int /\ reveal_offset \in Int /\ Delay \in Nat
    BY CycleAssumption, DriverAssumption DEF CycleAssumption, DriverAssumption
  <2>. QED
    BY <2>1, <2>2, <2>3, <2>4 DEF block_at
<1>. QED
  BY <1>1, PromptInvariance, PTL

(* The stored pack is the last one the chain vouches for, at every step    *)
(* between publishing its hash and recording it, in stores that refuse a   *)
(* second pack as in those that overwrite the first.                       *)
THEOREM PromptStoresWhatItCommits == PromptSpec => []StoredPackIsVouchedFor
<1>1. Once => StoredPackIsVouchedFor
  BY DEF Once
<1>. QED
  BY <1>1, PromptInvariance, PTL
=============================================================================
