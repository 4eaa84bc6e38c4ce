-------------------------- MODULE Execution_proofs --------------------------
(***************************************************************************)
(* Proofs about Execution, for any field, pack, concurrency, wall clock    *)
(* and number of deaths.                                                   *)
(***************************************************************************)
EXTENDS Execution, FiniteSetTheorems, TLAPS

-----------------------------------------------------------------------------
(* The inductive invariant *)

(* A digest is kept by the first that is not owner-linked, and everything  *)
(* prepare_all has passed has its digest kept.                             *)
Copies ==
  /\ ready \subseteq kept
  /\ \A u \in kept :
       /\ u \notin owner_linked
       /\ \A v \in Uids \ owner_linked : bundle_digest[v] = bundle_digest[u] => u <= v
  /\ at = "preparing" =>
       \A v \in Uids \ owner_linked :
         v \notin todo => \E w \in kept : bundle_digest[w] = bundle_digest[v]

(* How far the step has come decides how it can have ended.                *)
Outcomes ==
  /\ at \in {"idle", "preparing", "prepared", "executing", "writing"} => outcome = "none"
  /\ at = "revoking" => outcome \in {"none", "raised"}
  /\ outcome = "returned" => at = "over"

(* A key of this life is held until its revocation is asked for.           *)
KeysHeld ==
  /\ \A key \in keys : key.life <= deaths
  /\ \A key \in keys : key.life = deaths /\ key.known => key \in held \cup unrevoked
  /\ at = "writing" => held = {}
  /\ at = "over" /\ outcome # "unstarted" => held = {}
  /\ at = "idle" => ready = {}
  /\ at \in {"preparing", "prepared", "executing"} =>
       \A u \in ready \cap management : KeyOf(u) \in keys

(* A laboratory has a task while the round runs, and only then; none is in *)
(* flight at any other time.                                               *)
Flight ==
  /\ at \in {"idle", "preparing", "prepared"} => \A t \in Tasks : stage[t] = "absent"
  /\ \A t \in Tasks : stage[t] # "absent" => t.uid \in Laboratories
  /\ \A t \in Tasks : stage[t] \notin {"absent", "ended"} => at = "executing"

(* A task that has ended has a verdict, unless it has raised.              *)
Verdicts ==
  /\ \A t \in Tasks : verdict[t] = "window_closed" => closed
  /\ ~ failed => \A t \in Tasks : stage[t] \in {"closing", "ended"} => verdict[t] # "none"
  /\ at = "executing" => \A t \in Tasks : t.uid \in Laboratories => stage[t] # "absent"
  /\ at \in {"revoking", "writing"} /\ outcome = "none" =>
       /\ ~ failed
       /\ \A t \in Tasks : t.uid \in Laboratories => stage[t] = "ended"

(* The tasks that may still use a container, and the longest one may.      *)
Holding == {t \in Tasks : stage[t] \in {"admitting", "contained"}}

Longest == wall_time_seconds + kill_grace_seconds

(* No more tasks are in flight than there are slots; and what containers   *)
(* have used since the window closed, with all that the holders may still  *)
(* use, was there to be used by as many as there are slots.                *)
Overtime ==
  /\ IsFiniteSet(InFlight)
  /\ Cardinality(InFlight) <= Slots
  /\ (\A t \in Tasks : stage[t] # "contained") => ran = 0
  /\ ~ closed => overtime = 0
  /\ closed => overtime + Longest * Cardinality(Holding) <= Slots * Longest + ran

IInv == /\ TypeOK
        /\ Copies
        /\ Outcomes
        /\ KeysHeld
        /\ Flight
        /\ Verdicts
        /\ EveryExecutionRecorded
        /\ Overtime

-----------------------------------------------------------------------------
(* Which variables a group of steps leaves alone *)

(* A task's step changes only the round, and only while it is executing.   *)
LEMMA TaskFrame ==
  ASSUME NEW t \in Tasks, TaskStep(t)
  PROVE  /\ at = "executing"
         /\ UNCHANGED <<at, outcome, todo, kept, ready, refused, keys, held,
                        unrevoked, deaths, closed, overtime, document>>
BY DEF TaskStep, HeadUnread, TooLate, AskAdmission, NotAttempted, StartContainer,
       Exits, Killed, Breaks, Measured, GatesRaise, ContainerEnds, Enters,
       LoopFree, Task, outside, preparation, provider

LEMMA NothingRan == 0 \in 0 .. wall_time_seconds + kill_grace_seconds
BY ExecutionAssumption DEF ExecutionAssumption

LEMMA BlankType ==
  /\ Blank \in [Tasks -> Verdict]
  /\ [t \in Tasks |-> "absent"] \in [Tasks -> Stage]
BY DEF Blank, Verdict, Stage

(* It moves one task on, that has begun or can begin, and gives it at most *)
(* a verdict; the verdict is missing only if the task raises.              *)
LEMMA TaskMoves ==
  ASSUME TypeOK, NEW t \in Tasks, TaskStep(t)
  PROVE  \E next \in {"admitting", "contained", "closing", "ended"}, what \in Verdict :
           /\ stage[t] # "absent"
           /\ stage[t] # "ended"
           /\ stage' = [stage EXCEPT ![t] = next]
           /\ verdict' = [verdict EXCEPT ![t] = what]
           /\ what = "window_closed" => closed \/ verdict[t] = what
           /\ next \in {"closing", "ended"} =>
                what # "none" \/ failed' \/ (verdict[t] = what /\ stage[t] = "closing")
           /\ failed => failed'
           /\ failed' \in BOOLEAN
           /\ ran' \in 0 .. wall_time_seconds + kill_grace_seconds
<1>1. /\ verdict[t] \in Verdict
      /\ verdict = [verdict EXCEPT ![t] = verdict[t]]
      /\ failed \in BOOLEAN
      /\ ran \in 0 .. wall_time_seconds + kill_grace_seconds
      /\ 0 \in 0 .. wall_time_seconds + kill_grace_seconds
  BY NothingRan DEF TypeOK
<1>2. CASE HeadUnread(t)
  BY <1>1, <1>2 DEF HeadUnread, Enters, EndsAs, Verdict
<1>3. CASE TooLate(t)
  BY <1>1, <1>3 DEF TooLate, Enters, EndsAs, Verdict
<1>4. CASE AskAdmission(t)
  BY <1>1, <1>4 DEF AskAdmission, Enters
<1>5. CASE NotAttempted(t)
  BY <1>1, <1>5 DEF NotAttempted, EndsAs, Verdict
<1>6. CASE StartContainer(t)
  BY <1>1, <1>6 DEF StartContainer
<1>7. CASE Exits(t)
  BY <1>1, <1>7 DEF Exits, ContainerEnds, Verdict
<1>8. CASE Killed(t)
  BY <1>1, <1>8 DEF Killed, ContainerEnds, Verdict
<1>9. CASE Breaks(t)
  <2>1. PICK next \in {"closing", "ended"} : ContainerEnds(t, next, "not_attempted")
    BY <1>9 DEF Breaks
  <2>. QED
    BY <1>1, <2>1 DEF ContainerEnds, Verdict
<1>10. CASE Measured(t)
  BY <1>1, <1>10 DEF Measured
<1>11. CASE GatesRaise(t)
  BY <1>1, <1>11 DEF GatesRaise, EndsAs, Verdict
<1>. QED
  BY <1>2, <1>3, <1>4, <1>5, <1>6, <1>7, <1>8, <1>9, <1>10, <1>11 DEF TaskStep

-----------------------------------------------------------------------------
(* Type correctness *)

LEMMA TypeInit == Init => TypeOK
<1> SUFFICES ASSUME Init PROVE TypeOK
  OBVIOUS
<1>1. SubmissionsTypeOK
  BY DEF Init, SubmissionsInit, SubmissionsTypeOK, At
<1>. QED
  BY <1>1, BlankType, NothingRan DEF Init, TypeOK

LEMMA NobodyType ==
  ASSUME Nobody
  PROVE  /\ stage' \in [Tasks -> Stage]
         /\ verdict' \in [Tasks -> Verdict]
         /\ ran' \in 0 .. wall_time_seconds + kill_grace_seconds
         /\ failed' \in BOOLEAN
BY BlankType, NothingRan DEF Nobody

LEMMA KeyType ==
  ASSUME TypeOK, NEW u \in Uids
  PROVE  /\ KeyOf(u) \in Key
         /\ [KeyOf(u) EXCEPT !.known = FALSE] \in Key
BY DEF TypeOK, SubmissionsTypeOK, KeyOf, Key

LEMMA PreparingType ==
  ASSUME TypeOK, Preparing
  PROVE  TypeOK'
<1> USE DEF TypeOK, SubmissionsTypeOK, At, round, outside, preparation, provider
<1>1. CASE NothingRead \/ BeginPreparing \/ Prepared
  BY <1>1 DEF Preparing, NothingRead, BeginPreparing, Prepared
<1>2. ASSUME NEW u \in Uids, Submission(u), UNCHANGED <<round, outside>>
      PROVE  TypeOK'
  BY <1>2, KeyType
     DEF Submission, RefuseUnread, Prepare, PrepareFails, PrepareRaises, Attempt
<1>. QED
  BY <1>1, <1>2 DEF Preparing

LEMMA TypeStep == TypeOK /\ [Next]_vars => TypeOK'
<1> SUFFICES ASSUME TypeOK, [Next]_vars PROVE TypeOK'
  OBVIOUS
<1> USE DEF round, outside, preparation, provider
<1>1. CASE Preparing
  BY <1>1, PreparingType
<1>2. CASE RunnerUnbuilt
  BY <1>2 DEF RunnerUnbuilt, TypeOK, SubmissionsTypeOK, At
<1>3. CASE BeginRound
  <2>1. stage' \in [Tasks -> Stage]
    BY <1>3 DEF BeginRound, Stage
  <2>. QED
    BY <1>3, <2>1 DEF BeginRound, TypeOK, SubmissionsTypeOK, At
<1>4. ASSUME NEW t \in Tasks, TaskStep(t) PROVE TypeOK'
  <2>1. PICK next \in Stage, what \in Verdict :
          /\ stage' = [stage EXCEPT ![t] = next]
          /\ verdict' = [verdict EXCEPT ![t] = what]
    BY <1>4, TaskMoves DEF Stage
  <2>2. stage' \in [Tasks -> Stage] /\ verdict' \in [Tasks -> Verdict]
    BY <2>1 DEF TypeOK
  <2>3. failed' \in BOOLEAN /\ ran' \in 0 .. wall_time_seconds + kill_grace_seconds
    BY <1>4, TaskMoves
  <2>. QED
    BY <1>4, <2>2, <2>3, TaskFrame DEF TypeOK, SubmissionsTypeOK
<1>5. CASE Tick
  <2>1. /\ ran' \in 0 .. wall_time_seconds + kill_grace_seconds
        /\ overtime' \in Nat
    BY <1>5, ExecutionAssumption DEF Tick, TypeOK, ExecutionAssumption
  <2>. QED
    BY <1>5, <2>1 DEF Tick, TypeOK, SubmissionsTypeOK
<1>6. CASE RoundEnds \/ Revoked
  BY <1>6 DEF RoundEnds, Revoked, TypeOK, SubmissionsTypeOK, At
<1>7. CASE RoundFails
  BY <1>7, NobodyType DEF RoundFails, TypeOK, SubmissionsTypeOK, At
<1>8. CASE Revoking
  BY <1>8 DEF Revoking, Revoke, TypeOK, SubmissionsTypeOK
<1>9. CASE WriteExecutions
  BY <1>9 DEF WriteExecutions, TypeOK, SubmissionsTypeOK, At
<1>10. CASE WindowCloses
  BY <1>10 DEF WindowCloses, TypeOK, SubmissionsTypeOK
<1>11. CASE Dies
  BY <1>11, NobodyType DEF Dies, TypeOK, SubmissionsTypeOK, At
<1>12. CASE UNCHANGED vars
  BY <1>12 DEF vars, TypeOK, SubmissionsTypeOK
<1>. QED
  BY <1>1, <1>2, <1>3, <1>4, <1>5, <1>6, <1>7, <1>8, <1>9, <1>10, <1>11, <1>12
     DEF Next, Work

-----------------------------------------------------------------------------
(* Copies *)

LEMMA CopiesStep ==
  ASSUME TypeOK, Copies, [Next]_vars
  PROVE  Copies'
<1> USE DEF round, outside, preparation, provider
<1>1. ASSUME UNCHANGED <<ready, kept>>, at' # "preparing" PROVE Copies'
  BY <1>1 DEF Copies
<1>2. CASE BeginPreparing
  BY <1>2 DEF BeginPreparing, Copies
<1>3. ASSUME NEW u \in Uids, RefuseUnread(u) PROVE Copies'
  (* The owner is passed over, or u is a copy of one that is kept.         *)
  <2>1. u \notin owner_linked => \E w \in kept : bundle_digest[w] = bundle_digest[u]
    BY <1>3 DEF RefuseUnread, IsCopy
  <2>. QED
    BY <1>3, <2>1 DEF RefuseUnread, IsNext, Copies
<1>4. ASSUME NEW u \in Uids, Attempt(u), at = "preparing",
             ready' \subseteq ready \cup {u}
      PROVE  Copies'
  <2>1. /\ u \in todo
        /\ \A v \in todo : u <= v
        /\ u \notin owner_linked
        /\ \A w \in kept : bundle_digest[w] # bundle_digest[u]
        /\ kept' = kept \cup {u}
        /\ todo' = todo \ {u}
    BY <1>4 DEF Attempt, IsNext, IsCopy
  (* One with the same digest below u would have been passed, and its      *)
  (* digest kept.                                                          *)
  <2>2. \A v \in Uids \ owner_linked : bundle_digest[v] = bundle_digest[u] => u <= v
    <3> SUFFICES ASSUME NEW v \in Uids \ owner_linked, bundle_digest[v] = bundle_digest[u]
                 PROVE  u <= v
      OBVIOUS
    <3>1. v \in todo
      BY <1>4, <2>1 DEF Copies
    <3>. QED
      BY <2>1, <3>1
  <2>3. ready' \subseteq kept'
    BY <1>4, <2>1 DEF Copies
  <2>4. \A w \in kept' :
          /\ w \notin owner_linked
          /\ \A v \in Uids \ owner_linked : bundle_digest[v] = bundle_digest[w] => w <= v
    BY <2>1, <2>2 DEF Copies
  <2>5. \A v \in Uids \ owner_linked :
          v \notin todo' => \E w \in kept' : bundle_digest[w] = bundle_digest[v]
    BY <1>4, <2>1 DEF Copies
  <2>. QED
    BY <2>3, <2>4, <2>5 DEF Copies
<1>5. CASE Preparing
  <2>1. CASE NothingRead \/ Prepared
    BY <2>1, <1>1 DEF NothingRead, Prepared
  <2>2. ASSUME NEW u \in Uids, Submission(u) PROVE Copies'
    BY <2>2, <1>3, <1>4
       DEF Submission, Prepare, PrepareFails, PrepareRaises, Attempt, IsNext
  <2>. QED
    BY <1>5, <1>2, <2>1, <2>2 DEF Preparing
<1>6. CASE RunnerUnbuilt \/ BeginRound \/ Revoking \/ Revoked \/ WriteExecutions
           \/ RoundEnds \/ RoundFails \/ Tick
  BY <1>6, <1>1
     DEF RunnerUnbuilt, BeginRound, Revoking, Revoke, Revoked, WriteExecutions,
         RoundEnds, RoundFails, Tick
<1>7. ASSUME NEW t \in Tasks, TaskStep(t) PROVE Copies'
  BY <1>7, <1>1, TaskFrame
<1>8. CASE WindowCloses \/ UNCHANGED vars
  BY <1>8 DEF WindowCloses, vars, Copies
<1>9. CASE Dies
  BY <1>9 DEF Dies, Copies
<1>. QED
  BY <1>5, <1>6, <1>7, <1>8, <1>9 DEF Next, Work

-----------------------------------------------------------------------------
(* Outcomes *)

LEMMA OutcomesStep ==
  ASSUME Outcomes, [Next]_vars
  PROVE  Outcomes'
<1> USE DEF Outcomes
<1>1. CASE Preparing
  <2>1. CASE NothingRead \/ BeginPreparing \/ Prepared
    BY <2>1 DEF NothingRead, BeginPreparing, Prepared
  <2>2. ASSUME NEW u \in Uids, Submission(u) PROVE Outcomes'
    BY <2>2 DEF Submission, RefuseUnread, Prepare, PrepareFails, PrepareRaises,
                Attempt, IsNext
  <2>. QED
    BY <1>1, <2>1, <2>2 DEF Preparing
<1>2. CASE RunnerUnbuilt \/ BeginRound
  BY <1>2 DEF RunnerUnbuilt, BeginRound
<1>3. ASSUME NEW t \in Tasks, TaskStep(t) PROVE Outcomes'
  BY <1>3, TaskFrame
<1>4. CASE Tick \/ WindowCloses
  BY <1>4 DEF Tick, WindowCloses
<1>5. CASE RoundEnds \/ RoundFails
  BY <1>5 DEF RoundEnds, RoundFails, LoopFree
<1>6. CASE Revoking \/ Revoked
  BY <1>6 DEF Revoking, Revoke, Revoked
<1>7. CASE WriteExecutions \/ Dies
  BY <1>7 DEF WriteExecutions, Dies
<1>8. CASE UNCHANGED vars
  BY <1>8 DEF vars
<1>. QED
  BY <1>1, <1>2, <1>3, <1>4, <1>5, <1>6, <1>7, <1>8 DEF Next, Work

-----------------------------------------------------------------------------
(* KeysHeld *)

LEMMA KeysHeldPreparing ==
  ASSUME TypeOK, Outcomes, KeysHeld, Preparing
  PROVE  KeysHeld'
<1> USE DEF KeysHeld, preparation, provider
<1>1. CASE NothingRead
  BY <1>1 DEF NothingRead
<1>2. CASE BeginPreparing
  BY <1>2 DEF BeginPreparing
<1>3. CASE Prepared
  BY <1>3 DEF Prepared, KeyOf
<1>4. ASSUME NEW u \in Uids, RefuseUnread(u) PROVE KeysHeld'
  BY <1>4 DEF RefuseUnread, IsNext, KeyOf
<1>5. ASSUME NEW u \in Uids, Prepare(u) PROVE KeysHeld'
  <2>1. PICK minted : /\ minted = IF u \in management THEN {KeyOf(u)} ELSE {}
                      /\ keys' = keys \cup minted
                      /\ held' = held \cup minted
    BY <1>5 DEF Prepare
  <2>2. at = "preparing" /\ UNCHANGED <<at, outcome, deaths, unrevoked>>
    BY <1>5 DEF Prepare, Attempt, IsNext
  <2>3. \A key \in minted : key.life = deaths
    BY <2>1 DEF KeyOf
  <2>4. \A key \in keys' : key.life <= deaths'
    BY <2>1, <2>2, <2>3 DEF TypeOK, SubmissionsTypeOK
  <2>5. \A key \in keys' : key.life = deaths' /\ key.known => key \in held' \cup unrevoked'
    BY <2>1, <2>2
  <2>6. ready' = ready \cup {u}
    BY <1>5 DEF Prepare
  <2>7. \A v \in ready' \cap management : KeyOf(v)' \in keys'
    BY <2>1, <2>2, <2>6 DEF KeyOf
  <2>. QED
    BY <2>2, <2>4, <2>5, <2>7
<1>6. ASSUME NEW u \in Uids, PrepareFails(u) PROVE KeysHeld'
  <2>1. at = "preparing" /\ UNCHANGED <<at, outcome, deaths, held, unrevoked, ready>>
    BY <1>6 DEF PrepareFails, Attempt, IsNext
  <2>2. /\ keys \subseteq keys'
        /\ keys' \subseteq keys \cup {[KeyOf(u) EXCEPT !.known = FALSE]}
    BY <1>6 DEF PrepareFails
  <2>3. \A key \in keys' \ keys : key.life = deaths /\ ~ key.known
    BY <2>2 DEF KeyOf
  <2>4. \A key \in keys' : key.life <= deaths'
    BY <2>1, <2>2, <2>3 DEF TypeOK, SubmissionsTypeOK
  <2>5. \A key \in keys' : key.life = deaths' /\ key.known => key \in held' \cup unrevoked'
    BY <2>1, <2>2, <2>3
  <2>6. \A v \in ready' \cap management : KeyOf(v)' \in keys'
    BY <2>1, <2>2 DEF KeyOf
  <2>. QED
    BY <2>1, <2>4, <2>5, <2>6
<1>7. ASSUME NEW u \in Uids, PrepareRaises(u) PROVE KeysHeld'
  BY <1>7 DEF PrepareRaises
<1>. QED
  BY <1>1, <1>2, <1>3, <1>4, <1>5, <1>6, <1>7 DEF Preparing, Submission

LEMMA KeysHeldStep ==
  ASSUME TypeOK, Outcomes, KeysHeld, [Next]_vars
  PROVE  KeysHeld'
<1> USE DEF KeysHeld, preparation, provider
<1>1. CASE Preparing
  BY <1>1, KeysHeldPreparing
<1>2. CASE RunnerUnbuilt
  BY <1>2 DEF RunnerUnbuilt
<1>3. CASE BeginRound
  BY <1>3 DEF BeginRound, KeyOf
<1>4. ASSUME NEW t \in Tasks, TaskStep(t) PROVE KeysHeld'
  BY <1>4, TaskFrame DEF KeyOf
<1>5. CASE Tick \/ WindowCloses
  BY <1>5 DEF Tick, WindowCloses, KeyOf
<1>6. CASE RoundEnds \/ RoundFails
  BY <1>6 DEF RoundEnds, RoundFails
<1>7. CASE Revoking
  <2>1. PICK key \in held : Revoke(key)
    BY <1>7 DEF Revoking
  <2>. QED
    BY <2>1 DEF Revoke
<1>8. CASE Revoked \/ WriteExecutions
  BY <1>8 DEF Revoked, WriteExecutions
<1>9. CASE Dies
  <2>1. /\ at' = "idle" \/ (at' = "over" /\ outcome' = "unstarted")
        /\ deaths' = deaths + 1 /\ keys' = keys /\ ready' = {}
    BY <1>9 DEF Dies
  <2>2. \A key \in keys' : key.life <= deaths' /\ key.life # deaths'
    BY <2>1 DEF TypeOK, SubmissionsTypeOK, Key
  <2>. QED
    BY <2>1, <2>2
<1>10. CASE UNCHANGED vars
  BY <1>10 DEF vars, KeyOf
<1>. QED
  BY <1>1, <1>2, <1>3, <1>4, <1>5, <1>6, <1>7, <1>8, <1>9, <1>10 DEF Next, Work

-----------------------------------------------------------------------------
(* Flight and Verdicts *)

(* The steps before and after the round leave its tasks alone.             *)
LEMMA FlightStep ==
  ASSUME TypeOK, Outcomes, Flight, [Next]_vars
  PROVE  Flight'
<1> USE DEF Flight, Laboratories, preparation, round
<1>1. CASE Preparing
  <2>1. CASE NothingRead \/ BeginPreparing \/ Prepared
    BY <1>1, <2>1 DEF Preparing, NothingRead, BeginPreparing, Prepared
  <2>2. ASSUME NEW u \in Uids, Submission(u) PROVE Flight'
    <3>1. at = "preparing" /\ at' \in {"preparing", "over"}
      BY <2>2 DEF Submission, RefuseUnread, Prepare, PrepareFails, PrepareRaises,
                  Attempt, IsNext
    <3>. QED
      BY <1>1, <3>1 DEF Preparing
  <2>. QED
    BY <1>1, <2>1, <2>2 DEF Preparing
<1>2. CASE RunnerUnbuilt
  BY <1>2 DEF RunnerUnbuilt
<1>3. CASE BeginRound
  BY <1>3 DEF BeginRound
<1>4. ASSUME NEW t \in Tasks, TaskStep(t) PROVE Flight'
  <2>1. /\ at = "executing"
        /\ UNCHANGED <<at, ready>>
        /\ stage[t] # "absent"
        /\ \E next : stage' = [stage EXCEPT ![t] = next]
    BY <1>4, TaskFrame, TaskMoves
  <2>. QED
    BY <2>1 DEF TypeOK
<1>5. CASE Tick \/ WindowCloses
  BY <1>5 DEF Tick, WindowCloses
<1>6. CASE RoundEnds
  BY <1>6 DEF RoundEnds
<1>7. CASE RoundFails \/ Dies
  BY <1>7 DEF RoundFails, Dies, Nobody
<1>8. CASE Revoking \/ Revoked \/ WriteExecutions
  BY <1>8 DEF Revoking, Revoke, Revoked, WriteExecutions
<1>9. CASE UNCHANGED vars
  BY <1>9 DEF vars
<1>. QED
  BY <1>1, <1>2, <1>3, <1>4, <1>5, <1>6, <1>7, <1>8, <1>9 DEF Next, Work

LEMMA VerdictsStep ==
  ASSUME TypeOK, Outcomes, Flight, Verdicts, [Next]_vars
  PROVE  Verdicts'
<1> USE DEF Verdicts, Laboratories, preparation, round, outside
<1>1. CASE Preparing
  <2>1. /\ at \in {"idle", "preparing"}
        /\ at' \in {"preparing", "prepared", "over"}
        /\ UNCHANGED <<round, outside>>
    BY <1>1 DEF Preparing, NothingRead, BeginPreparing, Prepared, Submission,
                RefuseUnread, Prepare, PrepareFails, PrepareRaises, Attempt, IsNext
  <2>. QED
    BY <2>1
<1>2. CASE RunnerUnbuilt
  BY <1>2 DEF RunnerUnbuilt
<1>3. CASE BeginRound
  BY <1>3 DEF BeginRound
<1>4. ASSUME NEW t \in Tasks, TaskStep(t) PROVE Verdicts'
  <2>1. /\ at = "executing"
        /\ UNCHANGED <<at, ready, closed>>
    BY <1>4, TaskFrame
  <2>2. PICK next \in {"admitting", "contained", "closing", "ended"}, what \in Verdict :
           /\ stage' = [stage EXCEPT ![t] = next]
           /\ verdict' = [verdict EXCEPT ![t] = what]
           /\ what = "window_closed" => closed \/ verdict[t] = what
           /\ next \in {"closing", "ended"} =>
                what # "none" \/ failed' \/ (verdict[t] = what /\ stage[t] = "closing")
           /\ failed => failed'
    BY <1>4, TaskMoves
  <2>3. \A s \in Tasks : verdict'[s] = "window_closed" => closed'
    BY <2>1, <2>2 DEF TypeOK
  <2>4. ASSUME ~ failed'
        PROVE  \A s \in Tasks : stage'[s] \in {"closing", "ended"} => verdict'[s] # "none"
    BY <2>2, <2>4 DEF TypeOK
  <2>5. \A s \in Tasks : s.uid \in Laboratories => stage'[s] # "absent"
    BY <2>1, <2>2 DEF TypeOK
  <2>. QED
    BY <2>1, <2>3, <2>4, <2>5
<1>5. CASE Tick \/ WindowCloses
  BY <1>5 DEF Tick, WindowCloses
<1>6. CASE RoundEnds
  BY <1>6 DEF RoundEnds, LoopFree
<1>7. CASE RoundFails
  <2>1. Nobody /\ at' = "revoking" /\ outcome' = "raised"
    BY <1>7 DEF RoundFails
  <2>. QED
    BY <2>1 DEF Nobody, Blank
<1>8. CASE Dies
  <2>1. Nobody /\ at' \in {"idle", "over"}
    BY <1>8 DEF Dies
  <2>. QED
    BY <2>1 DEF Nobody, Blank
<1>9. CASE Revoking \/ Revoked
  BY <1>9 DEF Revoking, Revoke, Revoked, Outcomes
<1>10. CASE WriteExecutions
  BY <1>10 DEF WriteExecutions
<1>11. CASE UNCHANGED vars
  BY <1>11 DEF vars
<1>. QED
  BY <1>1, <1>2, <1>3, <1>4, <1>5, <1>6, <1>7, <1>8, <1>9, <1>10, <1>11 DEF Next, Work

LEMMA RecordedStep ==
  ASSUME TypeOK, Outcomes, Verdicts, EveryExecutionRecorded, [Next]_vars
  PROVE  EveryExecutionRecorded'
<1> USE DEF EveryExecutionRecorded, Laboratories
<1>1. CASE WriteExecutions
  <2>1. /\ at = "writing"
        /\ outcome = "none"
        /\ UNCHANGED <<ready, verdict, closed>>
        /\ \A t \in Tasks : t.uid \in Laboratories => stage[t] = "ended"
        /\ ~ failed
    BY <1>1 DEF WriteExecutions, Verdicts, Outcomes, preparation, round
  <2>2. outcome' = "returned" => document' = verdict
    BY <1>1 DEF WriteExecutions
  <2>. QED
    BY <2>1, <2>2 DEF Verdicts
(* No other step returns, and once one has, only the window still closes.  *)
<1>2. ASSUME outcome' # "returned" PROVE EveryExecutionRecorded'
  BY <1>2
<1>3. CASE /\ ~ WriteExecutions /\ ~ WindowCloses /\ ~ UNCHANGED vars
           /\ outcome' = "returned"
  <2>1. at # "over" => outcome # "returned"
    BY DEF Outcomes
  <2>2. CASE Preparing
    BY <1>3, <2>1, <2>2
       DEF Preparing, NothingRead, BeginPreparing, Prepared, Submission, RefuseUnread,
           Prepare, PrepareFails, PrepareRaises, Attempt, IsNext
  <2>3. CASE RunnerUnbuilt \/ BeginRound \/ RoundEnds \/ RoundFails
    BY <1>3, <2>1, <2>3 DEF RunnerUnbuilt, BeginRound, RoundEnds, RoundFails, LoopFree
  <2>4. CASE Tick \/ Revoking \/ Revoked \/ Dies
    BY <1>3, <2>1, <2>4 DEF Tick, Revoking, Revoke, Revoked, Dies
  <2>5. ASSUME NEW t \in Tasks, TaskStep(t) PROVE FALSE
    BY <1>3, <2>1, <2>5, TaskFrame
  <2>. QED
    BY <1>3, <2>2, <2>3, <2>4, <2>5 DEF Next, Work
<1>4. CASE UNCHANGED vars
  BY <1>4 DEF vars, outside, preparation
<1>5. CASE WindowCloses
  BY <1>5 DEF WindowCloses, preparation
<1>. QED
  BY <1>1, <1>2, <1>3, <1>4, <1>5

-----------------------------------------------------------------------------
(* Overtime *)

LEMMA SlotsType == Slots \in Nat /\ Longest \in Nat
BY ExecutionAssumption DEF ExecutionAssumption, Slots, Longest

LEMMA HoldingFinite ==
  ASSUME IsFiniteSet(InFlight)
  PROVE  /\ IsFiniteSet(Holding)
         /\ Cardinality(Holding) \in Nat
         /\ Cardinality(InFlight) \in Nat
         /\ Cardinality(Holding) <= Cardinality(InFlight)
<1>1. Holding \subseteq InFlight
  BY DEF Holding, InFlight
<1>. QED
  BY <1>1, FS_Subset, FS_CardinalityType

(* What a task's step does to the tasks in flight and to those that may    *)
(* still use a container: it adds one while the window is open, or takes   *)
(* one away with the time its container ran, or leaves them.               *)
LEMMA TaskCounts ==
  ASSUME TypeOK, Overtime, NEW t \in Tasks, TaskStep(t)
  PROVE  \/ /\ ~ closed
            /\ Cardinality(InFlight) < Slots
            /\ InFlight' = InFlight \cup {t}
            /\ ran' = ran
            /\ \A s \in Tasks : stage[s] # "contained"
         \/ /\ InFlight' \subseteq InFlight
            /\ Holding' = Holding
            /\ ran' = ran
            /\ ran = 0
         \/ /\ InFlight' \subseteq InFlight
            /\ t \in Holding
            /\ Holding' = Holding \ {t}
            /\ ran' = 0
<1> USE DEF TypeOK, InFlight, Holding, LoopFree, Stage
<1>1. CASE HeadUnread(t) \/ TooLate(t)
  BY <1>1 DEF HeadUnread, TooLate, Enters, EndsAs, Overtime
<1>2. CASE AskAdmission(t)
  BY <1>2 DEF AskAdmission, Enters
<1>3. CASE NotAttempted(t)
  BY <1>3 DEF NotAttempted, EndsAs, Overtime
<1>4. CASE StartContainer(t)
  BY <1>4 DEF StartContainer, Overtime
<1>5. ASSUME NEW next \in {"closing", "ended"}, NEW what, ContainerEnds(t, next, what)
      PROVE  /\ InFlight' \subseteq InFlight
             /\ t \in Holding
             /\ Holding' = Holding \ {t}
             /\ ran' = 0
  BY <1>5 DEF ContainerEnds
<1>6. CASE Exits(t) \/ Killed(t) \/ Breaks(t)
  BY <1>5, <1>6 DEF Exits, Killed, Breaks
<1>7. CASE Measured(t) \/ GatesRaise(t)
  BY <1>7 DEF Measured, GatesRaise, EndsAs, Overtime
<1>. QED
  BY <1>1, <1>2, <1>3, <1>4, <1>6, <1>7 DEF TaskStep

(* A task leaves the last container free, with nothing run on it.          *)
LEMMA TaskStopsTheClock ==
  ASSUME TypeOK, Overtime, NEW t \in Tasks, TaskStep(t),
         \A s \in Tasks : stage'[s] # "contained"
  PROVE  ran' = 0
<1>1. CASE StartContainer(t)
  BY <1>1 DEF StartContainer
<1>2. CASE Exits(t) \/ Killed(t) \/ Breaks(t)
  BY <1>2 DEF Exits, Killed, Breaks, ContainerEnds
<1>3. CASE HeadUnread(t) \/ TooLate(t) \/ AskAdmission(t) \/ NotAttempted(t)
           \/ Measured(t) \/ GatesRaise(t)
  BY <1>3 DEF HeadUnread, TooLate, AskAdmission, NotAttempted, Measured, GatesRaise,
              Enters, LoopFree, Overtime
<1>. QED
  BY <1>1, <1>2, <1>3 DEF TaskStep

LEMMA OvertimeTask ==
  ASSUME TypeOK, Overtime, NEW t \in Tasks, TaskStep(t)
  PROVE  Overtime'
<1>1. UNCHANGED <<closed, overtime>>
  BY TaskFrame
<1>2. (\A s \in Tasks : stage'[s] # "contained") => ran' = 0
  BY TaskStopsTheClock
<1>3. /\ ran \in Nat /\ ran <= Longest /\ overtime \in Nat
      /\ Slots \in Nat /\ Longest \in Nat
  BY SlotsType, ExecutionAssumption DEF TypeOK, Longest, ExecutionAssumption
<1>4. /\ IsFiniteSet(InFlight) /\ IsFiniteSet(Holding)
      /\ Cardinality(InFlight) \in Nat /\ Cardinality(Holding) \in Nat
  BY HoldingFinite DEF Overtime
<1>5. CASE /\ ~ closed
           /\ Cardinality(InFlight) < Slots
           /\ InFlight' = InFlight \cup {t}
  <2>1. /\ IsFiniteSet(InFlight')
        /\ \/ Cardinality(InFlight') = Cardinality(InFlight)
           \/ Cardinality(InFlight') = Cardinality(InFlight) + 1
    BY <1>4, <1>5, FS_AddElement
  <2>2. Cardinality(InFlight') <= Slots
    BY <1>3, <1>4, <1>5, <2>1
  <2>. QED
    BY <1>1, <1>2, <1>5, <2>1, <2>2 DEF Overtime
<1>6. ASSUME InFlight' \subseteq InFlight
      PROVE  IsFiniteSet(InFlight') /\ Cardinality(InFlight') <= Slots
  <2>1. /\ IsFiniteSet(InFlight')
        /\ Cardinality(InFlight') \in Nat
        /\ Cardinality(InFlight') <= Cardinality(InFlight)
    BY <1>4, <1>6, FS_Subset, FS_CardinalityType
  <2>2. Cardinality(InFlight) <= Slots
    BY DEF Overtime
  <2>. QED
    BY <1>3, <1>4, <2>1, <2>2
<1>7. CASE /\ InFlight' \subseteq InFlight
           /\ Holding' = Holding
           /\ ran' = ran
  BY <1>1, <1>2, <1>6, <1>7 DEF Overtime
<1>8. CASE /\ InFlight' \subseteq InFlight
           /\ t \in Holding
           /\ Holding' = Holding \ {t}
           /\ ran' = 0
  <2>1. Cardinality(Holding') = Cardinality(Holding) - 1
    BY <1>4, <1>8, FS_RemoveElement
  <2>2. Longest * (Cardinality(Holding) - 1) = Longest * Cardinality(Holding) - Longest
    BY <1>3, <1>4
  <2>3. closed => overtime + Longest * Cardinality(Holding') <= Slots * Longest + ran'
    <3> DEFINE held_for == Longest * Cardinality(Holding)
               room     == Slots * Longest
    <3>1. held_for \in Int /\ room \in Int
      BY <1>3, <1>4
    <3>2. closed => overtime + held_for <= room + ran
      BY DEF Overtime
    <3> HIDE DEF held_for, room
    <3>3. closed => overtime + (held_for - Longest) <= room + 0
      BY <1>3, <3>1, <3>2
    <3>. QED
      BY <1>8, <2>1, <2>2, <3>3 DEF held_for, room
  <2>. QED
    BY <1>1, <1>2, <1>6, <1>8, <2>3 DEF Overtime
<1>. QED
  BY <1>5, <1>7, <1>8, TaskCounts

(* What has run over the window is then within bounds: the holders' claims *)
(* cover the container that is running.                                    *)
LEMMA ClosedBound ==
  ASSUME TypeOK, Overtime
  PROVE  overtime <= Slots * Longest
<1>1. /\ ran \in Nat /\ ran <= Longest /\ overtime \in Nat
      /\ Slots \in Nat /\ Longest \in Nat
  BY SlotsType, ExecutionAssumption DEF TypeOK, Longest, ExecutionAssumption
<1>2. IsFiniteSet(Holding) /\ Cardinality(Holding) \in Nat
  BY HoldingFinite DEF Overtime
<1> DEFINE held_for == Longest * Cardinality(Holding)
           room     == Slots * Longest
<1>3. held_for \in Nat /\ room \in Nat
  BY <1>1, <1>2
<1>4. ran <= held_for
  <2>1. CASE \A t \in Tasks : stage[t] # "contained"
    BY <1>3, <2>1 DEF Overtime
  <2>2. CASE \E t \in Tasks : stage[t] = "contained"
    <3>1. Cardinality(Holding) >= 1
      BY <1>2, <2>2, FS_EmptySet DEF Holding
    <3>2. held_for >= Longest
      BY <1>1, <1>2, <3>1
    <3> HIDE DEF held_for
    <3>. QED
      BY <1>1, <1>3, <3>2
  <2>. QED
    BY <2>1, <2>2
<1>5. /\ closed => overtime + held_for <= room + ran
      /\ ~ closed => overtime = 0
  BY DEF Overtime
<1> HIDE DEF held_for, room
<1>6. overtime <= room
  BY <1>1, <1>3, <1>4, <1>5
<1>. QED
  BY <1>6 DEF room

LEMMA OvertimeStep ==
  ASSUME TypeOK, Flight, Overtime, [Next]_vars
  PROVE  Overtime'
<1> USE DEF round, outside
<1>1. /\ ran \in Nat /\ overtime \in Nat /\ Slots \in Nat /\ Longest \in Nat
      /\ IsFiniteSet(InFlight) /\ Cardinality(InFlight) \in Nat
      /\ Cardinality(Holding) \in Nat
      /\ Cardinality(Holding) <= Cardinality(InFlight)
      /\ Cardinality(InFlight) <= Slots
  BY SlotsType, HoldingFinite, ExecutionAssumption
  DEF TypeOK, Longest, ExecutionAssumption, Overtime
<1>2. ASSUME UNCHANGED <<stage, ran, closed, overtime>> PROVE Overtime'
  BY <1>2 DEF Overtime, InFlight, Holding
<1>3. CASE BeginRound
  <2>1. InFlight' = InFlight /\ Holding' = Holding
    BY <1>3 DEF BeginRound, Flight, InFlight, Holding
  <2>2. \A t \in Tasks : stage[t] # "contained"
    BY <1>3 DEF BeginRound, Flight
  <2>. QED
    BY <1>3, <2>1, <2>2 DEF BeginRound, Overtime
<1>4. ASSUME NEW t \in Tasks, TaskStep(t) PROVE Overtime'
  BY <1>4, OvertimeTask
<1>5. CASE Tick
  <2>1. /\ \E t \in Tasks : stage'[t] = "contained"
        /\ InFlight' = InFlight /\ Holding' = Holding
        /\ ran' = ran + 1
        /\ closed' = closed
        /\ overtime' = IF closed THEN overtime + 1 ELSE overtime
    BY <1>5 DEF Tick, InFlight, Holding
  <2>2. closed => overtime' + Longest * Cardinality(Holding) <= Slots * Longest + ran'
    <3> DEFINE held_for == Longest * Cardinality(Holding)
               room     == Slots * Longest
    <3>1. held_for \in Int /\ room \in Int
      BY <1>1
    <3>2. closed => overtime + held_for <= room + ran
      BY DEF Overtime
    <3> HIDE DEF held_for, room
    <3>3. closed => overtime' + held_for <= room + ran'
      BY <1>1, <2>1, <3>1, <3>2
    <3>. QED
      BY <3>3 DEF held_for, room
  <2>. QED
    BY <2>1, <2>2 DEF Overtime
(* When the window closes nothing has run over it, and there are no more   *)
(* holders than slots.                                                     *)
<1>6. CASE WindowCloses
  <2>1. /\ InFlight' = InFlight /\ Holding' = Holding
        /\ UNCHANGED <<stage, ran, overtime>> /\ ~ closed /\ closed'
        /\ overtime = 0
    BY <1>6 DEF WindowCloses, InFlight, Holding, Overtime
  <2>2. Longest * Cardinality(Holding) <= Slots * Longest
    BY <1>1
  <2>3. overtime + Longest * Cardinality(Holding) <= Slots * Longest + ran
    <3> DEFINE held_for == Longest * Cardinality(Holding)
               room     == Slots * Longest
    <3>1. held_for \in Int /\ room \in Int /\ held_for <= room
      BY <1>1, <2>2
    <3> HIDE DEF held_for, room
    <3>2. overtime + held_for <= room + ran
      BY <1>1, <2>1, <3>1
    <3>. QED
      BY <3>2 DEF held_for, room
  <2>. QED
    BY <2>1, <2>3 DEF Overtime
<1>7. ASSUME Nobody, closed' = closed, overtime' \in {0, overtime} PROVE Overtime'
  <2>1. /\ \A t \in Tasks : stage'[t] = "absent"
        /\ ran' = 0
    BY <1>7 DEF Nobody
  <2>2. InFlight' = {} /\ Holding' = {}
    BY <2>1 DEF InFlight, Holding
  <2>3. IsFiniteSet({}) /\ Cardinality({}) = 0
    BY FS_EmptySet
  <2>4. overtime <= Slots * Longest
    BY ClosedBound
  <2>5. closed' => overtime' + Longest * 0 <= Slots * Longest + 0
    <3> DEFINE room == Slots * Longest
    <3>1. room \in Nat /\ Longest * 0 = 0
      BY <1>1
    <3>2. overtime <= room
      BY <2>4
    <3> HIDE DEF room
    <3>3. overtime' \in Nat /\ overtime' <= room
      BY <1>1, <1>7, <3>1, <3>2
    <3>4. \A m, n \in Nat : m <= n => m + 0 <= n + 0
      OBVIOUS
    <3>5. overtime' + 0 <= room + 0
      BY <3>1, <3>3, <3>4
    <3>. QED
      BY <3>1, <3>5 DEF room
  <2>6. ~ closed' => overtime' = 0
    BY <1>7 DEF Overtime
  <2>. QED
    BY <1>1, <2>1, <2>2, <2>3, <2>5, <2>6 DEF Overtime
<1>8. CASE RoundFails \/ Dies
  BY <1>7, <1>8 DEF RoundFails, Dies
<1>9. CASE Preparing \/ Revoking
  BY <1>2, <1>9 DEF Preparing, Revoking
<1>10. CASE RunnerUnbuilt \/ RoundEnds \/ Revoked \/ WriteExecutions \/ UNCHANGED vars
  BY <1>2, <1>10 DEF RunnerUnbuilt, RoundEnds, Revoked, WriteExecutions, vars
<1>. QED
  BY <1>3, <1>4, <1>5, <1>6, <1>8, <1>9, <1>10 DEF Next, Work

-----------------------------------------------------------------------------
LEMMA InvInit == Init => IInv
<1> SUFFICES ASSUME Init PROVE IInv
  OBVIOUS
<1>1. TypeOK
  BY TypeInit
<1>2. Copies /\ Outcomes /\ KeysHeld /\ EveryExecutionRecorded
  BY DEF Init, SubmissionsInit, Copies, Outcomes, KeysHeld, EveryExecutionRecorded
<1>3. Flight /\ Verdicts
  BY DEF Init, SubmissionsInit, Flight, Verdicts, Blank
<1>4. Overtime
  <2>1. InFlight = {} /\ ran = 0 /\ ~ closed /\ overtime = 0
    BY DEF Init, InFlight
  <2>. QED
    BY <2>1, FS_EmptySet, SlotsType DEF Overtime
<1>. QED
  BY <1>1, <1>2, <1>3, <1>4 DEF IInv

LEMMA InvStep == IInv /\ [Next]_vars => IInv'
<1> SUFFICES ASSUME IInv, [Next]_vars PROVE IInv'
  OBVIOUS
<1>. QED
  BY TypeStep, CopiesStep, OutcomesStep, KeysHeldStep, FlightStep, VerdictsStep,
     RecordedStep, OvertimeStep
  DEF IInv

LEMMA Invariance == Spec => []IInv
<1>. QED
  BY InvInit, InvStep, PTL DEF Spec

(* Every variable of the step has its type throughout: what is at one      *)
(* place in execute_step, and what a container may have run.               *)
THEOREM TypeCorrect == Spec => []TypeOK
<1>1. IInv => TypeOK
  BY DEF IInv
<1>. QED
  BY <1>1, Invariance, PTL

(* Of a field in which any number commit to the same bytes, prepare_all    *)
(* readies only the one that registered first.                             *)
THEOREM CopiesRefused == Spec => []OneCopy
<1>1. IInv => OneCopy
  BY DEF IInv, Copies, OneCopy
<1>. QED
  BY <1>1, Invariance, PTL

(* However execute_round ends, revoke_minted has been asked for every key  *)
(* the step held when the step is over.                                    *)
THEOREM NoKeyLeft == Spec => []KeysRevoked
<1>1. IInv => KeysRevoked
  BY DEF IInv, KeysHeld, KeysRevoked
<1>. QED
  BY <1>1, Invariance, PTL

(* No laboratory in flight has had its minted key revoked.                 *)
THEOREM KeysInUse == Spec => []KeysOutliveTheirUse
<1>1. IInv => KeysOutliveTheirUse
  <2> SUFFICES ASSUME IInv, NEW t \in InFlight, t.uid \in management
               PROVE  KeyOf(t.uid) \in keys
    BY DEF KeysOutliveTheirUse
  <2>1. /\ t \in Tasks
        /\ at = "executing"
        /\ t.uid \in Laboratories
    BY DEF IInv, Flight, InFlight
  <2>2. t.uid \in Uids
    BY SubmissionsAssumption DEF SubmissionsAssumption
  <2>3. t.uid \notin References
    <3>1. t.uid \in Nat
      BY <2>2, SubmissionsAssumption DEF SubmissionsAssumption
    <3>2. \A n \in Nat : n # REFERENCE_UID
      BY DEF REFERENCE_UID
    <3>. QED
      BY <3>1, <3>2, ExecutionAssumption DEF ExecutionAssumption
  <2>. QED
    BY <2>1, <2>3 DEF IInv, KeysHeld, Laboratories
<1>. QED
  BY <1>1, Invariance, PTL

(* The document SCORE reads has a verdict on every laboratory and every    *)
(* challenge.                                                              *)
THEOREM DocumentComplete == Spec => []EveryExecutionRecorded
<1>1. IInv => EveryExecutionRecorded
  BY DEF IInv
<1>. QED
  BY <1>1, Invariance, PTL

(* However slow the tasks that had a slot when the execution window closed *)
(* and however many wait behind them, containers run on after it for no    *)
(* longer than one full wall clock, with the grace of its kill, per slot.  *)
THEOREM LateContainersBounded == Spec => []OvertimeBounded
<1>1. IInv => OvertimeBounded
  <2> SUFFICES ASSUME IInv PROVE OvertimeBounded
    OBVIOUS
  <2>. QED
    BY ClosedBound DEF IInv, OvertimeBounded, Longest
<1>. QED
  BY <1>1, Invariance, PTL
=============================================================================
