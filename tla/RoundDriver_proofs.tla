------------------------- MODULE RoundDriver_proofs -------------------------
(***************************************************************************)
(* Proofs about RoundDriver, for every calendar CycleConfig accepts, every *)
(* set of rounds, every bound and any number of crashes.                   *)
(***************************************************************************)
EXTENDS RoundDriver, TLAPS

-----------------------------------------------------------------------------
(* Lemmas about the calendar *)

(* Every offset has a phase: `phase_of` returns on every path.             *)
LEMMA PhaseOfType ==
  ASSUME NEW o \in Int
  PROVE  phase_of(o) \in Phase
BY CycleAssumption
   DEF CycleAssumption, phase_of, Phase, BEFORE_SUBMISSION_CLOSE,
       AWAITING_SALT_COMMIT, AWAITING_RANDOMNESS, GENERATING, AWAITING_REVEAL,
       EXECUTING, SCORING, AWAITING_WEIGHTS, DONE

(* Offsets of rounds at blocks are integers.                               *)
LEMMA OffsetType ==
  ASSUME NEW r \in Rounds, NEW b \in Nat
  PROVE  offset_in(r, b) \in Int
BY CycleAssumption, DriverAssumption
   DEF CycleAssumption, DriverAssumption, offset_in, epoch_start_of

-----------------------------------------------------------------------------
(* Type correctness *)

(* While a step runs or its result is being saved there is a round it is   *)
(* for, and while it runs there is a step.                                 *)
Focus == /\ pc \in StepStage \cup {"save", "publish"} => at \in Rounds
         /\ pc \in StepStage => step \in Step

TypeInv == TypeOK /\ Focus

LEMMA FreshType == Fresh \in RoundState
BY DEF Fresh, RoundState, None, NotAbandoned, Phase, BEFORE_SUBMISSION_CLOSE

LEMMA PublicViewType ==
  ASSUME NEW s \in RoundState
  PROVE  public_view(s) \in PublicDocument
BY DEF RoundState, PublicDocument, public_view

LEMMA TypeInit == Init => TypeInv
<1> SUFFICES ASSUME Init PROVE TypeInv
  OBVIOUS
<1>1. TypeOK
  BY FreshType, PublicViewType, DriverAssumption
     DEF Init, TypeOK, DriverAssumption, Stage, None, NoRound, NoStep
<1>2. Focus
  BY DEF Init, Focus, StepStage
<1>. QED
  BY <1>1, <1>2 DEF TypeInv

LEMMA TypeStep == TypeInv /\ [Next]_vars => TypeInv'
<1> SUFFICES ASSUME TypeInv, [Next]_vars PROVE TypeInv'
  OBVIOUS
<1> USE DEF TypeInv, TypeOK, Focus, chain, stores, local
<1>1. CASE MineBlock
  BY <1>1 DEF MineBlock
<1>2. CASE StartTick
  BY <1>2 DEF StartTick, Stage, StepStage
<1>3. CASE EndTick
  BY <1>3 DEF EndTick, Stage, StepStage
<1>4. ASSUME NEW r \in Rounds, Skip(r) PROVE TypeInv'
  BY <1>4 DEF Skip, Stage, StepStage
<1>5. ASSUME NEW r \in Rounds, Abandon(r) PROVE TypeInv'
  BY <1>5 DEF Abandon, Stage, StepStage, RoundState, WindowClosed
<1>6. ASSUME NEW r \in Rounds, NEW s \in Step, Begin(r, s) PROVE TypeInv'
  <2>1. Entry(s) \in StepStage
    BY DEF Entry, StepStage, Step, COMMIT_SALT, GENERATE, EXECUTE, SCORE,
           SUBMIT_WEIGHTS
  <2>. QED
    BY <1>6, <2>1 DEF Begin, Stage
<1>7. CASE PublishSalt
  BY <1>7 DEF PublishSalt, Stage, StepStage, RoundState, Commitment, None
<1>8. CASE BuildPack
  BY <1>8 DEF BuildPack, Stage, StepStage
<1>9. CASE PublishPack
  BY <1>9 DEF PublishPack, Stage, StepStage, RoundState, Commitment
<1>10. CASE WritePack
  BY <1>10 DEF WritePack, Stage, StepStage, RoundState
<1>11. CASE ReadPack
  BY <1>11 DEF ReadPack, Stage, StepStage, RoundState
<1>12. CASE Execute
  BY <1>12 DEF Execute, Stage, StepStage
<1>13. CASE WriteExecutions
  BY <1>13 DEF WriteExecutions, Stage, StepStage
<1>14. CASE Score
  BY <1>14 DEF Score, Stage, StepStage, RoundState, None
<1>15. ASSUME Attempt, Land PROVE vectors' \subseteq Vector
  BY <1>15 DEF Attempt, Land, Vector, RoundState, StepStage
<1>16. CASE SubmitWeights
  BY <1>15, <1>16 DEF SubmitWeights, Attempt, Stage, StepStage
<1>17. CASE SubmitFails
  BY <1>15, <1>17 DEF SubmitFails, Attempt, Stage, StepStage
<1>18. CASE StepReturns
  <2>1. phase_of(TickOffset(at)) \in Phase
    BY <1>18, PhaseOfType, OffsetType DEF StepReturns, StepStage, TickOffset
  <2>. QED
    BY <1>18, <2>1 DEF StepReturns, Stage, StepStage, RoundState
<1>19. CASE StepRaises
  BY <1>19 DEF StepRaises, Stage, StepStage, RoundState, StepFailed
<1>20. CASE Save
  BY <1>20, FreshType, PublicViewType
     DEF Save, Forget, Stage, StepStage, NoRound, NoStep
<1>21. CASE Publish
  BY <1>21, FreshType, PublicViewType
     DEF Publish, Forget, Stage, StepStage, NoRound, NoStep
<1>22. CASE Crash
  BY <1>22, FreshType, PublicViewType
     DEF Crash, Forget, Stage, StepStage, NoRound, NoStep, None
<1>23. CASE Restart
  BY <1>23 DEF Restart, Stage, StepStage
<1>24. CASE UNCHANGED vars
  BY <1>24 DEF vars
<1>. QED
  BY <1>1, <1>2, <1>3, <1>4, <1>5, <1>6, <1>7, <1>8, <1>9, <1>10, <1>11,
     <1>12, <1>13, <1>14, <1>16, <1>17, <1>18, <1>19, <1>20, <1>21, <1>22,
     <1>23, <1>24
     DEF Next, Work, Tick, StepBody, Record, Fault

(* Every variable of the driver keeps its type, whatever the calendar.     *)
THEOREM TypeCorrect == Spec => []TypeOK
<1>1. Spec => []TypeInv
  BY TypeInit, TypeStep, PTL DEF Spec
<1>2. TypeInv => TypeOK
  BY DEF TypeInv
<1>. QED
  BY <1>1, <1>2, PTL

-----------------------------------------------------------------------------
(* The recorded salt is the committed one *)

(* n is no salt at all, or the salt of round r's last salt commitment.     *)
Bound(r, n) ==
  n # None => \E c \in SaltsOf(r) : IsLast(c, SaltsOf(r)) /\ c.salt = n

(* RecordedSaltIsCommitted is not inductive: it says nothing of the salt   *)
(* that has been published and not yet recorded.  What makes publishing a  *)
(* second salt harmless is that COMMIT_SALT only starts for a round whose  *)
(* document has none.                                                      *)
SaltInv ==
  /\ \A c \in log : c.n <= serial
  /\ \A r \in Rounds : Bound(r, rounds[r].salt)
  /\ \A r \in Rounds : rounds[r].salt # None => COMMIT_SALT \in rounds[r].done
  /\ pc = "commit_salt" => step = COMMIT_SALT /\ COMMIT_SALT \notin rounds[at].done
  /\ pc \in StepStage \ {"commit_salt", "return"} => step # COMMIT_SALT
  /\ pc \in StepStage /\ step # COMMIT_SALT
       => /\ produced.salt = rounds[at].salt
          /\ produced.done = rounds[at].done
  /\ pc = "return" /\ step = COMMIT_SALT => Bound(at, produced.salt)
  /\ pc \in {"save", "publish"}
       => /\ Bound(at, produced.salt)
          /\ produced.salt # None => COMMIT_SALT \in produced.done

LEMMA SaltInit == Init => SaltInv
BY DriverAssumption
   DEF Init, SaltInv, Bound, Fresh, None, StepStage, DriverAssumption

LEMMA SaltStep == TypeInv /\ SaltInv /\ [Next]_vars => SaltInv'
<1> SUFFICES ASSUME TypeInv, SaltInv, [Next]_vars PROVE SaltInv'
  OBVIOUS
<1> USE DEF SaltInv, chain, stores, local
(* What leaves the log, the documents and the step alone disturbs nothing. *)
<1>a. ASSUME UNCHANGED <<log, serial, rounds>>,
             pc' \notin StepStage \cup {"save", "publish"}
      PROVE  SaltInv'
  BY <1>a DEF Bound, SaltsOf, IsLast, StepStage
<1>b. ASSUME UNCHANGED <<log, serial, rounds, at, step, produced>>,
             pc \in StepStage \ {"commit_salt", "return"},
             pc' \in StepStage \ {"commit_salt"}
      PROVE  SaltInv'
  BY <1>b DEF Bound, SaltsOf, IsLast, StepStage
<1>c. ASSUME UNCHANGED <<log, serial, rounds, at, step, pc, produced>>
      PROVE  SaltInv'
  BY <1>c DEF Bound, SaltsOf, IsLast
<1>1. CASE MineBlock
  BY <1>1, <1>c DEF MineBlock
<1>2. CASE StartTick
  BY <1>2, <1>a DEF StartTick, StepStage
<1>3. CASE EndTick
  BY <1>3, <1>a DEF EndTick, StepStage
<1>4. ASSUME NEW r \in Rounds, Skip(r) PROVE SaltInv'
  BY <1>4, <1>a DEF Skip, StepStage
<1>5. ASSUME NEW r \in Rounds, Abandon(r) PROVE SaltInv'
  BY <1>5 DEF Abandon, StepStage, Bound, SaltsOf, IsLast, TypeInv, TypeOK,
              RoundState
<1>6. ASSUME NEW r \in Rounds, NEW s \in Step, Begin(r, s) PROVE SaltInv'
  <2>1. s \notin rounds[r].done
    BY <1>6 DEF Begin, decide_Run, FirstNotDone
  <2>2. /\ pc' \in StepStage \ {"return"}
        /\ pc' = "commit_salt" <=> s = COMMIT_SALT
    BY <1>6 DEF Begin, Entry, StepStage, Step, COMMIT_SALT, GENERATE, EXECUTE,
                SCORE, SUBMIT_WEIGHTS
  <2>. QED
    BY <1>6, <2>1, <2>2 DEF Begin, Bound, SaltsOf, IsLast, StepStage
<1>7. CASE PublishSalt
  <2> DEFINE c == [kind |-> "salt", round |-> at, n |-> serial',
                   salt |-> serial', pack |-> None, block |-> head]
  <2>1. /\ at \in Rounds /\ step = COMMIT_SALT /\ step' = step /\ at' = at
        /\ rounds[at].salt = None /\ rounds' = rounds
        /\ serial \in Nat /\ serial' = serial + 1 /\ log' = log \cup {c}
        /\ produced'.salt = serial' /\ pc' = "return"
    BY <1>7 DEF PublishSalt, TypeInv, TypeOK, Focus, StepStage, RoundState
  <2>2. \A d \in log' : d.n <= serial'
    BY <2>1, SMT DEF TypeInv, TypeOK, Commitment
  <2>3. /\ c \in SaltsOf(at)'
        /\ IsLast(c, SaltsOf(at)')
        /\ c.salt = serial'
    BY <2>1, <2>2 DEF SaltsOf, IsLast
  <2>4. \A r \in Rounds : r # at => SaltsOf(r)' = SaltsOf(r)
    BY <2>1 DEF SaltsOf
  <2>5. \A r \in Rounds : Bound(r, rounds[r].salt)'
    BY <2>1, <2>4 DEF Bound
  <2>6. Bound(at, produced.salt)'
    BY <2>1, <2>3 DEF Bound
  <2>. QED
    BY <2>1, <2>2, <2>5, <2>6 DEF StepStage
<1>8. CASE BuildPack
  BY <1>8, <1>b DEF BuildPack, StepStage
<1>9. CASE PublishPack
  <2>1. /\ serial \in Nat /\ serial' = serial + 1
        /\ \A d \in log' \ log : d.kind = "pack" /\ d.n = serial'
        /\ log \subseteq log'
    BY <1>9 DEF PublishPack, TypeInv, TypeOK
  <2>2. \A r : SaltsOf(r)' = SaltsOf(r)
    BY <2>1 DEF SaltsOf
  <2>3. \A d \in log' : d.n <= serial'
    BY <2>1, SMT DEF TypeInv, TypeOK, Commitment
  <2>4. /\ produced'.salt = produced.salt /\ produced'.done = produced.done
        /\ UNCHANGED <<rounds, at, step>> /\ pc = "publish_pack"
        /\ pc' = "write_pack"
    BY <1>9 DEF PublishPack, TypeInv, TypeOK, RoundState
  <2>. QED
    BY <2>2, <2>3, <2>4 DEF Bound, StepStage
<1>10. CASE WritePack
  BY <1>10, <1>b DEF WritePack, StepStage
<1>11. CASE ReadPack
  BY <1>11 DEF ReadPack, StepStage, TypeInv, TypeOK, RoundState, Bound, SaltsOf,
               IsLast
<1>12. CASE Execute
  BY <1>12, <1>b DEF Execute, StepStage
<1>13. CASE WriteExecutions
  BY <1>13, <1>b DEF WriteExecutions, StepStage
<1>14. CASE Score
  BY <1>14 DEF Score, StepStage, TypeInv, TypeOK, RoundState, Bound, SaltsOf,
               IsLast
<1>15. CASE SubmitWeights
  BY <1>15, <1>b DEF SubmitWeights, Attempt, StepStage
<1>16. CASE SubmitFails
  BY <1>16, <1>c DEF SubmitFails
<1>17. CASE StepReturns
  <2>1. /\ produced'.salt = produced.salt
        /\ produced'.done = produced.done \cup {step}
        /\ pc = "return" /\ pc' = "save" /\ at \in Rounds
        /\ UNCHANGED <<log, serial, rounds, at, step>>
    BY <1>17 DEF StepReturns, TypeInv, TypeOK, Focus, StepStage, RoundState
  <2>. QED
    BY <2>1 DEF Bound, SaltsOf, IsLast, StepStage
<1>18. CASE StepRaises
  BY <1>18 DEF StepRaises, StepStage, TypeInv, TypeOK, Focus, RoundState,
               Bound, SaltsOf, IsLast
<1>19. CASE Save
  <2>1. /\ at \in Rounds /\ rounds' = [rounds EXCEPT ![at] = produced]
        /\ UNCHANGED <<log, serial>>
        /\ pc = "save"
        /\ pc' = "tick" \/ (pc' = "publish" /\ UNCHANGED <<at, produced>>)
    BY <1>19 DEF Save, TypeInv, Focus
  <2>2. \A r \in Rounds : rounds'[r] = IF r = at THEN produced ELSE rounds[r]
    BY <2>1 DEF TypeInv, TypeOK
  <2>. QED
    BY <2>1, <2>2 DEF Bound, SaltsOf, IsLast, StepStage
<1>20. CASE Publish
  BY <1>20, <1>a DEF Publish, StepStage
<1>21. CASE Crash
  <2>1. CASE Durable
    BY <1>21, <2>1, <1>a DEF Crash, StepStage
  <2>2. CASE ~ Durable
    BY <1>21, <2>2 DEF Crash, StepStage, Fresh, Bound
  <2>. QED
    BY <2>1, <2>2
<1>22. CASE Restart
  BY <1>22, <1>a DEF Restart, StepStage
<1>23. CASE UNCHANGED vars
  BY <1>23, <1>c DEF vars
<1>. QED
  BY <1>1, <1>2, <1>3, <1>4, <1>5, <1>6, <1>7, <1>8, <1>9, <1>10, <1>11,
     <1>12, <1>13, <1>14, <1>15, <1>16, <1>17, <1>18, <1>19, <1>20, <1>21,
     <1>22, <1>23
     DEF Next, Work, Tick, StepBody, Record, Fault

(* Whatever crashes come between publishing a salt and recording it, the   *)
(* salt a round's document records is the one its chain commitment binds.  *)
THEOREM SaltCorrect == Spec => []RecordedSaltIsCommitted
<1>1. Spec => [](TypeInv /\ SaltInv)
  <2>1. Init => TypeInv /\ SaltInv
    BY TypeInit, SaltInit
  <2>2. (TypeInv /\ SaltInv) /\ [Next]_vars => (TypeInv /\ SaltInv)'
    BY TypeStep, SaltStep
  <2>. QED
    BY <2>1, <2>2, PTL DEF Spec
<1>2. SaltInv => RecordedSaltIsCommitted
  BY DEF SaltInv, RecordedSaltIsCommitted, Bound
<1>. QED
  BY <1>1, <1>2, PTL

-----------------------------------------------------------------------------
(* A settled round is final *)

(* A step runs, and a document is about to be saved, only for a round that *)
(* is not settled in the store.                                            *)
UnsettledInv == pc \in StepStage \cup {"save"} => ~ Settled(at)

LEMMA UnsettledStep == TypeInv /\ UnsettledInv /\ [Next]_vars => UnsettledInv'
<1> SUFFICES ASSUME TypeInv, UnsettledInv, [Next]_vars PROVE UnsettledInv'
  OBVIOUS
<1> USE DEF UnsettledInv, Settled, chain, stores, local
<1>a. CASE /\ pc \in StepStage \cup {"save"}
           /\ UNCHANGED <<rounds, at>>
  BY <1>a
<1>b. CASE pc' \notin StepStage \cup {"save"}
  BY <1>b
<1>1. CASE MineBlock \/ StepBody \/ SubmitFails \/ StepReturns \/ StepRaises
  <2>1. CASE MineBlock
    BY <2>1 DEF MineBlock
  <2>2. CASE StepBody
    BY <2>2, <1>a
       DEF StepBody, PublishSalt, BuildPack, PublishPack, WritePack, ReadPack,
           Execute, WriteExecutions, Score, SubmitWeights, Attempt, StepStage
  <2>3. CASE SubmitFails \/ StepReturns \/ StepRaises
    BY <2>3, <1>a DEF SubmitFails, Attempt, StepReturns, StepRaises, StepStage
  <2>. QED
    BY <1>1, <2>1, <2>2, <2>3
<1>2. CASE StartTick \/ EndTick \/ Save \/ Publish \/ Crash \/ Restart
  BY <1>2, <1>b DEF StartTick, EndTick, Save, Publish, Crash, Restart, StepStage
<1>3. ASSUME NEW r \in Rounds, Skip(r) PROVE UnsettledInv'
  BY <1>3, <1>b DEF Skip, StepStage
<1>4. ASSUME NEW r \in Rounds, Abandon(r) PROVE UnsettledInv'
  BY <1>4 DEF Abandon, decide_Abandon, FirstNotDone
<1>5. ASSUME NEW r \in Rounds, NEW s \in Step, Begin(r, s) PROVE UnsettledInv'
  BY <1>5 DEF Begin, decide_Run, FirstNotDone
<1>6. CASE UNCHANGED vars
  BY <1>6 DEF vars
<1>. QED
  BY <1>1, <1>2, <1>3, <1>4, <1>5, <1>6 DEF Next, Work, Tick, Record, Fault

(* What a step does to the chain and to the documents it does for the      *)
(* round in focus.                                                         *)
LEMMA OnlyTheFocus ==
  ASSUME TypeInv, [Next]_vars, Durable
  PROVE  /\ log' # log \/ vectors' # vectors \/ rounds' # rounds
              => pc \in StepStage \cup {"save"}
         /\ \A c \in log' \ log : c.round = at
         /\ \A v \in vectors' \ vectors : v.round = at
         /\ \A r \in Rounds : r # at => rounds'[r] = rounds[r]
<1> USE DEF chain, stores, local
<1>1. CASE PublishSalt
  BY <1>1 DEF PublishSalt, StepStage
<1>2. CASE PublishPack
  BY <1>2 DEF PublishPack, StepStage
<1>3. CASE SubmitWeights
  BY <1>3 DEF SubmitWeights, Attempt, Land, StepStage
<1>4. CASE SubmitFails
  BY <1>4 DEF SubmitFails, Attempt, Land, StepStage
<1>5. CASE Save
  BY <1>5 DEF Save, TypeInv, TypeOK
<1>6. CASE UNCHANGED <<log, vectors, rounds>>
  BY <1>6
<1>7. CASE \/ MineBlock \/ BuildPack \/ WritePack \/ ReadPack \/ Execute
           \/ WriteExecutions \/ Score \/ StepReturns \/ StepRaises \/ Publish
           \/ Crash \/ Restart \/ StartTick \/ EndTick \/ UNCHANGED vars
  BY <1>6, <1>7
     DEF MineBlock, BuildPack, WritePack, ReadPack, Execute, WriteExecutions,
         Score, StepReturns, StepRaises, Publish, Crash, Restart, StartTick,
         EndTick, vars
<1>8. ASSUME NEW r \in Rounds,
             Skip(r) \/ Abandon(r) \/ \E s \in Step : Begin(r, s)
      PROVE  UNCHANGED <<log, vectors, rounds>>
  BY <1>8 DEF Skip, Abandon, Begin
<1>. QED
  BY <1>1, <1>2, <1>3, <1>4, <1>5, <1>6, <1>7, <1>8
     DEF Next, Work, Tick, StepBody, Record, Fault

(* With stores that survive a crash, a round given up on or completed is   *)
(* never written to again, on chain or in the store.                       *)
THEOREM SettledCorrect == Durable => (Spec => SettledIsFinal)
<1> SUFFICES ASSUME Durable PROVE Spec => SettledIsFinal
  OBVIOUS
<1> DEFINE Final == \A r \in Rounds : Settled(r) =>
                      /\ rounds'[r] = rounds[r]
                      /\ \A c \in log' \ log : c.round # r
                      /\ \A v \in vectors' \ vectors : v.round # r
<1>1. Init => TypeInv /\ UnsettledInv
  BY TypeInit DEF Init, UnsettledInv, StepStage
<1>2. (TypeInv /\ UnsettledInv) /\ [Next]_vars => (TypeInv /\ UnsettledInv)'
  BY TypeStep, UnsettledStep
<1>3. TypeInv /\ UnsettledInv /\ [Next]_vars => [Final]_vars
  <2> SUFFICES ASSUME TypeInv, UnsettledInv, [Next]_vars, NEW r \in Rounds,
                      Settled(r)
               PROVE  /\ rounds'[r] = rounds[r]
                      /\ \A c \in log' \ log : c.round # r
                      /\ \A v \in vectors' \ vectors : v.round # r
    OBVIOUS
  <2>1. CASE pc \in StepStage \cup {"save"}
    <3>1. r # at
      BY <2>1 DEF UnsettledInv
    <3>. QED
      BY <3>1, OnlyTheFocus
  <2>2. CASE pc \notin StepStage \cup {"save"}
    BY <2>2, OnlyTheFocus
  <2>. QED
    BY <2>1, <2>2
<1>4. Spec => [][Final]_vars
  BY <1>1, <1>2, <1>3, PTL DEF Spec
<1>. QED
  BY <1>4 DEF SettledIsFinal

-----------------------------------------------------------------------------
(* No early disclosure *)

(* The phases that disclose are those from the close of execution on.      *)
LEMMA DisclosingPhase ==
  ASSUME NEW o \in Int, phase_of(o) \in Disclosing
  PROVE  execution_close_offset <= o
BY CycleAssumption
   DEF CycleAssumption, Disclosing, phase_of, BEFORE_SUBMISSION_CLOSE,
       AWAITING_SALT_COMMIT, AWAITING_RANDOMNESS, GENERATING, AWAITING_REVEAL,
       EXECUTING, SCORING, AWAITING_WEIGHTS, DONE

(* A step whose window is still open once execution has closed comes after *)
(* EXECUTE, or is EXECUTE's successor.                                     *)
LEMMA LateWindow ==
  ASSUME NEW s \in Step, NEW o \in Int,
         o < windows[s].closes, execution_close_offset <= o
  PROVE  EXECUTE < s
BY CycleAssumption
   DEF CycleAssumption, windows, Step, round_closes, COMMIT_SALT, GENERATE,
       EXECUTE, SCORE, SUBMIT_WEIGHTS

(* Execution is recorded as done, and its window has closed on chain.      *)
Closed(r, done) == /\ EXECUTE \in done
                   /\ execution_close_offset <= offset_in(r, head)

(* NoEarlyDisclosure is about the dashboard's copy; a document reaches it  *)
(* through the store, and the store through the driver's hands, and each   *)
(* of the three carries a phase that must not run ahead of the chain.      *)
DisclosureInv ==
  /\ tickBlock <= head
  /\ pc \in StepStage =>
       /\ TickOffset(at) < windows[step].closes
       /\ \A t \in Step : t < step => t \in rounds[at].done
       /\ produced.done = rounds[at].done
       /\ produced.phase = rounds[at].phase
  /\ pc \in {"save", "publish"} =>
       /\ rounds[at].done \subseteq produced.done
       /\ produced.phase \in Disclosing => Closed(at, produced.done)
  /\ pc = "publish" => produced.done = rounds[at].done
  /\ \A r \in Rounds :
       /\ rounds[r].phase \in Disclosing => Closed(r, rounds[r].done)
       /\ public[r].problems => Closed(r, rounds[r].done)

LEMMA DisclosureInit == Init => DisclosureInv
<1> SUFFICES ASSUME Init PROVE DisclosureInv
  OBVIOUS
<1>1. tickBlock <= head
  BY DriverAssumption DEF Init, DriverAssumption
<1>2. Fresh.phase \notin Disclosing
  BY DEF Fresh, Disclosing, BEFORE_SUBMISSION_CLOSE, SCORING, AWAITING_WEIGHTS,
         DONE
<1>3. public_view(Fresh).problems => Fresh.phase \in Disclosing
  BY DEF public_view
<1>. QED
  BY <1>1, <1>2, <1>3 DEF Init, DisclosureInv, StepStage

LEMMA DisclosureStep ==
  TypeInv /\ Durable /\ DisclosureInv /\ [Next]_vars => DisclosureInv'
<1> SUFFICES ASSUME TypeInv, Durable, DisclosureInv, [Next]_vars
             PROVE  DisclosureInv'
  OBVIOUS
<1> USE DEF DisclosureInv, chain, stores, local
(* Closed survives everything but a change of the round's document.        *)
<1>a. ASSUME UNCHANGED <<head, tickBlock, rounds, public>>,
             pc' \notin StepStage \cup {"save", "publish"}
      PROVE  DisclosureInv'
  BY <1>a DEF Closed, StepStage
<1>b. ASSUME UNCHANGED <<head, tickBlock, rounds, public, at, step>>,
             produced'.done = produced.done, produced'.phase = produced.phase,
             pc \in StepStage, pc' \in StepStage
      PROVE  DisclosureInv'
  BY <1>b DEF Closed, TickOffset, StepStage
<1>1. CASE MineBlock
  <2>1. /\ head \in Nat /\ head' = head + 1 /\ tickBlock \in Nat
        /\ UNCHANGED <<tickBlock, rounds, public, at, step, produced, pc>>
    BY <1>1 DEF MineBlock, TypeInv, TypeOK
  <2>2. \A r \in Rounds : offset_in(r, head) <= offset_in(r, head)'
    BY <2>1, CycleAssumption, DriverAssumption
       DEF offset_in, epoch_start_of, CycleAssumption, DriverAssumption
  <2>3. \A r \in Rounds : \A d : Closed(r, d) => Closed(r, d)'
    <3> SUFFICES ASSUME NEW r \in Rounds,
                        execution_close_offset <= offset_in(r, head)
                 PROVE  execution_close_offset <= offset_in(r, head)'
      BY DEF Closed
    <3>1. /\ offset_in(r, head) \in Int /\ offset_in(r, head)' \in Int
          /\ execution_close_offset \in Int
      BY <2>1, OffsetType, CycleAssumption DEF CycleAssumption
    <3>. QED
      BY <2>2, <3>1
  <2>4. pc \in {"save", "publish"} => at \in Rounds
    BY DEF TypeInv, Focus
  <2>5. tickBlock' <= head'
    BY <2>1
  <2>. QED
    BY <2>1, <2>3, <2>4, <2>5 DEF TickOffset
<1>2. CASE StartTick
  BY <1>2 DEF StartTick, StepStage, Closed, TypeInv, TypeOK
<1>3. CASE EndTick
  BY <1>3, <1>a DEF EndTick, StepStage
<1>4. ASSUME NEW r \in Rounds, Skip(r) PROVE DisclosureInv'
  BY <1>4, <1>a DEF Skip, StepStage
<1>5. ASSUME NEW r \in Rounds, Abandon(r) PROVE DisclosureInv'
  <2>1. /\ produced'.done = rounds[r].done /\ produced'.phase = rounds[r].phase
        /\ UNCHANGED <<head, tickBlock, rounds, public>>
        /\ at' = r /\ pc' = "save"
    BY <1>5 DEF Abandon, TypeInv, TypeOK, RoundState
  <2>. QED
    BY <2>1 DEF Closed, StepStage
<1>6. ASSUME NEW r \in Rounds, NEW s \in Step, Begin(r, s) PROVE DisclosureInv'
  <2>1. /\ produced' = rounds[r] /\ at' = r /\ step' = s
        /\ TickOffset(r) < windows[s].closes
        /\ FirstNotDone(s, rounds[r].done)
        /\ UNCHANGED <<head, tickBlock, rounds, public>>
    BY <1>6 DEF Begin, decide_Run
  <2>2. pc' \in StepStage
    BY <1>6 DEF Begin, Entry, StepStage, Step, COMMIT_SALT, GENERATE, EXECUTE,
                SCORE, SUBMIT_WEIGHTS
  <2>3. \A t \in Step : t < s => t \in rounds[r].done
    BY <2>1 DEF FirstNotDone, Step
  <2>. QED
    BY <2>1, <2>2, <2>3 DEF Closed, TickOffset, StepStage
<1>7. CASE PublishSalt \/ PublishPack \/ ReadPack \/ Score
  <2>1. produced'.done = produced.done /\ produced'.phase = produced.phase
    BY <1>7 DEF PublishSalt, PublishPack, ReadPack, Score, TypeInv, TypeOK,
                RoundState
  <2>2. /\ pc \in StepStage /\ pc' \in StepStage
        /\ UNCHANGED <<head, tickBlock, rounds, public, at, step>>
    BY <1>7 DEF PublishSalt, PublishPack, ReadPack, Score, StepStage
  <2>. QED
    BY <1>b, <2>1, <2>2
<1>8. CASE \/ BuildPack \/ WritePack \/ Execute \/ WriteExecutions
           \/ SubmitWeights \/ SubmitFails
  <2>1. /\ pc \in StepStage /\ pc' \in StepStage
        /\ UNCHANGED <<head, tickBlock, rounds, public, at, step, produced>>
    BY <1>8 DEF BuildPack, WritePack, Execute, WriteExecutions, SubmitWeights,
                SubmitFails, Attempt, StepStage
  <2>. QED
    BY <1>b, <2>1
<1>9. CASE StepReturns
  <2> DEFINE o == TickOffset(at)
  <2>1. /\ pc \in StepStage /\ pc' = "save" /\ at \in Rounds /\ step \in Step
        /\ produced'.done = produced.done \cup {step}
        /\ produced'.phase = phase_of(o)
        /\ UNCHANGED <<head, tickBlock, rounds, public, at, step>>
    BY <1>9 DEF StepReturns, StepStage, TypeInv, TypeOK, Focus, RoundState
  <2>2. /\ o \in Int /\ offset_in(at, head) \in Int /\ o <= offset_in(at, head)
    BY <2>1, OffsetType, CycleAssumption, DriverAssumption
       DEF TypeInv, TypeOK, TickOffset, offset_in, epoch_start_of,
           CycleAssumption, DriverAssumption
  <2>3. ASSUME phase_of(o) \in Disclosing PROVE Closed(at, produced'.done)
    <3>1. execution_close_offset <= o
      BY <2>2, <2>3, DisclosingPhase
    <3>2. EXECUTE < step
      BY <2>1, <2>2, <3>1, LateWindow
    <3>3. EXECUTE \in produced'.done
      BY <2>1, <3>2 DEF Step, EXECUTE
    <3>4. execution_close_offset <= offset_in(at, head)
      BY <2>2, <3>1, CycleAssumption DEF CycleAssumption
    <3>. QED
      BY <3>3, <3>4 DEF Closed
  <2>. QED
    BY <2>1, <2>3 DEF Closed, StepStage
<1>10. CASE StepRaises
  <2>1. /\ produced'.done = rounds[at].done /\ produced'.phase = rounds[at].phase
        /\ UNCHANGED <<head, tickBlock, rounds, public, at>>
        /\ at \in Rounds /\ pc' = "save"
    BY <1>10 DEF StepRaises, TypeInv, TypeOK, Focus, RoundState
  <2>. QED
    BY <2>1 DEF Closed, StepStage
<1>11. CASE Save
  <2>1. /\ at \in Rounds /\ pc = "save"
        /\ UNCHANGED <<head, tickBlock>>
        /\ \A r \in Rounds : rounds'[r] = IF r = at THEN produced ELSE rounds[r]
        /\ \/ pc' = "publish" /\ UNCHANGED <<public, at, produced>>
           \/ pc' = "tick"
        /\ \A r \in Rounds : \/ public'[r] = public[r]
                             \/ r = at /\ public'[r] = public_view(produced)
    BY <1>11 DEF Save, TypeInv, TypeOK, Focus
  <2>2. \A r \in Rounds : Closed(r, rounds[r].done) => Closed(r, rounds[r].done)'
    BY <2>1 DEF Closed
  <2>3. public_view(produced).problems => produced.phase \in Disclosing
    BY DEF public_view
  <2>. QED
    BY <2>1, <2>2, <2>3 DEF Closed, StepStage
<1>12. CASE Publish
  <2>1. /\ at \in Rounds /\ pc = "publish" /\ pc' = "tick"
        /\ UNCHANGED <<head, tickBlock, rounds>>
        /\ \A r \in Rounds : \/ public'[r] = public[r]
                             \/ r = at /\ public'[r] = public_view(produced)
    BY <1>12 DEF Publish, TypeInv, TypeOK, Focus
  <2>2. public_view(produced).problems => produced.phase \in Disclosing
    BY DEF public_view
  <2>. QED
    BY <2>1, <2>2 DEF Closed, StepStage
<1>13. CASE Crash
  BY <1>13 DEF Crash, StepStage, Closed, TypeInv, TypeOK
<1>14. CASE Restart
  BY <1>14, <1>a DEF Restart, StepStage
<1>15. CASE UNCHANGED vars
  BY <1>15 DEF vars, Closed, TickOffset
<1>. QED
  BY <1>1, <1>2, <1>3, <1>4, <1>5, <1>6, <1>7, <1>8, <1>9, <1>10, <1>11,
     <1>12, <1>13, <1>14, <1>15
     DEF Next, Work, Tick, StepBody, Record, Fault

(* With stores that survive a crash, the dashboard never shows a round's   *)
(* problems before execution has closed on chain and this validator's own  *)
(* execution is over: not through a stale tick, a crash or a lost publish. *)
THEOREM DisclosureCorrect == Durable => (Spec => []NoEarlyDisclosure)
<1> SUFFICES ASSUME Durable PROVE Spec => []NoEarlyDisclosure
  OBVIOUS
<1>1. Init => TypeInv /\ DisclosureInv
  BY TypeInit, DisclosureInit
<1>2. (TypeInv /\ DisclosureInv) /\ [Next]_vars => (TypeInv /\ DisclosureInv)'
  BY TypeStep, DisclosureStep
<1>3. DisclosureInv => NoEarlyDisclosure
  BY DEF DisclosureInv, NoEarlyDisclosure, Closed
<1>. QED
  BY <1>1, <1>2, <1>3, PTL DEF Spec

-----------------------------------------------------------------------------
(* Every weight vector is traceable to the chain.                          *)

(* What it is for a pack to be vouched for *)

(* In the log L, pack k is the one of round r's last pack commitment, made *)
(* by block b, after the randomness block, and carrying the salt of r's    *)
(* last salt commitment, made before it.                                   *)
Chained(L, r, k, b) ==
  \E p \in L, c \in L :
    /\ p.kind = "pack" /\ p.round = r
    /\ c.kind = "salt" /\ c.round = r
    /\ \A d \in L : d.kind = "pack" /\ d.round = r => d.n <= p.n
    /\ \A d \in L : d.kind = "salt" /\ d.round = r => d.n <= c.n
    /\ p.pack = k
    /\ p.salt = c.salt
    /\ c.n < p.n
    /\ p.block <= b
    /\ block_at(r, randomness_offset) < p.block

(* The randomness block of a round is an integer.                          *)
LEMMA BlockType ==
  ASSUME NEW r \in Rounds
  PROVE  block_at(r, randomness_offset) \in Int
BY CycleAssumption, DriverAssumption
   DEF CycleAssumption, DriverAssumption, block_at, epoch_start_of

(* An offset grows with the block.                                         *)
LEMMA OffsetMoves ==
  ASSUME NEW r \in Rounds, NEW b \in Nat
  PROVE  /\ offset_in(r, b) \in Int
         /\ offset_in(r, b + 1) = offset_in(r, b) + 1
BY CycleAssumption, DriverAssumption
   DEF CycleAssumption, DriverAssumption, offset_in, epoch_start_of

(* Commitments for other rounds, and later blocks, disturb none of it.     *)
LEMMA ChainedFrame ==
  ASSUME NEW L, NEW M, L \subseteq M, L \subseteq Commitment,
         NEW r, NEW k, NEW b \in Nat, NEW b2 \in Nat, b <= b2,
         \A d \in M \ L : d.round # r,
         Chained(L, r, k, b)
  PROVE  Chained(M, r, k, b2)
<1>1. PICK p \in L, c \in L :
         /\ p.kind = "pack" /\ p.round = r
         /\ c.kind = "salt" /\ c.round = r
         /\ \A d \in L : d.kind = "pack" /\ d.round = r => d.n <= p.n
         /\ \A d \in L : d.kind = "salt" /\ d.round = r => d.n <= c.n
         /\ p.pack = k
         /\ p.salt = c.salt
         /\ c.n < p.n
         /\ p.block <= b
         /\ block_at(r, randomness_offset) < p.block
  BY DEF Chained
<1>2. p.block <= b2
  BY <1>1 DEF Commitment
<1>3. p \in M /\ c \in M
  OBVIOUS
<1>4. /\ \A d \in M : d.kind = "pack" /\ d.round = r => d.n <= p.n
      /\ \A d \in M : d.kind = "salt" /\ d.round = r => d.n <= c.n
  BY <1>1
<1>. QED
  BY <1>1, <1>2, <1>3, <1>4 DEF Chained

-----------------------------------------------------------------------------
(* The invariant *)

(* The stages of GENERATE, those before a pack can be recorded, and those  *)
(* of the steps that use one.                                              *)
Generating == {"generate", "publish_pack", "write_pack", "read_pack"}

Using == {"execute", "write_executions", "score", "submit_weights"}

(* Where a step's method is says which step it is.  A step that makes a    *)
(* pack runs for a round whose document has none, one that uses a pack for *)
(* a round whose document has one; a document with a pack has a salt.      *)
Places ==
  /\ pc = "commit_salt" => step = COMMIT_SALT
  /\ pc \in Generating => step = GENERATE
  /\ pc = "execute" \/ pc = "write_executions" => step = EXECUTE
  /\ pc = "score" => step = SCORE
  /\ pc = "submit_weights" => step = SUBMIT_WEIGHTS
  /\ pc \in StepStage =>
       /\ step \notin rounds[at].done
       /\ \A t \in Step : t < step => t \in rounds[at].done
       /\ produced.done = rounds[at].done
  /\ pc = "save" => /\ rounds[at].done \subseteq produced.done
                    /\ GENERATE \in produced.done => COMMIT_SALT \in produced.done
  /\ \A r \in Rounds :
       GENERATE \in rounds[r].done => COMMIT_SALT \in rounds[r].done

(* Between publishing a pack's hash and recording the step, the pack that  *)
(* is vouched for is first in the driver's hands, then in the store.       *)
Handed ==
  /\ pc = "publish_pack" => /\ rounds[at].salt # None
                            /\ block_at(at, randomness_offset) < head
  /\ pc = "write_pack" => Chained(log, at, produced.pack, head)
  /\ pc = "read_pack" => Chained(log, at, packs[at], head)
  /\ pc = "return" /\ step = GENERATE => Chained(log, at, packs[at], head)
  /\ pc = "save" /\ GENERATE \in produced.done
       => Chained(log, at, packs[at], head)

(* What is executed, scored and submitted is the stored pack of a round    *)
(* whose GENERATE is recorded.                                             *)
Recorded(r, k) == k # None => GENERATE \in rounds[r].done /\ k = packs[r]

Uses ==
  /\ pc \in StepStage \cup {"save"} => Recorded(at, produced.scored)
  /\ \A r \in Rounds : /\ Recorded(r, executions[r])
                       /\ Recorded(r, rounds[r].scored)

(* A round that was forgotten with the stores, after its salt window: it   *)
(* is at no step, and will never be at one again.                          *)
Forgotten(r) ==
  /\ COMMIT_SALT \notin rounds[r].done
  /\ randomness_offset <= offset_in(r, head)
  /\ r \in pending => randomness_offset <= TickOffset(r)
  /\ pc \in StepStage => at # r
  /\ pc = "save" /\ at = r => COMMIT_SALT \notin produced.done

(* VectorsTraceToChain is not inductive: it says nothing of the commitments *)
(* still to come.  None comes for a round whose pack is recorded, or that   *)
(* was forgotten, and a vector lands only for a round whose pack is         *)
(* recorded.                                                                *)
TraceInv ==
  /\ \A c \in log : c.block <= head
  /\ Places
  /\ Handed
  /\ Uses
  /\ \A r \in Rounds :
       GENERATE \in rounds[r].done => Chained(log, r, packs[r], head)
  /\ \A v \in vectors :
       /\ GENERATE \in rounds[v.round].done \/ Forgotten(v.round)
       /\ Chained(log, v.round, v.pack, v.block)

LEMMA TraceInit == Init => TraceInv
BY DEF Init, TraceInv, Places, Handed, Uses, Recorded, Fresh, None, StepStage,
       Generating, GENERATE

(* The vectors of the invariant are those of the property.                 *)
LEMMA TraceImplies == TraceInv => VectorsTraceToChain
BY DEF TraceInv, VectorsTraceToChain, Chained, PacksOf, SaltsOf, IsLast

-----------------------------------------------------------------------------
(* The invariant is preserved *)

(* Entering a step: which stage it starts in.                              *)
LEMMA EntryStage ==
  ASSUME NEW s \in Step
  PROVE  /\ Entry(s) \in StepStage \ {"return", "publish_pack", "write_pack", "read_pack"}
         /\ Entry(s) = "commit_salt" => s = COMMIT_SALT
         /\ Entry(s) = "generate" => s = GENERATE
         /\ Entry(s) = "execute" \/ Entry(s) = "write_executions" => s = EXECUTE
         /\ Entry(s) = "score" => s = SCORE
         /\ Entry(s) = "submit_weights" => s = SUBMIT_WEIGHTS
BY DEF Entry, StepStage, Step, COMMIT_SALT, GENERATE, EXECUTE, SCORE,
       SUBMIT_WEIGHTS

(* A stage that uses a pack runs for a round that has one, a stage that    *)
(* makes one or publishes a salt for a round that has none.                *)
LEMMA PlacesSay ==
  ASSUME TypeInv, Places
  PROVE  /\ pc \in Using => GENERATE \in rounds[at].done
         /\ pc \in Generating \cup {"commit_salt"} => GENERATE \notin rounds[at].done
<1>1. ASSUME pc \in Using PROVE GENERATE \in rounds[at].done
  <2>1. /\ pc \in StepStage
        /\ step \in {EXECUTE, SCORE, SUBMIT_WEIGHTS}
    BY <1>1 DEF Places, Using, StepStage
  <2>2. GENERATE \in Step /\ GENERATE < step
    BY <2>1 DEF GENERATE, EXECUTE, SCORE, SUBMIT_WEIGHTS, Step
  <2>. QED
    BY <2>1, <2>2 DEF Places
<1>2. ASSUME pc \in Generating PROVE GENERATE \notin rounds[at].done
  BY <1>2 DEF Places, Generating, StepStage
<1>3. ASSUME pc = "commit_salt" PROVE GENERATE \notin rounds[at].done
  <2>1. at \in Rounds /\ COMMIT_SALT \notin rounds[at].done
    BY <1>3 DEF Places, StepStage, TypeInv, Focus
  <2>. QED
    BY <2>1 DEF Places
<1>. QED
  BY <1>1, <1>2, <1>3

(* A round stays forgotten: only its salt could be next, and its window is *)
(* over.                                                                   *)
LEMMA ForgottenStays ==
  ASSUME TypeInv, Next, NEW r \in Rounds, Forgotten(r)
  PROVE  Forgotten(r)'
<1> USE DEF chain, stores, local
<1>1. /\ head \in Nat /\ tickBlock \in Nat /\ randomness_offset \in Int
      /\ offset_in(r, head) \in Int /\ offset_in(r, head + 1) = offset_in(r, head) + 1
  BY OffsetMoves, CycleAssumption DEF TypeInv, TypeOK, CycleAssumption
<1>2. CASE MineBlock
  BY <1>1, <1>2 DEF MineBlock, Forgotten, TickOffset
<1>3. CASE StartTick
  BY <1>3 DEF StartTick, Forgotten, TickOffset, StepStage
<1>4. ASSUME NEW q \in Rounds, Skip(q) \/ Abandon(q) PROVE Forgotten(r)'
  BY <1>4 DEF Skip, Abandon, Forgotten, TickOffset, StepStage, TypeInv, TypeOK, RoundState
<1>5. ASSUME NEW q \in Rounds, NEW s \in Step, Begin(q, s) PROVE Forgotten(r)'
  <2>1. q # r
    <3>1. SUFFICES ASSUME q = r PROVE FALSE
      OBVIOUS
    <3>2. r \in pending /\ FirstNotDone(s, rounds[r].done) /\ TickOffset(r) < windows[s].closes
      BY <1>5, <3>1 DEF Begin, Oldest, decide_Run
    <3>3. s = COMMIT_SALT
      BY <3>2 DEF Forgotten, FirstNotDone, Step, COMMIT_SALT
    <3>4. windows[s].closes = randomness_offset
      BY <3>3 DEF windows, Step, COMMIT_SALT, GENERATE, EXECUTE, SCORE, SUBMIT_WEIGHTS
    <3>5. TickOffset(r) \in Int
      BY <1>1, OffsetMoves DEF TickOffset
    <3>. QED
      BY <1>1, <3>2, <3>4, <3>5 DEF Forgotten
  <2>2. pc' # "save"
    BY <1>5, EntryStage DEF Begin, StepStage
  <2>. QED
    BY <1>5, <2>1, <2>2 DEF Begin, Forgotten, TickOffset
<1>6. CASE StepBody \/ SubmitFails
  BY <1>6 DEF StepBody, PublishSalt, BuildPack, PublishPack, WritePack, ReadPack, Execute,
              WriteExecutions, Score, SubmitWeights, SubmitFails, Attempt, Forgotten,
              TickOffset, StepStage
<1>7. CASE StepReturns \/ StepRaises
  BY <1>7 DEF StepReturns, StepRaises, Forgotten, TickOffset, StepStage
<1>8. CASE Save
  <2>1. rounds'[r] = IF r = at THEN produced ELSE rounds[r]
    BY <1>8 DEF Save, TypeInv, TypeOK
  <2>. QED
    BY <1>8, <2>1 DEF Save, Forgotten, TickOffset, StepStage
<1>9. CASE EndTick \/ Publish \/ Restart
  BY <1>9 DEF EndTick, Publish, Restart, Forgotten, TickOffset, StepStage
<1>10. CASE Crash
  BY <1>10 DEF Crash, Forgotten, Fresh, StepStage
<1>. QED
  BY <1>2, <1>3, <1>4, <1>5, <1>6, <1>7, <1>8, <1>9, <1>10
     DEF Next, Work, Tick, Record, Fault

(* After the block a round's randomness is of, its salt window is over.    *)
LEMMA PastRandomness ==
  ASSUME NEW r \in Rounds, NEW b \in Nat, block_at(r, randomness_offset) < b
  PROVE  randomness_offset <= offset_in(r, b)
<1>1. PICK e : e = r * blocks_per_day
  OBVIOUS
<1>2. e \in Int /\ randomness_offset \in Int /\ reveal_offset \in Int
  BY <1>1, CycleAssumption, DriverAssumption DEF CycleAssumption, DriverAssumption
<1>3. e + randomness_offset - reveal_offset < b
  BY <1>1 DEF block_at, epoch_start_of
<1>4. offset_in(r, b) = b - e + reveal_offset
  BY <1>1 DEF offset_in, epoch_start_of
<1>. QED
  BY <1>2, <1>3, <1>4

(* A round with a vector is past its salt window: a process that has lost  *)
(* its stores will not take it up again.                                   *)
LEMMA CrashForgets ==
  ASSUME TypeInv, TraceInv, Crash, ~ Durable, NEW v \in vectors
  PROVE  Forgotten(v.round)'
<1>1. v.round \in Rounds /\ head \in Nat
  BY DEF TypeInv, TypeOK, Vector
<1>2. PICK p \in log : block_at(v.round, randomness_offset) < p.block
  BY DEF TraceInv, Chained
<1>3. p.block \in Nat /\ p.block <= head
  BY <1>2 DEF TraceInv, TypeInv, TypeOK, Commitment
<1>4. block_at(v.round, randomness_offset) < head
  BY <1>1, <1>2, <1>3, BlockType
<1>5. randomness_offset <= offset_in(v.round, head)
  BY <1>1, <1>4, PastRandomness
<1>. QED
  BY <1>1, <1>5 DEF Crash, Forgotten, Fresh, StepStage, stores, chain

LEMMA TraceStep ==
  TypeInv /\ SaltInv /\ TraceInv /\ [Next]_vars => TraceInv'
<1> SUFFICES ASSUME TypeInv, SaltInv, TraceInv, [Next]_vars
             PROVE  TraceInv'
  OBVIOUS
<1> USE DEF chain, stores, local
<1> DEFINE kept == <<head, log, vectors, rounds, packs, executions>>
<1>0. \A v \in vectors : Forgotten(v.round) => Forgotten(v.round)'
  <2>1. \A v \in vectors : v.round \in Rounds
    BY DEF TypeInv, TypeOK, Vector
  <2>2. CASE UNCHANGED vars
    BY <2>2 DEF vars, Forgotten, TickOffset
  <2>. QED
    BY <2>1, <2>2, ForgottenStays
(* What leaves chain and stores alone need only account for the stage.     *)
<1>a. ASSUME UNCHANGED kept, Places', Handed',
             pc' \in StepStage \cup {"save"} => Recorded(at, produced.scored)'
      PROVE  TraceInv'
  BY <1>0, <1>a DEF TraceInv, Uses, Recorded
<1>b. ASSUME UNCHANGED kept, pc' \notin StepStage \cup {"save"}
      PROVE  TraceInv'
  <2>1. Places' /\ Handed'
    BY <1>b DEF TraceInv, Places, Handed, StepStage, Generating
  <2>. QED
    BY <1>a, <1>b, <2>1
<1>c. ASSUME UNCHANGED <<kept, at, step>>,
             produced'.done = produced.done,
             pc \in StepStage,
             \/ pc' = pc /\ pc' \in Using
             \/ pc \in Generating /\ pc' \in Generating
             \/ pc = "execute" /\ pc' = "write_executions"
             \/ pc' = "return",
             Handed',
             Recorded(at, produced'.scored)
      PROVE  TraceInv'
  <2>1. Places'
    BY <1>c DEF TraceInv, Places, StepStage, Generating, Using
  <2>2. Recorded(at, produced.scored)'
    BY <1>c DEF Recorded
  <2>. QED
    BY <1>a, <1>c, <2>1, <2>2
<1>1. CASE MineBlock
  <2>1. /\ head \in Nat /\ head' \in Nat /\ head <= head' /\ log \subseteq Commitment
        /\ UNCHANGED <<log, vectors, rounds, packs, executions, pc, at, step, produced>>
    BY <1>1 DEF MineBlock, TypeInv, TypeOK
  <2>2. \A r, k : Chained(log, r, k, head) => Chained(log, r, k, head')
    BY <2>1, ChainedFrame
  <2>3. \A c \in log : c.block <= head'
    BY <2>1 DEF TraceInv, Commitment
  <2>4. Places' /\ Uses'
    BY <2>1 DEF TraceInv, Places, Uses, Recorded
  <2>5. ASSUME pc = "publish_pack"
        PROVE  block_at(at, randomness_offset) < head'
    <3>1. at \in Rounds /\ block_at(at, randomness_offset) < head
      BY <2>5 DEF TraceInv, Handed, TypeInv, Focus, StepStage
    <3>2. block_at(at, randomness_offset) \in Int
      BY <3>1, BlockType
    <3>. QED
      BY <2>1, <3>1, <3>2
  <2>6. Handed'
    BY <2>1, <2>2, <2>5 DEF TraceInv, Handed
  <2>. QED
    BY <1>0, <2>1, <2>2, <2>3, <2>4, <2>6 DEF TraceInv
<1>2. CASE StartTick
  BY <1>2, <1>b DEF StartTick, StepStage
<1>3. CASE EndTick
  BY <1>3, <1>b DEF EndTick, StepStage
<1>4. ASSUME NEW r \in Rounds, Skip(r) PROVE TraceInv'
  BY <1>4, <1>b DEF Skip, StepStage
<1>5. ASSUME NEW r \in Rounds, Abandon(r) PROVE TraceInv'
  <2>1. /\ UNCHANGED kept /\ at' = r /\ pc' = "save"
        /\ produced'.done = rounds[r].done /\ produced'.scored = rounds[r].scored
    BY <1>5 DEF Abandon, TypeInv, TypeOK, RoundState
  <2>2. Places' /\ Handed' /\ Recorded(at, produced.scored)'
    BY <2>1 DEF TraceInv, Places, Handed, Uses, Recorded, StepStage, Generating
  <2>. QED
    BY <1>a, <2>1, <2>2
<1>6. ASSUME NEW r \in Rounds, NEW s \in Step, Begin(r, s) PROVE TraceInv'
  <2>1. /\ UNCHANGED kept /\ at' = r /\ step' = s /\ produced' = rounds[r]
        /\ pc' = Entry(s) /\ FirstNotDone(s, rounds[r].done)
    BY <1>6 DEF Begin, decide_Run
  <2>2. /\ s \notin rounds[r].done
        /\ \A t \in Step : t < s => t \in rounds[r].done
    BY <2>1 DEF FirstNotDone, Step
  <2>3. Places'
    BY <2>1, <2>2, EntryStage
       DEF TraceInv, Places, StepStage, Generating
  <2>4. Handed' /\ Recorded(at, produced.scored)'
    BY <2>1, EntryStage DEF TraceInv, Handed, Uses, Recorded, StepStage
  <2>. QED
    BY <1>a, <2>1, <2>3, <2>4
<1>7. CASE PublishSalt
  <2>1. /\ at \in Rounds /\ pc = "commit_salt" /\ pc' = "return" /\ head \in Nat
        /\ step = COMMIT_SALT
        /\ GENERATE \notin rounds[at].done
        /\ produced'.done = produced.done /\ produced'.scored = produced.scored
        /\ UNCHANGED <<head, vectors, rounds, packs, executions, at, step>>
        /\ log \subseteq log' /\ log \subseteq Commitment
        /\ \A d \in log' \ log : d.round = at /\ d.block = head
    BY <1>7, PlacesSay
       DEF PublishSalt, TypeInv, TypeOK, Focus, StepStage, RoundState, TraceInv,
           Places
  <2>2. \A r, k : \A b \in Nat : r # at /\ Chained(log, r, k, b) => Chained(log', r, k, b)
    BY <2>1, ChainedFrame
  <2>3. \A v \in vectors : v.block \in Nat /\ v.round # at
    BY <2>1 DEF TraceInv, TypeInv, TypeOK, Vector, Forgotten, StepStage
  <2>4. Places'
    BY <2>1 DEF TraceInv, Places, StepStage, Generating
  <2>5. Handed' /\ Uses'
    BY <2>1 DEF TraceInv, Handed, Uses, Recorded, StepStage, COMMIT_SALT, GENERATE
  <2>6. \A c \in log' : c.block <= head'
    BY <2>1 DEF TraceInv
  <2>. QED
    BY <1>0, <2>1, <2>2, <2>3, <2>4, <2>5, <2>6 DEF TraceInv
<1>8. CASE BuildPack
  <2>1. /\ UNCHANGED <<kept, at, step, produced>>
        /\ pc = "generate" /\ pc' = "publish_pack"
    BY <1>8 DEF BuildPack
  <2>2. Handed'
    BY <1>8, <2>1 DEF BuildPack, Handed
  <2>. QED
    BY <1>c, <2>1, <2>2 DEF StepStage, Generating, TraceInv, Uses
<1>9. CASE PublishPack
  <2> DEFINE p == [kind |-> "pack", round |-> at, n |-> serial',
                   salt |-> rounds[at].salt, pack |-> serial', block |-> head]
  <2>1. /\ at \in Rounds /\ pc = "publish_pack" /\ pc' = "write_pack"
        /\ head \in Nat /\ serial \in Nat /\ serial' = serial + 1
        /\ step = GENERATE
        /\ GENERATE \notin rounds[at].done
        /\ produced'.done = produced.done /\ produced'.scored = produced.scored
        /\ produced'.pack = serial'
        /\ UNCHANGED <<head, vectors, rounds, packs, executions, at, step>>
        /\ log' = log \cup {p} /\ log \subseteq Commitment
    BY <1>9, PlacesSay
       DEF PublishPack, TypeInv, TypeOK, Focus, StepStage, RoundState, TraceInv,
           Places, Generating
  <2>2. \A r, k : \A b \in Nat : r # at /\ Chained(log, r, k, b) => Chained(log', r, k, b)
    BY <2>1, ChainedFrame
  <2>3. \A v \in vectors : v.block \in Nat /\ v.round # at
    BY <2>1 DEF TraceInv, TypeInv, TypeOK, Vector, Forgotten, StepStage
  <2>4. PICK c \in log : /\ c.kind = "salt" /\ c.round = at
                         /\ \A d \in log : d.kind = "salt" /\ d.round = at => d.n <= c.n
                         /\ c.salt = rounds[at].salt
    BY <2>1 DEF TraceInv, Handed, SaltInv, Bound, SaltsOf, IsLast
  <2>5. \A d \in log : d.n \in Nat /\ d.n < serial'
    BY <2>1 DEF SaltInv, Commitment
  <2>6. \A d \in log' : d.n <= p.n
    BY <2>1, <2>5
  <2>7. block_at(at, randomness_offset) < p.block
    BY <2>1 DEF TraceInv, Handed
  <2>8. Chained(log', at, serial', head')
    <3>1. /\ p \in log' /\ p.kind = "pack" /\ p.round = at
          /\ p.pack = serial' /\ p.salt = c.salt
      BY <2>1, <2>4
    <3>2. /\ c \in log' /\ c.n < p.n
      BY <2>1, <2>4, <2>5
    <3>3. \A d \in log' : d.kind = "salt" /\ d.round = at => d.n <= c.n
      BY <2>1, <2>4
    <3>4. p.block <= head'
      BY <2>1
    <3> HIDE DEF p
    <3>. QED
      BY <2>4, <2>6, <2>7, <3>1, <3>2, <3>3, <3>4 DEF Chained
  <2>9. Places'
    BY <2>1 DEF TraceInv, Places, StepStage, Generating
  <2>10. Handed' /\ Uses'
    BY <2>1, <2>8 DEF TraceInv, Handed, Uses, Recorded, StepStage
  <2>11. \A d \in log' : d.block <= head'
    BY <2>1 DEF TraceInv
  <2>. QED
    BY <1>0, <2>1, <2>2, <2>3, <2>9, <2>10, <2>11 DEF TraceInv
<1>10. CASE WritePack
  <2>1. /\ at \in Rounds /\ pc = "write_pack" /\ pc' = "read_pack"
        /\ GENERATE \notin rounds[at].done
        /\ UNCHANGED <<head, log, vectors, rounds, executions, at, step, produced>>
        /\ packs'[at] = produced.pack
        /\ \A r \in Rounds : r # at => packs'[r] = packs[r]
    BY <1>10, PlacesSay
       DEF WritePack, TypeInv, TypeOK, Focus, StepStage, TraceInv, Generating
  <2>2. Places'
    BY <2>1 DEF TraceInv, Places, StepStage, Generating
  <2>3. Handed'
    BY <2>1 DEF TraceInv, Handed
  <2>4. Uses'
    BY <2>1 DEF TraceInv, Uses, Recorded, StepStage
  <2>. QED
    BY <1>0, <2>1, <2>2, <2>3, <2>4 DEF TraceInv
<1>11. CASE ReadPack
  <2>1. /\ UNCHANGED <<kept, at, step>> /\ pc = "read_pack" /\ pc' = "return"
        /\ produced'.done = produced.done /\ produced'.scored = produced.scored
    BY <1>11 DEF ReadPack, TypeInv, TypeOK, RoundState
  <2>2. Handed'
    BY <2>1 DEF TraceInv, Handed
  <2>. QED
    BY <1>c, <2>1, <2>2 DEF StepStage, Generating, TraceInv, Uses
<1>12. CASE Execute
  <2>1. /\ UNCHANGED <<kept, at, step, produced>>
        /\ pc = "execute" /\ pc' = "write_executions"
    BY <1>12 DEF Execute
  <2>2. Handed'
    BY <2>1 DEF TraceInv, Handed
  <2>. QED
    BY <1>c, <2>1, <2>2 DEF StepStage, TraceInv, Uses
<1>13. CASE WriteExecutions
  <2>1. /\ at \in Rounds /\ pc = "write_executions" /\ pc' = "return"
        /\ step = EXECUTE /\ GENERATE \in rounds[at].done
        /\ UNCHANGED <<head, log, vectors, rounds, packs, at, step, produced>>
        /\ executions'[at] = packs[at]
        /\ \A r \in Rounds : r # at => executions'[r] = executions[r]
    BY <1>13, PlacesSay
       DEF WriteExecutions, TypeInv, TypeOK, Focus, StepStage, TraceInv, Places,
           Using
  <2>2. Places'
    BY <2>1 DEF TraceInv, Places, StepStage, Generating
  <2>3. Handed' /\ Uses'
    BY <2>1 DEF TraceInv, Handed, Uses, Recorded, StepStage, EXECUTE, GENERATE
  <2>. QED
    BY <1>0, <2>1, <2>2, <2>3 DEF TraceInv
<1>14. CASE Score
  <2>1. /\ UNCHANGED <<kept, at, step>> /\ pc = "score" /\ pc' = "return"
        /\ at \in Rounds /\ step = SCORE
        /\ produced'.done = produced.done
        /\ produced'.scored \in {None, executions[at]}
    BY <1>14 DEF Score, TypeInv, TypeOK, Focus, StepStage, RoundState, TraceInv,
                 Places
  <2>2. Handed'
    BY <2>1 DEF TraceInv, Handed, SCORE, GENERATE
  <2>3. Recorded(at, produced'.scored)
    BY <2>1 DEF TraceInv, Uses, Recorded
  <2>. QED
    BY <1>c, <2>1, <2>2, <2>3 DEF StepStage
<1>15. ASSUME Attempt, Land
       PROVE  /\ at \in Rounds
              /\ \A v \in vectors' :
                   \/ v \in vectors
                   \/ /\ GENERATE \in rounds[v.round].done
                      /\ Chained(log, v.round, v.pack, v.block)
  BY <1>15
     DEF Attempt, Land, TraceInv, Uses, Recorded, TypeInv, Focus, StepStage
<1>16. CASE SubmitWeights
  <2>1. /\ UNCHANGED <<head, log, rounds, packs, executions, at, step, produced>>
        /\ pc = "submit_weights" /\ pc' = "return" /\ step = SUBMIT_WEIGHTS
    BY <1>16 DEF SubmitWeights, Attempt, TraceInv, Places
  <2>2. Places' /\ Handed' /\ Uses'
    BY <2>1 DEF TraceInv, Places, Handed, Uses, Recorded, StepStage, Generating,
                SUBMIT_WEIGHTS, GENERATE
  <2>. QED
    BY <1>0, <1>15, <1>16, <2>1, <2>2 DEF TraceInv, SubmitWeights
<1>17. CASE SubmitFails
  <2>1. UNCHANGED <<head, log, rounds, packs, executions, at, step, produced, pc>>
    BY <1>17 DEF SubmitFails
  <2>2. Places' /\ Handed' /\ Uses'
    BY <2>1 DEF TraceInv, Places, Handed, Uses, Recorded
  <2>. QED
    BY <1>0, <1>15, <1>17, <2>1, <2>2 DEF TraceInv, SubmitFails
<1>18. CASE StepReturns
  <2>1. /\ UNCHANGED <<kept, at, step>> /\ pc = "return" /\ pc' = "save"
        /\ at \in Rounds /\ step \in Step
        /\ produced'.done = produced.done \cup {step}
        /\ produced'.scored = produced.scored
    BY <1>18 DEF StepReturns, TypeInv, TypeOK, Focus, StepStage, RoundState
  <2>2. Places'
    <3>1. /\ produced.done = rounds[at].done
          /\ \A t \in Step : t < step => t \in rounds[at].done
      BY <2>1 DEF TraceInv, Places, StepStage
    <3>2. GENERATE \in produced'.done => COMMIT_SALT \in produced'.done
      BY <2>1, <3>1 DEF TraceInv, Places, Step, GENERATE, COMMIT_SALT
    <3>. QED
      BY <2>1, <3>1, <3>2 DEF TraceInv, Places, StepStage, Generating
  <2>3. Handed'
    BY <2>1 DEF TraceInv, Places, Handed, StepStage
  <2>4. Recorded(at, produced.scored)'
    BY <2>1 DEF TraceInv, Uses, Recorded, StepStage
  <2>. QED
    BY <1>a, <2>1, <2>2, <2>3, <2>4
<1>19. CASE StepRaises
  <2>1. /\ UNCHANGED <<kept, at, step>> /\ pc' = "save" /\ at \in Rounds
        /\ produced'.done = rounds[at].done
        /\ produced'.scored = rounds[at].scored
    BY <1>19 DEF StepRaises, TypeInv, TypeOK, Focus, RoundState
  <2>2. Places' /\ Handed' /\ Recorded(at, produced.scored)'
    BY <2>1 DEF TraceInv, Places, Handed, Uses, Recorded, StepStage, Generating
  <2>. QED
    BY <1>a, <2>1, <2>2
<1>20. CASE Save
  <2>1. /\ at \in Rounds /\ pc = "save" /\ pc' \in {"publish", "tick"}
        /\ UNCHANGED <<head, log, vectors, packs, executions>>
        /\ \A r \in Rounds : rounds'[r] = IF r = at THEN produced ELSE rounds[r]
    BY <1>20 DEF Save, TypeInv, TypeOK, Focus
  <2>2. rounds[at].done \subseteq produced.done
    BY <2>1 DEF TraceInv, Places
  <2>3. \A r \in Rounds : rounds[r].done \subseteq rounds'[r].done
    BY <2>1, <2>2
  <2>4. Places' /\ Handed'
    BY <2>1 DEF TraceInv, Places, Handed, StepStage, Generating
  <2>5. Uses'
    BY <2>1, <2>3 DEF TraceInv, Uses, Recorded, StepStage
  <2>6. \A v \in vectors : v.round \in Rounds
    BY DEF TypeInv, TypeOK, Vector
  <2>. QED
    BY <1>0, <2>1, <2>3, <2>4, <2>5, <2>6 DEF TraceInv, Handed
<1>21. CASE Publish
  BY <1>21, <1>b DEF Publish, StepStage
<1>22. CASE Restart
  BY <1>22, <1>b DEF Restart, StepStage
<1>23. CASE UNCHANGED vars
  BY <1>0, <1>23 DEF vars, TraceInv, Places, Handed, Uses, Recorded
<1>24. CASE Crash /\ Durable
  BY <1>24, <1>b DEF Crash, StepStage
<1>25. CASE Crash /\ ~ Durable
  <2>1. /\ UNCHANGED <<head, log, vectors>> /\ pc' = "down"
        /\ rounds' = [r \in Rounds |-> Fresh]
        /\ executions' = [r \in Rounds |-> None]
    BY <1>25 DEF Crash
  <2>2. Places' /\ Handed' /\ Uses'
    BY <2>1 DEF Places, Handed, Uses, Recorded, Fresh, None, StepStage, Generating, GENERATE
  <2>3. \A v \in vectors : Forgotten(v.round)'
    BY <1>25, CrashForgets
  <2>4. \A r \in Rounds : GENERATE \notin rounds'[r].done
    BY <2>1 DEF Fresh
  <2>. QED
    BY <2>1, <2>2, <2>3, <2>4 DEF TraceInv
<1>. QED
  BY <1>1, <1>2, <1>3, <1>4, <1>5, <1>6, <1>7, <1>8, <1>9, <1>10, <1>11,
     <1>12, <1>13, <1>14, <1>15, <1>16, <1>17, <1>18, <1>19, <1>20, <1>21,
     <1>22, <1>23, <1>24, <1>25
     DEF Next, Work, Tick, StepBody, Record, Fault

(* Every weight vector was measured on the pack the chain vouches for:     *)
(* hash after the randomness and before the vector, over the last salt the *)
(* chain has for the round; with stores that survive a crash, and with     *)
(* stores that do not.                                                     *)
THEOREM VectorsCorrect == Spec => []VectorsTraceToChain
<1>1. Init => TypeInv /\ SaltInv /\ TraceInv
  BY TypeInit, SaltInit, TraceInit
<1>2. (TypeInv /\ SaltInv /\ TraceInv) /\ [Next]_vars
        => (TypeInv /\ SaltInv /\ TraceInv)'
  BY TypeStep, SaltStep, TraceStep
<1>. QED
  BY <1>1, <1>2, TraceImplies, PTL DEF Spec

-----------------------------------------------------------------------------
(* What was paid for can be audited *)

(* A vector's pack stays stored, since no step that stores one is taken    *)
(* once GENERATE is recorded.                                              *)
PaidKept ==
  \A v \in vectors : GENERATE \in rounds[v.round].done /\ packs[v.round] = v.pack

LEMMA PaidStep ==
  ASSUME TypeInv, TraceInv, PaidKept, Durable, [Next]_vars
  PROVE  PaidKept'
<1> USE DEF chain, stores, local
<1>0. \A v \in vectors : v.round \in Rounds
  BY DEF TypeInv, TypeOK, Vector
<1>1. CASE Save
  <2>1. /\ pc = "save" /\ UNCHANGED <<vectors, packs>>
        /\ \A r \in Rounds : rounds'[r] = IF r = at THEN produced ELSE rounds[r]
    BY <1>1 DEF Save, TypeInv, TypeOK
  <2>2. \A r \in Rounds : rounds[r].done \subseteq rounds'[r].done
    BY <2>1 DEF TraceInv, Places
  <2>. QED
    BY <1>0, <2>1, <2>2 DEF PaidKept
<1>2. CASE WritePack
  <2>1. /\ at \in Rounds /\ GENERATE \notin rounds[at].done
        /\ UNCHANGED <<vectors, rounds>>
        /\ \A r \in Rounds : r # at => packs'[r] = packs[r]
    BY <1>2, PlacesSay
       DEF WritePack, TypeInv, TypeOK, Focus, StepStage, TraceInv, Generating
  <2>. QED
    BY <1>0, <2>1 DEF PaidKept
<1>3. CASE SubmitWeights \/ SubmitFails
  <2>1. UNCHANGED <<rounds, packs>> /\ (Land \/ UNCHANGED vectors)
    BY <1>3 DEF SubmitWeights, SubmitFails
  <2>2. /\ at \in Rounds /\ GENERATE \in rounds[at].done
        /\ rounds[at].scored = packs[at]
    BY <1>3 DEF SubmitWeights, SubmitFails, Attempt, TypeInv, Focus, StepStage,
                TraceInv, Uses, Recorded
  <2>. QED
    BY <2>1, <2>2 DEF Land, PaidKept
<1>4. CASE UNCHANGED <<vectors, rounds, packs>>
  BY <1>4 DEF PaidKept
<1>5. CASE MineBlock \/ Tick \/ Publish \/ Restart \/ Crash \/ UNCHANGED vars
  BY <1>4, <1>5 DEF MineBlock, Tick, StartTick, EndTick, Skip, Abandon, Begin, Publish,
                    Restart, Crash, vars
<1>6. CASE PublishSalt \/ BuildPack \/ PublishPack \/ ReadPack
  BY <1>4, <1>6 DEF PublishSalt, BuildPack, PublishPack, ReadPack
<1>7. CASE Execute \/ WriteExecutions \/ Score \/ StepReturns \/ StepRaises
  BY <1>4, <1>7 DEF Execute, WriteExecutions, Score, StepReturns, StepRaises
<1>. QED
  BY <1>1, <1>2, <1>3, <1>5, <1>6, <1>7 DEF Next, Work, StepBody, Record, Fault

(* With durable stores, whatever crashes there were, the stored pack of a  *)
(* round that has been paid for is the one its vector was measured on and  *)
(* the one its last pack commitment on chain is of.                        *)
THEOREM PaidPackStays == Durable => (Spec => []PaidPackIsVouchedFor)
<1> SUFFICES ASSUME Durable PROVE Spec => []PaidPackIsVouchedFor
  OBVIOUS
<1>1. Init => PaidKept
  BY DEF Init, PaidKept
<1>2. (TypeInv /\ TraceInv /\ PaidKept) /\ [Next]_vars => PaidKept'
  BY PaidStep
<1>3. TraceInv /\ PaidKept => PaidPackIsVouchedFor
  BY TraceImplies DEF PaidKept, PaidPackIsVouchedFor, VectorsTraceToChain
<1>. QED
  BY <1>1, <1>2, <1>3, TypeInit, SaltInit, TraceInit, TypeStep, SaltStep, TraceStep, PTL
     DEF Spec
=============================================================================
