---------------------------- MODULE RoundDriver ----------------------------
(***************************************************************************)
(* The validator's loop: validator/driver.py, the five step methods of     *)
(* validator/__main__.py, commit_and_store of the challenge factory, the   *)
(* challenge store and the round store they write to, and the two chain    *)
(* writes of chain/client.py.                                              *)
(*                                                                         *)
(* One process polls the chain.  A tick reads the head once and advances   *)
(* every live round by at most one step; a step is cut here at each of its *)
(* external effects, because the chain moves on, the process may die and a *)
(* call may fail between any two of them.                                  *)
(***************************************************************************)
EXTENDS Cycle

CONSTANTS
  Rounds,        \* the epochs looked at
  StartBlocks,   \* heads at which the validator may be started
  SubmitTries,   \* submit_retries + 1
  Durable,       \* --redis-url is given: stores survive a crash
  Fanout,        \* --publish-redis-url is given: a second, public store
  Delay,         \* blocks by which a prompt process may be late
  MaxBlock,      \* bound: the last block mined
  MaxCrashes     \* bound: how often the process dies

ASSUME DriverAssumption ==
  /\ Rounds \subseteq Nat
  /\ StartBlocks \subseteq Nat \ {0}
  /\ SubmitTries \in Nat
  /\ Durable \in BOOLEAN
  /\ Fanout \in BOOLEAN
  /\ Delay \in Nat
  /\ MaxBlock \in Nat
  /\ MaxCrashes \in Nat

VARIABLES
  head,         \* the chain: head block
  log,          \* the chain: every commitment this hotkey has published
  serial,       \* number of commitments published; numbers salts and packs
  vectors,      \* the chain: every weight vector that landed, with the pack
                \* its standings were measured on
  rounds,       \* the round store's full documents
  public,       \* the dashboard store's gated documents
  packs,        \* the challenge store: the pack held for a round, 0 if none
  executions,   \* the challenge store: the pack a round was executed on
  pc,           \* where the process is
  tickBlock,    \* the head as the current (or last) tick read it
  pending,      \* live rounds this tick has not looked at yet
  at,           \* the round being advanced
  step,         \* the step being run for it
  produced,     \* the document the step is building
  tries,        \* attempts made by submit_weights
  crashes

chain  == <<head, log, serial, vectors>>
stores == <<rounds, public, packs, executions>>
local  == <<pending, at, step, produced, tries>>
vars   == <<chain, stores, pc, tickBlock, local, crashes>>

-----------------------------------------------------------------------------
(* Data.  A salt or a pack is the serial number of the commitment that     *)
(* published it (a salt is drawn at random and a pack is generated by      *)
(* models, so no two are equal); 0 is "none".                              *)

None    == 0
NoRound == -1
NoStep  == 0

NotAbandoned == "no"
WindowClosed == "window closed"
StepFailed   == "step failed"

RoundState ==
  [done      : SUBSET Step,
   abandoned : {NotAbandoned, WindowClosed, StepFailed},
   phase     : Phase,
   salt      : Nat,
   pack      : Nat,
   scored    : Nat]              \* the pack the standings measure, if any

(* _load's fresh document.  A stored document always differs from it, so a  *)
(* round with no document is a round with this one.                        *)
Fresh ==
  [done |-> {}, abandoned |-> NotAbandoned, phase |-> BEFORE_SUBMISSION_CLOSE,
   salt |-> None, pack |-> None, scored |-> None]

(* public_view: the problems are left out until the phase discloses them.  *)
public_view(state) ==
  [done      |-> state.done,
   abandoned |-> state.abandoned # NotAbandoned,
   problems  |-> state.phase \in Disclosing /\ state.pack # None]

PublicDocument ==
  [done : SUBSET Step, abandoned : BOOLEAN, problems : BOOLEAN]

Commitment ==
  [kind : {"salt", "pack"}, round : Rounds, n : Nat,
   salt : Nat, pack : Nat, block : Nat]

Vector == [round : Rounds, pack : Nat, block : Nat]

StepStage ==
  {"commit_salt", "generate", "publish_pack", "write_pack", "read_pack",
   "execute", "write_executions", "score", "submit_weights", "return"}

Stage == StepStage \cup {"idle", "tick", "save", "publish", "down"}

(* IMPLEMENTATION: where each step's method starts.                        *)
Entry(s) == CASE s = COMMIT_SALT    -> "commit_salt"
              [] s = GENERATE       -> "generate"
              [] s = EXECUTE        -> "execute"
              [] s = SCORE          -> "score"
              [] s = SUBMIT_WEIGHTS -> "submit_weights"

TypeOK ==
  /\ head \in Nat
  /\ serial \in Nat
  /\ log \subseteq Commitment
  /\ vectors \subseteq Vector
  /\ rounds \in [Rounds -> RoundState]
  /\ public \in [Rounds -> PublicDocument]
  /\ packs \in [Rounds -> Nat]
  /\ executions \in [Rounds -> Nat]
  /\ pc \in Stage
  /\ tickBlock \in Nat
  /\ pending \subseteq Rounds
  /\ at \in Rounds \cup {NoRound}
  /\ step \in Step \cup {NoStep}
  /\ produced \in RoundState
  /\ tries \in Nat
  /\ crashes \in Nat

Init ==
  /\ head \in StartBlocks
  /\ log = {}
  /\ serial = 0
  /\ vectors = {}
  /\ rounds = [r \in Rounds |-> Fresh]
  /\ public = [r \in Rounds |-> public_view(Fresh)]
  /\ packs = [r \in Rounds |-> None]
  /\ executions = [r \in Rounds |-> None]
  /\ pc = "idle"
  /\ tickBlock = 0
  /\ pending = {}
  /\ at = NoRound
  /\ step = NoStep
  /\ produced = Fresh
  /\ tries = 0
  /\ crashes = 0

-----------------------------------------------------------------------------
(* The chain *)

MineBlock ==
  /\ head < MaxBlock
  /\ head' = head + 1
  /\ UNCHANGED <<log, serial, vectors, stores, pc, tickBlock, local, crashes>>

-----------------------------------------------------------------------------
(* The tick: Driver.run, tick and _advance *)

(* run: read the head, once, and hand it to the tick.                      *)
StartTick ==
  /\ pc = "idle"
  /\ pc' = "tick"
  /\ tickBlock' = head
  /\ pending' = live_rounds(head) \cap Rounds
  /\ UNCHANGED <<chain, stores, at, step, produced, tries, crashes>>

EndTick ==
  /\ pc = "tick"
  /\ pending = {}
  /\ pc' = "idle"
  /\ UNCHANGED <<chain, stores, tickBlock, local, crashes>>

(* Rounds are advanced oldest first, all of them against the tick's block. *)
Oldest(r) == r \in pending /\ \A q \in pending : r <= q

TickOffset(r) == offset_in(r, tickBlock)

(* Already given up on, complete, or waiting for a window to open.         *)
Skip(r) ==
  /\ pc = "tick"
  /\ Oldest(r)
  /\ \/ rounds[r].abandoned # NotAbandoned
     \/ decide_Complete(rounds[r].done)
     \/ \E s \in Step : decide_Wait(s, TickOffset(r), rounds[r].done)
  /\ pending' = pending \ {r}
  /\ UNCHANGED <<chain, stores, pc, tickBlock, at, step, produced, tries, crashes>>

(* The first step not done has missed its window.                          *)
Abandon(r) ==
  /\ pc = "tick"
  /\ Oldest(r)
  /\ rounds[r].abandoned = NotAbandoned
  /\ \E s \in Step : decide_Abandon(s, TickOffset(r), rounds[r].done)
  /\ pc' = "save"
  /\ pending' = pending \ {r}
  /\ at' = r
  /\ produced' = [rounds[r] EXCEPT !.abandoned = WindowClosed]
  /\ UNCHANGED <<chain, stores, tickBlock, step, tries, crashes>>

(* Slip: an abandoned round decided again.                                 *)
Begin_Abandoned(r, s) ==
  /\ pc = "tick"
  /\ Oldest(r)
  /\ decide_Run(s, TickOffset(r), rounds[r].done)
  /\ pc' = Entry(s)
  /\ pending' = pending \ {r}
  /\ at' = r
  /\ step' = s
  /\ produced' = rounds[r]
  /\ tries' = 0
  /\ UNCHANGED <<chain, stores, tickBlock, crashes>>

(* _run, up to the call of the step's method.                              *)
Begin(r, s) ==
  /\ pc = "tick"
  /\ Oldest(r)
  /\ rounds[r].abandoned = NotAbandoned
  /\ decide_Run(s, TickOffset(r), rounds[r].done)
  /\ pc' = Entry(s)
  /\ pending' = pending \ {r}
  /\ at' = r
  /\ step' = s
  /\ produced' = rounds[r]
  /\ tries' = 0
  /\ UNCHANGED <<chain, stores, tickBlock, crashes>>

-----------------------------------------------------------------------------
(* The five steps *)

(* commit_salt_step: draw a fresh salt and publish its commitment.  The    *)
(* block the commitment landed in is not compared with anything.           *)
PublishSalt ==
  /\ pc = "commit_salt"
  /\ serial' = serial + 1
  /\ log' = log \cup {[kind |-> "salt", round |-> at, n |-> serial',
                       salt |-> serial', pack |-> None, block |-> head]}
  /\ produced' = [produced EXCEPT !.salt = serial']
  /\ pc' = "return"
  /\ UNCHANGED <<head, vectors, stores, tickBlock, pending, at, step, tries, crashes>>

(* Slip: the pack stored as soon as it is built, ahead of its commitment.  *)
BuildPack_Stores ==
  /\ pc = "generate"
  /\ rounds[at].salt # None
  /\ block_at(at, randomness_offset) < head
  /\ packs' = [packs EXCEPT ![at] = serial + 1]
  /\ pc' = "publish_pack"
  /\ UNCHANGED <<chain, rounds, public, executions, tickBlock, local, crashes>>

(* generate_step up to the built pack: a recorded salt, and a randomness    *)
(* block strictly in the past of the head as it is now.                    *)
BuildPack ==
  /\ pc = "generate"
  /\ rounds[at].salt # None
  /\ block_at(at, randomness_offset) < head
  /\ pc' = "publish_pack"
  /\ UNCHANGED <<chain, stores, tickBlock, local, crashes>>

(* Slip: the pack commitment displaces the salt commitment.                *)
PublishPack_DropsSalt ==
  /\ pc = "publish_pack"
  /\ serial' = serial + 1
  /\ log' = log \cup {[kind |-> "pack", round |-> at, n |-> serial',
                       salt |-> None, pack |-> serial', block |-> head]}
  /\ produced' = [produced EXCEPT !.pack = serial']
  /\ pc' = "write_pack"
  /\ UNCHANGED <<head, vectors, stores, tickBlock, pending, at, step, tries, crashes>>

(* commit_and_store: the hash goes on chain, carrying the salt commitment  *)
(* forward ...                                                             *)
PublishPack ==
  /\ pc = "publish_pack"
  /\ serial' = serial + 1
  /\ log' = log \cup {[kind |-> "pack", round |-> at, n |-> serial',
                       salt |-> rounds[at].salt, pack |-> serial', block |-> head]}
  /\ produced' = [produced EXCEPT !.pack = serial']
  /\ pc' = "write_pack"
  /\ UNCHANGED <<head, vectors, stores, tickBlock, pending, at, step, tries, crashes>>

(* Slip: a refused write taken for a write already made.                   *)
WritePack_IgnoresRefusal ==
  /\ pc = "write_pack"
  /\ packs' = [packs EXCEPT ![at] = IF @ = None THEN produced.pack ELSE @]
  /\ pc' = "read_pack"
  /\ UNCHANGED <<chain, rounds, public, executions, tickBlock, local, crashes>>

(* ... and only then does the pack reach the store.  Redis writes with NX,  *)
(* so another pack already held for the round is an error; the in-memory   *)
(* store overwrites.                                                       *)
WritePack ==
  /\ pc = "write_pack"
  /\ Durable => packs[at] \in {None, produced.pack}
  /\ packs' = [packs EXCEPT ![at] = produced.pack]
  /\ pc' = "read_pack"
  /\ UNCHANGED <<chain, rounds, public, executions, tickBlock, local, crashes>>

(* generate_step reads back what it committed, and records that.           *)
ReadPack ==
  /\ pc = "read_pack"
  /\ packs[at] # None
  /\ produced' = [produced EXCEPT !.pack = packs[at]]
  /\ pc' = "return"
  /\ UNCHANGED <<chain, stores, tickBlock, pending, at, step, tries, crashes>>

(* execute_step: open the bundles and run every laboratory on the pack.    *)
Execute ==
  /\ pc = "execute"
  /\ packs[at] # None
  /\ pc' = "write_executions"
  /\ UNCHANGED <<chain, stores, tickBlock, local, crashes>>

(* ... and persist what they produced, for a later step to score.          *)
WriteExecutions ==
  /\ pc = "write_executions"
  /\ executions' = [executions EXCEPT ![at] = packs[at]]
  /\ pc' = "return"
  /\ UNCHANGED <<chain, rounds, public, packs, tickBlock, local, crashes>>

(* score_step: needs both documents; the field may come out empty.         *)
Score ==
  /\ pc = "score"
  /\ executions[at] # None
  /\ packs[at] # None
  /\ \E scored \in {None, executions[at]} :
       produced' = [produced EXCEPT !.scored = scored]
  /\ pc' = "return"
  /\ UNCHANGED <<chain, stores, tickBlock, pending, at, step, tries, crashes>>

(* submit_weights_step: one attempt.  The vector lands and the call says   *)
(* so, lands and the call raises, or does not land and the call raises.    *)
Attempt ==
  /\ pc = "submit_weights"
  /\ rounds[at].scored # None
  /\ tries < SubmitTries

Land == vectors' = vectors \cup {[round |-> at, pack |-> rounds[at].scored, block |-> head]}

SubmitWeights ==
  /\ Attempt
  /\ Land
  /\ pc' = "return"
  /\ UNCHANGED <<head, log, serial, stores, tickBlock, local, crashes>>

SubmitFails ==
  /\ Attempt
  /\ Land \/ UNCHANGED vectors
  /\ tries' = tries + 1
  /\ UNCHANGED <<head, log, serial, stores, pc, tickBlock, pending, at, step,
                 produced, crashes>>

-----------------------------------------------------------------------------
(* What the driver does with a step's result: the rest of _run, _save *)

(* Slip: the document saved without the step in it.                        *)
StepReturns_Unrecorded ==
  /\ pc = "return"
  /\ produced' = [produced EXCEPT !.phase = phase_of(TickOffset(at))]
  /\ pc' = "save"
  /\ UNCHANGED <<chain, stores, tickBlock, pending, at, step, tries, crashes>>

(* Slip: the offset recorded where its phase belongs.                      *)
StepReturns_OffsetAsPhase ==
  /\ pc = "return"
  /\ produced' = [produced EXCEPT !.done = @ \cup {step},
                                  !.phase = TickOffset(at)]
  /\ pc' = "save"
  /\ UNCHANGED <<chain, stores, tickBlock, pending, at, step, tries, crashes>>

(* The step returned: it is recorded as done, under the phase of the       *)
(* offset the tick read.                                                   *)
StepReturns ==
  /\ pc = "return"
  /\ produced' = [produced EXCEPT !.done = @ \cup {step},
                                  !.phase = phase_of(TickOffset(at))]
  /\ pc' = "save"
  /\ UNCHANGED <<chain, stores, tickBlock, pending, at, step, tries, crashes>>

(* The step raised, at any point: the round is abandoned in the document   *)
(* as it was loaded, so what the step had built is dropped.                *)
StepRaises ==
  /\ pc \in StepStage
  /\ produced' = [rounds[at] EXCEPT !.abandoned = StepFailed]
  /\ pc' = "save"
  /\ UNCHANGED <<chain, stores, tickBlock, pending, at, step, tries, crashes>>

Forget == /\ at' = NoRound
          /\ step' = NoStep
          /\ produced' = Fresh
          /\ tries' = 0

(* One store holds both documents and writes them in one transaction; or   *)
(* FanoutRoundStore.write puts the private document first ...              *)
Save ==
  /\ pc = "save"
  /\ rounds' = [rounds EXCEPT ![at] = produced]
  /\ \/ /\ Fanout
        /\ pc' = "publish"
        /\ UNCHANGED <<public, at, step, produced, tries>>
     \/ /\ ~ Fanout
        /\ public' = [public EXCEPT ![at] = public_view(produced)]
        /\ pc' = "tick"
        /\ Forget
  /\ UNCHANGED <<chain, packs, executions, tickBlock, pending, crashes>>

(* ... then the gated one, whose failure is logged and forgotten.          *)
Publish ==
  /\ pc = "publish"
  /\ \/ public' = [public EXCEPT ![at] = public_view(produced)]
     \/ UNCHANGED public
  /\ pc' = "tick"
  /\ Forget
  /\ UNCHANGED <<chain, rounds, packs, executions, tickBlock, pending, crashes>>

-----------------------------------------------------------------------------
(* Death and restart.  The process dies between any two steps (a store or  *)
(* a chain read that raises outside a step ends the loop the same way);    *)
(* without Redis its stores go with it.                                    *)
Crash ==
  /\ pc # "down"
  /\ crashes < MaxCrashes
  /\ crashes' = crashes + 1
  /\ pc' = "down"
  /\ tickBlock' = 0
  /\ pending' = {}
  /\ Forget
  /\ \/ Durable /\ UNCHANGED stores
     \/ /\ ~ Durable
        /\ rounds' = [r \in Rounds |-> Fresh]
        /\ public' = IF Fanout THEN public
                     ELSE [r \in Rounds |-> public_view(Fresh)]
        /\ packs' = [r \in Rounds |-> None]
        /\ executions' = [r \in Rounds |-> None]
  /\ UNCHANGED chain

Restart ==
  /\ pc = "down"
  /\ pc' = "idle"
  /\ UNCHANGED <<chain, stores, tickBlock, local, crashes>>

-----------------------------------------------------------------------------
Tick == \/ StartTick
        \/ EndTick
        \/ \E r \in Rounds : Skip(r) \/ Abandon(r)
        \/ \E r \in Rounds, s \in Step : Begin(r, s)

StepBody == \/ PublishSalt
            \/ BuildPack \/ PublishPack \/ WritePack \/ ReadPack
            \/ Execute \/ WriteExecutions
            \/ Score
            \/ SubmitWeights

Record == StepReturns \/ Save \/ Publish

Work == Tick \/ StepBody \/ Record

Fault == StepRaises \/ SubmitFails

Next == MineBlock \/ Work \/ Fault \/ Crash \/ Restart

Spec == Init /\ [][Next]_vars

(* A prompt process reads the head again within Delay blocks of having     *)
(* last read it, be it that it ran a step or that the loop slept.  Unless  *)
(* it read it while a round was to execute: EXECUTE may take its whole     *)
(* window, and be over its deadline by less than Delay.  So what a step    *)
(* does may land many blocks after the one its tick was decided on.        *)
(* Nothing in the code bounds the delay; the windows and the margins of a  *)
(* season are chosen for one.  Fairness: the loop in `run` always has a    *)
(* next statement, a step that can do nothing else raises, and the chain   *)
(* goes on (WF).                                                           *)
Executing(r) == /\ windows[EXECUTE].opens <= TickOffset(r)
                /\ TickOffset(r) < windows[EXECUTE].closes

PromptMine ==
  /\ MineBlock
  /\ tickBlock # 0
  /\ \/ head' <= tickBlock + Delay
     \/ \E r \in Rounds : /\ Executing(r)
                          /\ head' < block_at(r, execution_close_offset) + Delay

PromptNext == PromptMine \/ Work \/ Fault

PromptSpec == /\ Init
              /\ [][PromptNext]_vars
              /\ WF_vars(Work \/ StepRaises)
              /\ WF_vars(PromptMine)

-----------------------------------------------------------------------------
(* Safety *)

SaltsOf(r) == {c \in log : c.kind = "salt" /\ c.round = r}
PacksOf(r) == {c \in log : c.kind = "pack" /\ c.round = r}

(* A commitment slot holds one value, so of several commitments for one    *)
(* round the chain vouches for the last.                                   *)
IsLast(c, S) == c \in S /\ \A d \in S : d.n <= c.n

(* The salt a round's document records is the salt its chain commitment    *)
(* binds, whatever crashes came between publishing and recording: a seed   *)
(* derived after a restart is the seed the chain vouches for.              *)
RecordedSaltIsCommitted ==
  \A r \in Rounds :
    rounds[r].salt # None =>
      \E c \in SaltsOf(r) : IsLast(c, SaltsOf(r)) /\ c.salt = rounds[r].salt

(* Every weight vector is traceable to the chain: the pack its standings   *)
(* were measured on is the pack of the round's last pack commitment, made  *)
(* no later than the vector and strictly after the randomness block; that  *)
(* commitment carries the salt of the round's last salt commitment, made   *)
(* before it.  (commit_and_store, read_pack, the recovery record and the   *)
(* NX write, together.)                                                    *)
VectorsTraceToChain ==
  \A v \in vectors :
    \E p \in PacksOf(v.round), c \in SaltsOf(v.round) :
      /\ IsLast(p, PacksOf(v.round))
      /\ IsLast(c, SaltsOf(v.round))
      /\ p.pack = v.pack
      /\ p.salt = c.salt
      /\ c.n < p.n
      /\ p.block <= v.block
      /\ block_at(v.round, randomness_offset) < p.block

(* What was paid for can be audited.  A crash between storing a pack and   *)
(* recording the step, and the retry's own commitment, leave a stored pack *)
(* that the chain's last hash is not of; never for a round with a vector,  *)
(* whatever is run again: in stores that survive the crash the pack held   *)
(* for it stays what the vector was measured on, and what the chain last   *)
(* vouches for.                                                            *)
PaidPackIsVouchedFor ==
  \A v \in vectors : /\ packs[v.round] = v.pack
                     /\ \E p \in PacksOf(v.round) : /\ IsLast(p, PacksOf(v.round))
                                                   /\ p.pack = packs[v.round]

(* The dashboard's document shows the problems only when the execution     *)
(* window has closed on chain and this validator's own execution is over:  *)
(* no laboratory it started is still running on them.                      *)
NoEarlyDisclosure ==
  \A r \in Rounds :
    public[r].problems => /\ EXECUTE \in rounds[r].done
                          /\ execution_close_offset <= offset_in(r, head)

(* After a tick, a round that was live in it is settled or still has its   *)
(* next window open or ahead: while a round is live a missed window is     *)
(* always recorded as an abandonment.                                      *)
LiveRoundsUpToDate ==
  pc = "idle" /\ tickBlock # 0 =>
    \A r \in Rounds :
      IsLive(r, tickBlock) /\ rounds[r].abandoned = NotAbandoned =>
        \A s \in Step : FirstNotDone(s, rounds[r].done)
                          => TickOffset(r) < windows[s].closes

(* A round that was given up on, or has completed, is over: its document   *)
(* does not change again and nothing more is written to the chain for it.  *)
Settled(r) == rounds[r].abandoned # NotAbandoned \/ rounds[r].done = Step

SettledIsFinal ==
  [][\A r \in Rounds : Settled(r) =>
       /\ rounds'[r] = rounds[r]
       /\ \A c \in log' \ log : c.round # r
       /\ \A v \in vectors' \ vectors : v.round # r]_vars

(* The driver keeps the promise of RoundLifecycle.                         *)
Lifecycle == INSTANCE RoundLifecycle WITH
  clock    <- head,
  progress <- [r \in Rounds |-> IF rounds[r].done = {} THEN 0
                                 ELSE CHOOSE s \in rounds[r].done :
                                        \A t \in rounds[r].done : t <= s],
  given_up <- [r \in Rounds |-> rounds[r].abandoned # NotAbandoned]

ImplementsLifecycle == Lifecycle!LSpec

-----------------------------------------------------------------------------
(* What the calendar is meant to give.  A prompt process that does not     *)
(* crash has it; with a longer delay, or with a crash between publishing   *)
(* and recording, the code does not: see README.md, "Findings".            *)

(* One salt commitment for a round: steps run once.                        *)
OneSaltPerRound ==
  \A c, d \in log : c.kind = "salt" /\ d.kind = "salt" /\ c.round = d.round
                      => c = d

(* A salt decided on against a stale head is on chain before its round's   *)
(* randomness block but for the delay, however long another round's EXECUTE *)
(* was: the window closes at that very block, with no margin for it.       *)
SaltLateByDelay ==
  \A c \in log : c.kind = "salt" =>
                    c.block < block_at(c.round, randomness_offset) + Delay

(* A pack hash is on chain before the bundles open: the margin after       *)
(* GENERATE's window makes up for the head its step was decided on having  *)
(* moved on, if it is as wide as the process is late.                      *)
PackBeforeReveal ==
  \A c \in log : c.kind = "pack" => c.block < block_at(c.round, reveal_offset)

(* The pack the store holds for a round is the one the chain vouches for.  *)
StoredPackIsVouchedFor ==
  \A r \in Rounds : packs[r] # None =>
    \E c \in PacksOf(r) : IsLast(c, PacksOf(r)) /\ c.pack = packs[r]

(* A prompt process never misses a window no narrower than its delay: with *)
(* two rounds sharing its ticks, and one's EXECUTE holding up the other,   *)
(* only a step that raises ends one early.                                 *)
NoWindowMissed == \A r \in Rounds : rounds[r].abandoned # WindowClosed

-----------------------------------------------------------------------------
(* Liveness *)

(* Every round completes or is given up on.                                *)
EveryRoundSettles == \A r \in Rounds : <>Settled(r)
=============================================================================
