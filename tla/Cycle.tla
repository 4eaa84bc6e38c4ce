------------------------------- MODULE Cycle -------------------------------
(***************************************************************************)
(* The day's calendar: validator/cycle.py and the pure part of             *)
(* validator/scheduler.py.                                                 *)
(*                                                                         *)
(* A round is named by its epoch index.  Its day is a line of block        *)
(* offsets around the reveal, cut into five windows, one per step; the     *)
(* scheduler is a function of an offset and the set of steps already done. *)
(* Everything here is a constant-level operator, shared by the driver, by  *)
(* the abstract round and by the proofs.                                   *)
(*                                                                         *)
(* A definition named X_Something, commented as a slip, is a wrong version *)
(* of X that nothing uses: putting it in X's place breaks the property     *)
(* PROJECT.json pairs it with, which shows what that property notices.     *)
(***************************************************************************)
EXTENDS Integers

CONSTANTS
  blocks_per_day,            \* blocks in one epoch
  submission_close_offset,   \* the season's offsets, relative to the reveal
  salt_commit_offset,
  randomness_offset,
  pack_commit_offset,
  reveal_offset,
  execution_close_offset,
  weights_offset

(* What CycleConfig.assert_ordering accepts (the anchor, which only labels *)
(* rounds with dates, is left out).                                        *)
ASSUME CycleAssumption ==
  /\ blocks_per_day \in Nat \ {0}
  /\ submission_close_offset \in Int
  /\ salt_commit_offset \in Int
  /\ randomness_offset \in Int
  /\ pack_commit_offset \in Int
  /\ reveal_offset \in Int
  /\ execution_close_offset \in Int
  /\ weights_offset \in Int
  /\ submission_close_offset < salt_commit_offset
  /\ salt_commit_offset < randomness_offset
  /\ randomness_offset + 1 < pack_commit_offset
  /\ pack_commit_offset < reveal_offset
  /\ reveal_offset < execution_close_offset
  /\ execution_close_offset < weights_offset
  /\ weights_offset < blocks_per_day + reveal_offset

-----------------------------------------------------------------------------
(* Blocks, epochs and offsets *)

epoch_index(block) == block \div blocks_per_day

epoch_start_of(r) == r * blocks_per_day

(* Slip: the reveal subtracted where it is to be added.                    *)
offset_in_SignFlipped(r, block) == block - epoch_start_of(r) - reveal_offset

offset_in(r, block) == block - epoch_start_of(r) + reveal_offset

(* The block at which a round reaches an offset: the inverse of offset_in, *)
(* spelled out in the driver's deadline_block and in the randomness block. *)
block_at(r, offset) == epoch_start_of(r) + offset - reveal_offset

round_opens == salt_commit_offset

(* Slip: a round that is over when its weights are due.                    *)
round_closes_WhenDue == weights_offset

round_closes == blocks_per_day + reveal_offset

IsLive(r, block) == /\ round_opens <= offset_in(r, block)
                    /\ offset_in(r, block) < round_closes

(* Slip: only the epoch the block is in.                                   *)
live_rounds_OwnEpoch(block) ==
  {r \in {epoch_index(block)} : IsLive(r, block)}

live_rounds(block) ==
  {r \in {epoch_index(block), epoch_index(block) + 1} : IsLive(r, block)}

-----------------------------------------------------------------------------
(* Phases: where the clock is *)

BEFORE_SUBMISSION_CLOSE == 0
AWAITING_SALT_COMMIT    == 1
AWAITING_RANDOMNESS     == 2
GENERATING              == 3
AWAITING_REVEAL         == 4
EXECUTING               == 5
SCORING                 == 6
AWAITING_WEIGHTS        == 7
DONE                    == 8

Phase == 0 .. 8

phase_of(offset) ==
  CASE offset < submission_close_offset -> BEFORE_SUBMISSION_CLOSE
    [] submission_close_offset <= offset /\ offset < salt_commit_offset
         -> AWAITING_SALT_COMMIT
    [] salt_commit_offset <= offset /\ offset < randomness_offset
         -> AWAITING_RANDOMNESS
    [] randomness_offset <= offset /\ offset < pack_commit_offset
         -> GENERATING
    [] pack_commit_offset <= offset /\ offset < reveal_offset
         -> AWAITING_REVEAL
    [] reveal_offset <= offset /\ offset < execution_close_offset
         -> EXECUTING
    [] execution_close_offset <= offset /\ offset < weights_offset
         -> SCORING
    [] offset = weights_offset -> AWAITING_WEIGHTS
    [] weights_offset < offset -> DONE

(* Slip: problems shown while they are being worked on.                    *)
Disclosing_WhileExecuting == {EXECUTING, SCORING, AWAITING_WEIGHTS, DONE}

(* The phases in which the day's problems may be shown (roundstate.py).    *)
Disclosing == {SCORING, AWAITING_WEIGHTS, DONE}

-----------------------------------------------------------------------------
(* Steps: units of work, in the order of the Step enum *)

COMMIT_SALT    == 1
GENERATE       == 2
EXECUTE        == 3
SCORE          == 4
SUBMIT_WEIGHTS == 5

Step == 1 .. 5

(* Half-open windows [opens, closes), one per step.  GENERATE opens one    *)
(* block after the randomness; [pack_commit, reveal) belongs to no step.   *)
windows ==
  [s \in Step |->
     CASE s = COMMIT_SALT -> [opens  |-> salt_commit_offset,
                              closes |-> randomness_offset]
       [] s = GENERATE    -> [opens  |-> randomness_offset + 1,
                              closes |-> pack_commit_offset]
       [] s = EXECUTE     -> [opens  |-> reveal_offset,
                              closes |-> execution_close_offset]
       [] s = SCORE       -> [opens  |-> execution_close_offset,
                              closes |-> weights_offset]
       [] s = SUBMIT_WEIGHTS -> [opens  |-> weights_offset,
                                 closes |-> round_closes]]

(* Slip: any step not done will do.                                        *)
FirstNotDone_AnyOrder(s, done) == s \in Step \ done

(* `decide`: the first step not done is the answer, and its window says    *)
(* which answer.  One predicate per kind of decision.                      *)
FirstNotDone(s, done) == /\ s \in Step \ done
                         /\ \A t \in Step \ done : s <= t

decide_Complete(done) == Step \subseteq done

(* Slip: a window that has closed is waited for like one yet to open.      *)
decide_Wait_OutsideWindow(s, offset, done) ==
  /\ FirstNotDone(s, done)
  /\ offset < windows[s].opens \/ windows[s].closes <= offset

decide_Wait(s, offset, done) ==
  /\ FirstNotDone(s, done)
  /\ offset < windows[s].opens

decide_Run(s, offset, done) ==
  /\ FirstNotDone(s, done)
  /\ windows[s].opens <= offset
  /\ offset < windows[s].closes

decide_Abandon(s, offset, done) ==
  /\ FirstNotDone(s, done)
  /\ windows[s].closes <= offset
=============================================================================
