# Verification of auto-invent

TLA+ models of auto-invent's validator and research compute gateway, the TLC runs
that check them on small instances, and TLAPS proofs for all instances. Paths are
relative to `src/`.

    tlc -config MCRoundDriver_restart.cfg MCRoundDriver     # any run: MCX_<run>.cfg, module MCX
    tlapm RoundDriver_proofs.tla                            # any module *_proofs

`PROJECT.json` lists the runs, the lines each definition models, a faulty variant for
every property, the hazards and the findings.

## The system

auto-invent is a Bittensor subnet. Once a day each **validator** draws a pack of
research problems from a salt it committed to and a later block's hash, runs every
**miner's** laboratory (a container) on every problem, has the resulting portfolios
judged, and submits a weight vector. A laboratory's only network peer is the
**gateway**, which forwards its model and search calls under a budget and keeps a
receipt.

| component | state | operations | correct when |
| --- | --- | --- | --- |
| calendar, scheduler (`validator/cycle.py`, `scheduler.py`) | none: functions of a block and the steps done | `phase_of`, `live_rounds`, `windows`, `decide` | each step runs inside its window or the round is abandoned |
| driver (`validator/driver.py`) | the round's document, in a store | `run`, `tick`, `_advance`, `_run`, `_save` | five steps in order, each recorded once; a settled round is never touched |
| steps (`validator/__main__.py`) | writes to chain and stores | the five `*_step` methods | salt before randomness, pack before reveal, score only what was committed |
| chain client, commitments (`chain/`, `protocol/commitments.py`) | one commitment slot per hotkey; weights | `publish_commitment`, `submit_weights`, `view` | the slot always vouches for the round in progress |
| stores (`challenge_factory/store.py`, `validator/roundstate.py`) | packs, executions, round documents; Redis or memory; a public copy | `write_pack` (NX), `write`, `public_view` | problems are not public before execution closes |
| challenge factory (`validator/challenge_factory/`) | fingerprints of earlier problems, in the store | `plan`, `build_pack`, the five filters, `commit_and_store` | a pack is novel, safe and balanced |
| season (`protocol/season.py`, `models/season_config.py`) | none: one document, read at start | `load_season`, what `Validator.__init__` builds, `validate` | what starts can run every day |
| submissions, artifacts (`validator/submissions.py`, `artifacts.py`) | keys minted at the provider | `prepare_all`, `revoke_minted` | one copy of identical bytes; every minted key is revoked |
| execution pool (`validator/execution.py`) | semaphore, clock | `execute_round` | one failed execution is one failed execution; each laboratory gets its whole episode |
| sandbox runner (`validator/sandbox/`) | containers, held by docker | `execute`, `run`, `_kill` | a run that was admitted is closed |
| gateway (`gateway/api.py`, `client.py`) | adapters, receipts, per open run | `admit`, `close`, `llm`, `search` | a call is charged to its own run |
| metering (`gateway/metering.py`) | holds and charges, under a lock | `admit`, `reserve`, `settle`, `close` | the ceiling holds for calls made side by side |
| provider adapter (`gateway/adapters/openrouter.py`) | none across calls | `complete`, `search`, with retries | every attempt that was billed is charged and recorded |
| tokens, receipts (`gateway/tokens.py`, `protocol/receipts.py`) | a secret per process; a hash chain per run | `issue`, `verify`, `record` | a token opens only its run |
| judging (`validator/judge/`) | none across rounds | `screen`, `compare_pair`, `combine_orders`, `swiss_pairings`, `fit` | no judge and no place on the page decides alone |
| round scoring (`validator/rounds.py`, `scoring/`) | standings of earlier rounds, in their documents | gates, `score_round`, `daily_score`, `rolling_score` | a failed gate disqualifies; what nobody measured costs nothing |
| weights (`validator/weights.py`) | none | `allocate` | shares within the cap, no weight lost, no rank changed |
| encodings, fixed point (`protocol/fixedpoint.py`, `canonical.py`, `seeds.py`) | none | ppm arithmetic, digests, the day's deal | the same on every machine |
| miner tools, demo (`miner/`, `demo/`, `tools/`) | files, a browser's session | not modelled | |

They interact through calls (driver to steps), HTTP between two processes (runner to
gateway, container to gateway), the chain (read by every validator), Redis (outlives
both processes) and docker (whose containers outlive the validator).

The hard behaviour: the chain moves on while a step works; a process dies between an
effect and the record of it; two rounds are alive at once and share one sequential
loop; a laboratory's calls answer in any order, also after its run was closed or
opened again; answers between runner and gateway are lost; either process restarts
while containers go on. A day's decisions also lean on earlier days: a problem must not
come back, a laboratory's score is its history, and whether a season can be run at all
is decided once, at the start. `PROJECT.json` lists these as hazards, each at its line and
with the properties that would notice it going wrong.

## Modules

    Cycle <- RoundLifecycle            Budget
      ^          ^ implements            ^ implements
    RoundDriver -+                     Gateway  ->  Ledger
      ^       ^                          ^    ^
    MCRoundDriver  RoundDriver_proofs  MCGateway  Gateway_proofs -> Sums
                     <- Lifecycle_proofs

    Submissions <- Execution <- MCExecution, Execution_proofs

    FixedPoint <- FamilyCap <- Judging, Scoring, Weights, Gates <- Rounds
                                          Rounds <- MCRounds, Rounds_proofs
          Sums <- Scores_proofs (Judging, Scoring, Weights) <- Rounds_proofs
    FixedPoint <- FamilyCap <- Season;  FixedPoint <- Filters
                        Season, Filters <- Factory <- MCFactory, Factory_proofs

A definition named `X_Something`, commented as a slip, is a wrong version of `X`.
Nothing uses it; put in `X`'s place it breaks the property that `PROJECT.json` pairs
it with.

### Driver: `Cycle`, `RoundLifecycle`, `RoundDriver`

`Cycle` has the calendar as constant operators. Its assumption is what
`CycleConfig.assert_ordering` accepts. A round is named by its epoch index, the anchor
date is left out.

`RoundDriver` is one process, with a program counter `pc`, that polls a chain. A tick
(`StartTick`) reads the head once; `Skip`, `Abandon` or `Begin` handle each live round,
oldest first, all against that block, as `tick` and `_advance` do. A step is cut at
each effect: `PublishSalt`; `BuildPack`, `PublishPack`, `WritePack`, `ReadPack`;
`Execute`, `WriteExecutions`; `Score`; `SubmitWeights`/`SubmitFails` for
`submit_weights` with its retries, where an attempt that raised may have landed.
`StepRaises` is `_run`'s handler and can happen anywhere in a step; `StepReturns`,
`Save` and `Publish` are the rest of `_run` and the two stores of `FanoutRoundStore`.
`MineBlock` and `Crash` can come between any two of these. `Durable` is `--redis-url`,
`Fanout` is `--publish-redis-url`.

A salt and a pack are the serial number of the commitment that published them. What
execution and judging compute is reduced to which pack it was computed on: the
properties ask whether a weight vector traces back to the chain.

`RoundLifecycle` is what the driver promises: steps complete in order, none before its
window opens, and a round given up on or complete is not touched again. `RoundDriver`
implements it with the clock as the head, progress as the last step in the stored
document, given up as the stored `abandoned`.

### Gateway: `Ledger`, `Gateway`, `Budget`

`Ledger` has the operations of `gateway/metering.py`. Each runs under the ledger's
lock, so each is a formula over the ledger's variables that a gateway step conjoins
with its own effects. Holds are added up each time they are asked for (`outstanding`), as
in the code. `excess` and `worst` are history variables, the total and the largest amount
by which charges exceeded estimates; `unread`, in `Gateway`, is what an open run was
charged for answers that could not be read.

`Gateway` composes it with the routes, the adapter, the runner and the containers. A
route's handler gives up the event loop only while it awaits the provider, so a call is
`BeginCall` (authenticate, find the adapter, reserve, send) and, for each attempt, one
of `Answered`, `Refused`, `SearchFailed`, `Retry`, `Exhausted`. `Runner.execute` is
`AdmitRefused`/`AdmitRun`/`AdmitUnanswered`, then `ContainerEnds`/`SandboxRaises`,
then `CloseRun`/`CloseRefused`/`CloseUnanswered`; the "unanswered" forms are
`GatewayClient` losing an answer whose request took effect (or, for close, not even
that). `GatewayDies` loses ledger, adapters, receipts and calls and changes the token
secret; `ValidatorDies` restarts every execution under the run ids it had, with the
containers still there; `OrphanEnds` is such a container ending.

An *admission* stands for the adapter and the receipt that `admit` builds. A token is
its container's run, the secret it was signed with and, as history, its admission and
whether killing its container failed.

Left out: the credential set (the handlers write it and never read it: an adapter holds
its own credential); token expiry (a container whose token has expired is one that
makes no more calls); the refusals of `TokenIssuer.issue` (the runner asks for
expiry = episode deadline, which is always allowed); `Ledger.release` (reached only
from `_NeverSent`, which the transport the gateway builds does not raise: see
Findings); cancellation of a request; the validator's own ledger runs for generation
and judging; the totals `close` reports.

`Budget` is what a run is promised: while it is open, what is committed to it grows only
by a call that fits under the ceiling with everything committed before, or by what a
call under way cost beyond its estimate; closing starts it from nothing. The mapping is
active = `limits`, committed = settled plus held, overrun = `excess`.

### Execution: `Submissions`, `Execution`

`Submissions` is `prepare_all` and `revoke_minted`, one step for each submission and
each key. A submission is refused unread (`RefuseUnread`: owner-linked, or a copy),
prepared, refused for a failure, or raises what `prepare_all` does not catch
(`PrepareRaises`). `kept` is `kept_by_digest`; `keys` is what the provider has, `held`
what the step can name. A mint, or the deletion after a refused one, may be lost on its
way: then a key exists that nobody holds. Revocation may fail, unconfirmed.

`Execution` adds the rest of `execute_step` and `execute_round`. A task is a laboratory
and a challenge; `Enters` is the semaphore, first come first served, and the block read
inside it; `TooLate` and `AskAdmission` are the two outcomes of the deadline check. From
`StartContainer` to `Exits`, `Killed` or `Breaks` the event loop belongs to one
container, since `SandboxRunner.run` waits with `subprocess.run`: no other task moves
(`LoopFree`). `Tick` is time in a container, and the only time counted. `HeadUnread`
and `GatesRaise` are the exceptions outside the `try` of `_execute_one`; `RoundFails`
is `gather` passing one on. `document` is what `write_executions` stored. `Gateway`
has the inside of one execution, `Execution` many of them from the outside; they meet
in `Runner.execute`.

Left out: a token's age (see Findings), what the gates decide, the expiry of minted
keys (30 hours, longer than the window), the contents of archives and manifests
(a submission passes, is refused, or raises), and containers that outlive the process
(in `Gateway`).

### Scoring: `Gates`, `Judging`, `Scoring`, `Weights`, `Rounds`

`FixedPoint` is `protocol/fixedpoint.py`: integers in parts of `PPM` (a constant, a
million in the code), each rounding where the code rounds. A list of scores is a
function with a finite domain, which names what the scores are of; its k-th smallest
value is defined by how many values lie below it (`Ordered`). On it stand the decisions,
as operators: `Gates` (`check_all`: what a run measured to the set of gates it fails),
`Judging` (votes and their aggregate, Swiss pairings, one comparison, both orders of a
pair combined), `Scoring` (a challenge's score, the day's, the rolling one), `FamilyCap`
(panels). `Weights` has one action per pass of the loop that caps shares and
redistributes the rest.

`Rounds` is their order, day after day: `Execute`, `ScreenAll`, `SelectCohort`, one
`Tournament` step per Swiss round of a challenge, `Reduce`, which writes the day's
standings, `Allocate`, `Redistribute` (each pass), `Submit`. `ScoreNothing` is a round
without a challenge to score. `attempts` and `rounds` are documents in the stores and
outlive `Restart`; ballots, cohort, verdicts and shares do not. `history` is what
`history_for` reads of earlier days at the start of SCORE. `Abandon` is any failure
between steps; `NextDay` may skip days. Laboratory -1 is the reference.

A run is a record of what the gates read (`Good` in `MCRounds` lists it). What a judge
answers is any of `Ballots` and `Replies`. `challenge_score` raises when the criteria that
were measured carry no weight; `Weighable` is the guard of `Reduce` for that, and such a
round can only be abandoned. `Softmax` and `Fit` (Bradley-Terry) compute in floating point
and are constant operators: the theorems hold for any that keep `SoftmaxAssumption` and
`FitAssumption` (see "What is proved"), TLC uses shares in proportion to the score and
half-wins per game.

### Factory and season: `Season`, `Filters`, `Factory`

`Season` says which seasons a validator starts with: the schema block by block
(`Parses...`), what refuses to be constructed (`Builds...`), `Validates`, and `Starts`
for `main`. `Filters` has the linter, the safety screen, the comparison of fingerprints,
the reading of a critic's reply and of a probe. A text is reduced to the features their
patterns look for; that the patterns find them is not modelled.

`Factory` is `generate_step` day after day: `Launch`, `Plan` (any deal of the two
pools: the seed decides), then for each slot `Accept`, `Reject` or `LeaveUnfilled`,
`Built` or `NotShipped`, and `commit_and_store` cut at its effects: `Publish`,
`WritePack`/`AnotherPackStored`, `RecordFingerprints`, `Return`. `Fail` is an exception
in any of them, `Crash` the end of the process between two. A fingerprint in Redis may be
there or not on the day its time runs out (`Expiring`). `used` is a history variable: the
fingerprints of packs whose round went on. `RoundDriver` has the same steps from the
outside, with the blocks; here is what they do to the pack and the store.

Left out of both: the receipts and costs of model calls, embeddings (no caller hands any
in), run bindings, and everything a prompt says.

## What the runs check

| run (`MCRoundDriver`) | instance | shows |
| --- | --- | --- |
| `restart` | 2 rounds, 1 crash, Redis, public store | `TypeOK`; `RecordedSaltIsCommitted`; `VectorsTraceToChain`; `PaidPackIsVouchedFor`; `NoEarlyDisclosure`; `LiveRoundsUpToDate`; `SettledIsFinal`; `ImplementsLifecycle` |
| `in_memory` | 1 round, 1 crash, no Redis, public store, 2 submit attempts | `VectorsTraceToChain` though a restart forgets the round |
| `prompt` | 2 rounds, no crash, a delay of 1 block and EXECUTE of up to 2, 2 submit attempts | `OneSaltPerRound`; `SaltLateByDelay`; `PackBeforeReveal`; `StoredPackIsVouchedFor`; `NoWindowMissed`; `EveryRoundSettles` |
| `salt_twice`, `pack_late` | 1 round, with a crash; without promptness | counterexamples, see Findings |

The day has five blocks. The calendar keeps the season's shape: a round's salt window
closes where the previous round's weights window opens, its pack is made inside that
weights window, and the margin before the reveal belongs to no step. Each window is
one or two blocks wide, so every boundary block, the blocks on both sides of it and
every overlap of two live rounds occur. Two rounds are as many as are ever live
together, and rounds share only the loop and the chain. One crash can fall between any
two effects; properties that relate effect and record need one crash between them. A
process may sit idle before its first tick, so it also joins after a salt window has
closed. `MaxBlock` lets all windows close, but in `restart`: there it is the last block
in which one round's weights and the other's pack are made side by side; round 1 goes
from its salt to its weights, round 2 as far as its pack, and from then on the two share
nothing but the loop. `restart` has the public store beside the private one, so that its
write is lost, or cut off by the crash, at every step.

In `prompt` the day has six blocks and the execution window two of them: a process that
reads the head at the first may come back two blocks later, more than the delay, and just
in time for the next round's salt window. The delay is one block, which is as wide as the
narrowest window and as the margin before the reveal; salts do land in the randomness
block itself in this run.

| run (`MCGateway`) | instance | shows |
| --- | --- | --- |
| `reopened` | 1 run opened twice, 2 calls at once, 2 deaths, 2 attempts, 1 search | `TypeOK`; `CeilingHolds`; `HoldsAreOwned`; `TokenSpendsItsOwnAdmission`; `ReceiptAccountsForCharges`; `ImplementsBudget`; `EveryCallEnds` |
| `breach`, `never_sent` | 2 calls or 1, 3 attempts, no deaths | counterexamples, see Findings |

Two calls are enough for one to hold budget while the other reserves, settles late or
outlives its run; opening the run a second time lets a call of the first meet holds of
the second; two deaths let gateway and validator die in either order. The ceiling is 3
(a search and a completion fit together, two completions do not); an answer costs more
than its estimate, as estimated (a search) or nothing (a refusal). `MaxAdmissions` and
`MaxDeaths` bound counters only. One run is enough: the safety invariants are proved
for any number of runs, calls, openings and deaths.

| run (`MCExecution`) | instance | shows |
| --- | --- | --- |
| `pool` | 3 uids with the same bytes, one the owner's, one management key; the reference; 2 challenges, 2 slots, 1 death | `TypeOK`; `OneCopy`; `KeysRevoked`; `KeysOutliveTheirUse`; `EveryExecutionRecorded`; `OvertimeBounded`; `StepEnds` |
| `round_lost` | the same | counterexample, see Findings |

The owner's commitment comes first, so that refusing it must not count as keeping the
digest; the next keeps it, and the last is its copy, whether the one kept can be
prepared or not. Four tasks for two slots: some wait while others run and each can be
the one that waits as the window closes. A wall clock and a grace of one tick tell an
exit, a kill and a slow kill apart. One death: keys of two lives meet at the provider.

| run (`MCRounds`) | instance | shows |
| --- | --- | --- |
| `days` | 3 laboratories and the reference, 2 challenges, 2 criteria with 2 judges each, 3 days, restarts and abandonments | `TypeOK`; `PaidIsEarned`; `AbsenceIsNotZero`; `RollingWithinItsDays`; `PositionBuysNothing`; `CapKeepsRank`; `SharesAddUp` |

`PPM` is 40 and `U16_MAX` 60: every rounding of the code happens, and more coarsely, at
each step. Three laboratories make an odd cohort of some fields (a bye), two judges
allow one to be silent; the panel that fails altogether, the laboratory outside the cohort
and the response of an invalid run are each in one of the fields or ballots. The window
lengths are 1 and 2 and the estimator changes at the second day, so three days have
both estimators and a window shorter than the history. The cap of 16 in 40 needs three to
carry it: one or two who qualify make it give way, three do not.

| run (`MCFactory`) | instance | shows |
| --- | --- | --- |
| `packs` | 35 launches, 14 texts, 2 slots a day, 3 days, 1 crash | `TypeOK`; `NoRepeats`; `StoredPackAsDeclared`; `SeasonNeverFailsADay` |

The seasons are `config/season.542.json` cut to two challenges a day, two variants of it
that start, and 28 that differ from it in one field each, most of which must be refused;
launches without Redis, with a Redis that is reachable from outside, with both stores at
one place, and with a probe. Of the texts one is like two and two like three, and one is
not like three, so that what is remembered decides what passes; each of the others fails
at one requirement. A lookback of 2 or 3 days ends inside the three days. One crash can
fall between any two effects.

Deadlock is not checked: a driver at `MaxBlock`, a gateway whose runs are all over, a
step that has returned, or the last day's round has nothing left to do.

### Fairness

`PromptSpec` has weak fairness on the process (the loop in `Driver.run` always has a
next statement, and a step that can do nothing else raises) and on the chain mining the
next block, within the limits of `PromptMine`. These limits are an **assumption**: the
process reads the head again at most `Delay` blocks after it last did, whatever step it
ran and however long it slept, except that a tick which finds a round in its execution
window may last until that window closes, and be late by less than `Delay` then. EXECUTE
has that deadline (`OvertimeBounded` says by how much its containers overrun it);
of the other steps the code bounds nothing, and what follows when they are later still
is under Findings. The theorems have any `Delay`; what they need of the calendar is
stated with each, and holds in the three seasons under `config/` for delays of up to 60
blocks (`season.542.json`) or 100 (the others):

| | `season.542` | `season.testnet`, `season.example` |
| --- | --- | --- |
| narrowest window (COMMIT_SALT's) | 60 | 150 |
| margin between GENERATE's window and the reveal | 60 | 100 |
| EXECUTE closes / the next round opens at | 1800 / 3360 | 4200 / 6750 |

`FairSpec` has weak fairness on each call's outcome: the provider answers or the
client's own timeout fires, so each attempt ends. Nothing is assumed of containers, the
runner or restarts.

In `Execution`, `FairSpec` has weak fairness on the process as a whole (`Work`): the
loop runs a task that is ready, the gateway's client and the provider's answer or time
out, and `subprocess.run` ends with the wall clock. Which task moves is not assumed,
nor that the window closes.

`Rounds` and `Factory` state safety only: their steps are straight-line code whose end
`RoundDriver` and `Execution` already speak of.

### What the windows do not bound

A step's window is tested once, before the step begins, against the head that the tick
read; nothing tests it when the step's effects land. So `RoundLifecycle` promises that
no step completes before its window *opens* and is silent about when it closes. Of a
prompt process the effects are late by no more than it is (run `prompt`, and
`Lifecycle_proofs`). For a pack that is enough, as a margin follows its window. A salt's
window closes at the randomness block itself, so a delay of one block can put the salt
commitment into it; only a process without any delay has it there strictly before.

## What is proved

Every invariant, every action property and both refinements that the passing runs check
are theorems. They hold for every value of the constants under the named assumptions of
the modules, which TLC evaluates in the runs; hypotheses beyond these, such as durable
stores, are named with the theorem. Most assumptions are the types of parameters, or what
the code refuses to start without (`assert_ordering`, `validate`, `panels_from_season`).
Those that say more:

| assumption | why |
| --- | --- |
| `RoundsAssumption`: `cohort_new` is at least 1 | at 0, which the schema allows, the draw raises (see Findings) |
| `BallotsAssumption`: a response has a reply of every judge on each panel | `screen_one` asks each and writes down the failure of one that does not answer |
| `FitAssumption`: of ties alone a fit makes equal strengths | each tie is half a win to either side with weight 1.0, so a competitor's wins and games balance exactly and it keeps the strength it started with (`validator/judge/bradley_terry.py:108-180`) |
| `SoftmaxAssumption`: a better score never has the smaller share, the shares are at most the whole and short of it by less than one part for each | `exp`, the quotient and `int()` are monotone; `int()` cuts each by less than one |

`RoundDriver_proofs`:

* `TypeCorrect`. `TypeOK` is not inductive alone: `Focus` adds that a running step has
  a round and a number.
* `SaltCorrect` (`RecordedSaltIsCommitted`), with and without Redis. The invariant
  `SaltInv` adds that serial numbers of commitments are at most `serial` and that the
  document under construction records either the stored salt or the one just published,
  which is the last.
* `SettledCorrect` (`SettledIsFinal`), with durable stores: `UnsettledInv` says that
  while a step or a save is under way its round's stored document is neither abandoned
  nor complete.
* `DisclosureCorrect` (`NoEarlyDisclosure`), with durable stores. The invariant ties
  the phase in a document to the block its tick read, which is not ahead of the head;
  two calendar lemmas say that a disclosing phase means execution has closed
  (`DisclosingPhase`) and that a step running that late comes after EXECUTE
  (`LateWindow`).
* `VectorsCorrect` (`VectorsTraceToChain`), with and without Redis. The property speaks of
  the round's *last* commitments, which a later one could displace. The invariant
  `TraceInv` says that none comes once GENERATE is recorded (`Places`), that until then
  the pack vouched for is in the driver's hands or in the store (`Handed`), and that what
  is executed, scored and submitted is the stored pack of a round whose GENERATE is
  recorded (`Uses`). Where a crash loses the stores, a round that has a vector is
  `Forgotten`: it would have to start over with its salt, whose window is over since
  before the pack was committed.
* `PaidPackStays`, with durable stores: the pack stored for a round that has a vector is the
  one the vector was measured on and the one the chain's last hash is of, whatever crashes
  there were. Of rounds without a vector that is false (see Findings, NX).

`Lifecycle_proofs`:

* `LifecycleCorrect` (`ImplementsLifecycle`), with durable stores. `InOrder` says that the
  steps recorded are the first so many, and that a document being saved differs from the
  stored one by the next step, whose window was open at the tick's block, or by being
  given up on. So `Save` is `LAdvance` or `LGiveUp`, `MineBlock` lets time pass, and all
  else stutters.
* `UpToDateCorrect` (`LiveRoundsUpToDate`), with and without Redis, from `LookedAt`: a
  round live at the tick's block is still pending, being advanced, or up to date. It
  needs `OpensWithinADay`: `live_rounds` looks at the block's epoch and the next only,
  which is every live round if a round opens at most `blocks_per_day` before its reveal.
  `cycle.py:274` says "for any sane config"; `assert_ordering` does not check it.
* Of a prompt process (`PromptSpec`; only its safety part is used), for every `Delay`.
  `WithinDelay` says how far the head may be from where it was read; `ExecutesAlone`, a
  hypothesis, that execution windows are over before the next round opens, so that a
  round with its salt or pack to commit does not wait for an EXECUTE (`NobodyExecutes`):
  * `PromptMissesNothing` (`NoWindowMissed`), from `OnSchedule`: a tick leaves every round
    waiting for its next window to open (`Ahead`), and when the head is read again no
    window that was still to open has closed (`OnTime`), since each is as wide as the
    delay (`WindowsAsWide`, a hypothesis) and none overlaps the next (`WindowsApart`); after
    an EXECUTE, since SCORE's and the next round's first window are (`AheadOfExecution`).
    Two more hypotheses: `OpensWithinADay`, and `StartedInTime`: the validator is not
    started in a round whose salt window is over, which it would have missed already.
  * `PromptDrawsOneSalt` (`OneSaltPerRound`) and `PromptStoresWhatItCommits`
    (`StoredPackIsVouchedFor`), without hypotheses, from `Once`: a round that is not given
    up on and whose document lacks a step has nothing of that step on chain or in the
    store, except while that very step is in the driver's hands. A crash is what breaks it:
    the run `salt_twice`.
  * `PromptSaltsLateByDelay` (`SaltLateByDelay`) and `PromptPacksWithinMargin`
    (`PackBeforeReveal`), given `ExecutesAlone`, the second if the margin is as wide as the
    delay. A step is decided on against the head as its tick read it, and what it
    publishes lands against the head as it is; `InItsWindow` relates the two. A margin
    too narrow is what breaks the second: the run `pack_late`.

`Gateway_proofs`:

* `TypeCorrect`.
* `CeilingCorrect` (`CeilingHolds`), from `LedgerSteps`: a step does one ledger operation
  or none. A run's holds are a finite set of numbers (`HoldsNumbered`), so adding or
  removing one moves their sum by its amount (`ReserveSpends`, `SettleSpends`, from `Sums`).
* `BudgetRefined` (`ImplementsBudget`): the initial state and every step map to
  `Budget`. `AccountsOpen` (an account is open exactly when its run has an adapter, and
  only then has holds) is what makes an opening an opening.
* `HoldsCorrect` (`HoldsAreOwned`), from `Owned`: calls in flight have distinct ids no
  greater than the last given out, and each hold belongs to one begun in the current
  admission.
* `ReceiptCorrect` (`ReceiptAccountsForCharges`), from `Owned` and `ReceiptsFit`: open runs
  have receipts of their own, those not yet given out are blank.
* `TokenCorrect` (`TokenSpendsItsOwnAdmission`), from `TokensCurrent`: a container
  whose token would be accepted is in the open admission unless it could not be killed,
  and a run being closed has no other container.

`Execution_proofs`, all from one inductive invariant `IInv`, a conjunction of named
parts that was checked with TLC first; `TaskMoves` says once what any task's step does:

* `TypeCorrect`.
* `CopiesRefused` (`OneCopy`), from `Copies`: each kept uid is the lowest with its
  digest, which holds because uids come in order and everything passed so far that is
  not owner-linked has its digest kept.
* `NoKeyLeft` (`KeysRevoked`) and `KeysInUse` (`KeysOutliveTheirUse`), from `KeysHeld`
  (each key of this life is held or was revoked without confirmation; keys of prepared
  laboratories are alive until the round is over) and `Flight` (no task is in flight
  once it is).
* `DocumentComplete` (`EveryExecutionRecorded`), from `Verdicts`: a task that has ended
  without raising has a verdict.
* `LateContainersBounded` (`OvertimeBounded`), from `Overtime`: once the window has closed,
  the overtime used and the longest that each task with an admission may still use
  (`Holding`), less what the running one has used already, are together at most `Slots`
  times the longest. What has been admitted is counted
  against the slots (`HoldingFinite`), `TaskCounts` says how each task's step moves the
  two counts.

`Sums` has what the others need of finite sets, and no model: sums over a set, from the
fold that defines them in `Functions` (taken apart, compared, scaled, cut by roundings),
least and greatest members, the members ranked by an order, floors of quotients. The
library's induction theorems cannot be instantiated here, so its inductions argue from a
smallest set for which the claim would fail (`SmallestSet`, from the well-foundedness of
strict inclusion on finite sets).

`Scores_proofs` has the arithmetic of a round, for every season. Each statistic and each
weighted average lies between the least and the greatest value of its list
(`MeanWithin`, `MedianWithin`, `QuantileWithin`, `ApplyWithin`), and what combines several
of them loses at most one part to its roundings (`CombineWithin`, `ChallengeWithin`,
`RollingWithin`); all are shares of one. Sorting lists the members and nothing else
(`SortedIn`, `RankedIn`); the pairing recursion is well-defined and pairs only who
is in the standings (`PairingExists`, `SwissIn`). A pass of the cap loses only roundings,
takes nothing from whom it does not cut and keeps the order of these (`CapPassKeeps`,
from `Cuttable`).

`Rounds_proofs`:

* `PaidHasEarnedIt` (`PaidIsEarned`), for every field, judge, fit and softmax. The
  property speaks of the vector and of what ran days of steps earlier; between them are
  documents. The invariant says what each document says at each stage: the failures are
  written once the field has run (`FailuresWritten`), the standings list exactly who ran
  (`ListedRan`), shares and vector are of those who qualify by that document
  (`SharesOfPaid`, `VectorOfPaid`). This proof uses nothing of the scores.
* The others are from `RoundsInv`, which adds what is well-formed in the stores
  (`Documents`) and in `score_round`'s hands (`Judgement`: ballots for every valid
  response, verdicts of two different laboratories of the cohort, histories of days that
  some document has), what is being paid (`Weighed`) and what a rolling score was made of
  (`Rolled`):
  * `RoundsTyped` (`TypeOK`).
  * `AbsenceIsFree` (`AbsenceIsNotZero`): a score is not below the least of what was
    measured, whatever was not.
  * `PositionRanksNobody` (`PositionBuysNothing`): judges that name a place in both
    orders are combined to ties (and `FitAssumption` makes nothing of ties alone).
  * `RollingOfItsDays` (`RollingWithinItsDays`).
  * `SharesSum` (`SharesAddUp`) and `CapRanks` (`CapKeepsRank`): the passes of the cap
    keep `RankKept`, that of two paid the better scored has the smaller share only for
    having been cut; the loop's exit makes of it the property.

`Factory_proofs`:

* `ProblemsAreNew` (`NoRepeats`), for every season, text and number of crashes. The
  invariant says of each of the build's, the store's and the earlier rounds' fingerprints
  which are remembered and until when: a print of a round that went on is in the store
  until its lookback ends, hence in `history`; an accepted problem joins `history` and is
  unlike all that was there.
* `StartedSeasonsHold` (`SeasonNeverFailsADay`), for every season. `Validates` says that
  the pool slots are dealt from holds each generator's declared number;
  `EveryGeneratorDealt` that none of these is zero. The invariant `SInv` says that every
  slot has a generator in these numbers (`SlotsDealt`) and that, until a slot stays
  unfilled, the i-th problem is of the i-th slot's generator (`InPlace`); so the finished
  pack counts as declared (`CountsAreDeclared`). `FactoryAssumption` says that the
  generators are a finite list and the lookback a number.

* `StoredPacksHold` (`StoredPackAsDeclared`), from `PInv`: slots have the dealt domains and
  critics (`SlotsPlanned`), an accepted problem passed the filters as a problem of its slot
  (`Filtered`), a finished pack is as declared (`FinishedAsDeclared`), and a pack is
  published before it is stored (`OnChain`). It uses `SInv`.
* `FactoryTyped` (`TypeOK`), from all of these and `Slotted` (slots have the season's
  domains, families and critics): a problem's texts are of the season because its slot is,
  and no slot is counted twice.

The invariants were checked with TLC, part by part, before they were proved.

Only model-checked is liveness: `EveryRoundSettles`, `EveryCallEnds` and `StepEnds`. What
follows from fairness goes through ENABLED, which the provers do not reach. The runs that
expect a violation show counterexamples, and there is nothing to prove of them.

## Findings

Where the code does not do what its comments say. Each of these has a run whose
counterexample shows it; `PROJECT.json` quotes the lines.

| run | what happens |
| --- | --- |
| `salt_twice` | The driver records a step after it returns. A crash in between runs COMMIT_SALT again, with a new salt: two salt commitments for a round. The last one is recorded and used (`RecordedSaltIsCommitted`). |
| `pack_late` | GENERATE ignores its deadline; the pack hash can land after the reveal, and the round executes on it. |
| `breach` | A breach of the ceiling is not bounded to one call: calls already holding budget each overrun. |
| `never_sent` | A connection that was never made is retried and charged like an answered attempt. |
| `round_lost` | The head is read and the gates are run outside the `try` around an execution; an exception there ends the round, and what the other executions produced is not stored. |

The models have these behaviours too; no run is spent on them.

* Without Redis a restart does not abandon the round in progress
  (`validator/__main__.py:226-232`); while its salt window is open the round is started
  over.
* COMMIT_SALT begun in its window, or queued behind another round's step in the same
  tick, can land in or after the randomness block: its window has no margin.
* SUBMIT_WEIGHTS closes at the offset at which the round stops being live
  (`validator/cycle.py:271-285`), so missing it is never recorded as an abandonment.
* A crash between storing the pack and recording the step: the second hash is published,
  then NX refuses the second pack, and the chain's last hash is not the stored pack's
  (`StoredPackIsVouchedFor` fails under `Spec`). The round is abandoned, nothing is paid
  on it.
* A call in its retry loop goes on sending after its run was closed
  (`gateway/adapters/openrouter.py:218-254`).
* An answer that cannot be read is charged and not recorded
  (`gateway/adapters/openrouter.py:258-259`).
* `Runner.execute` closes the run only after success or a `ContainerError`; another
  exception leaves it open (`validator/sandbox/runner.py:252`).

* `SandboxRunner.run` blocks the event loop, so containers run one after another
  whatever `concurrency` is; `validator/execution.py:19-20` counts on their running side
  by side.
* The deadline a task gives its token is computed before its admission
  (`validator/execution.py:213`). With `concurrency` above 1 other containers may run
  first, and the token can be old or expired when its own starts. One that asked for
  admission while the window was open starts its container after it has closed
  (`validator/execution.py:149-150` means to prevent that).
* Keys are minted before `reference_laboratory` and `build_runner`, which may raise, and
  revoked only by the `try` that follows (`validator/__main__.py:590-633`); likewise if
  `prepare_all` raises. Hence `outcome # "unstarted"` in `KeysRevoked`.
* "One copy is run" (`validator/submissions.py:205`): none is, if the one kept cannot be
  prepared.

Scoring:

* `standings` is never written between Swiss rounds (`validator/rounds.py:372`), so the
  pairs follow the uids. In an odd cohort the same laboratory has the bye in every round
  of every challenge and is never compared, where `validator/judge/pairwise.py:142-158`
  means to spread byes and pair by standing.
* A laboratory with no scored challenge stands with a daily score of 0, and later rounds
  read that as a day (`validator/scoring/daily.py:136-139` says that unmeasured is not
  zero). Hence `valid > 0` in `RollingWithinItsDays`.
* A window holds the last results, not the last days (`validator/scoring/daily.py:178`);
  history is kept by uid, which `validator/judge/pairwise.py:396-398` says are recycled.
* The reference is not in the standings, so it has no history: the floor is its score of
  the day, not its rolling score (`validator/__main__.py:763-764`). It takes the first of
  the cohort's places for newcomers, and with `cohort_new` at 0, which the schema allows,
  `uid.to_bytes` of -1 raises (assumed away in `RoundsAssumption`).
* Gates 13.1, 13.8, 13.10 and 13.13 are called without the measurements they test and
  cannot fail. `qualified` in the standings leaves out `minimum_valid_challenges`.
* A pair judged in one order only counts as judged, so there a preference for a place does
  count (`validator/judge/pairwise.py:365-371` says so). Hence the second premise of
  `PositionBuysNothing`.
* If the burn uid is the only one that qualifies, the remainder overwrites its share
  (`validator/weights.py:333`).

Factory and season:

* A day whose pack was stored before a crash is generated again: `generate_step` does
  not look for a stored pack, though `validator/__main__.py:211-216` gives that as the
  reason for Redis. After `RecordFingerprints` the new build rejects its own problems, and
  another pack is refused by the store: such a round is always lost.
* A critic family without a pin passes every check of the start (the third season of
  `Runnable`): each of its candidates is rejected and every day is short.
* `duplicate_threshold_ppm` may be 0, and then every problem is a duplicate.
* `season_config.py:77` says that a critic must not be of its generator's family; nothing
  enforces it and the shipped seasons do otherwise. `store.pack_ttl_days` is read by
  nothing.
* An optional field that is missing where it is needed is a `KeyError`, which is not
  among the exceptions `main` reports (`validator/__main__.py:1017`); for the model both
  are a refusal.

## Not modelled

* Prompts, model output and what a container computes: any of the outcomes the code
  tells apart. That a regular expression finds what it is for is likewise taken.
* Byte encodings, digests and signatures (`protocol/canonical.py`, the salt's
  verification in `seeds.py`): taken as injective.
* `Softmax` and the Bradley-Terry fit, in floating point: parameters.
* `next_wake_block` and `round_id` (logging and sleeping), the price table's arithmetic,
  token and key expiry, docker's flags, the contents of archives.
* `cosine_ppm`, embeddings, run bindings, `collapse_duplicates`, `rank_weighted` and the
  novelty report: no caller in the validator reaches them with data.
* The miner's command line and example laboratory, the demo server and the repository
  tools: single-process programs that share no state with the validator.

## Plan

Done: driver, gateway, execution and submissions, scoring and weights, factory and
season, with proofs of every safety property the runs check. What would come next:

1. A composition of `Factory` with `RoundDriver`, so that the crash between storing and
   recording meets the calendar in one model.
2. A composition of `Execution` with `Gateway` at `Runner.execute`, with each task's
   execution shown to implement the outside that `Execution` has of it.
3. An abstract specification of a day's payment (who qualifies is paid within the cap)
   that `Rounds` implements.

Modules to be proved about use no recursive operators.
