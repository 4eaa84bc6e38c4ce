------------------------------- MODULE Rounds -------------------------------
(***************************************************************************)
(* From executed portfolios to a weight vector, day after day:             *)
(* score_round of validator/rounds.py, and around it the score and weight  *)
(* steps of validator/__main__.py.  A round's documents outlive a crash,   *)
(* everything score_round has in hand does not; each day's standings are   *)
(* read again by later days as a laboratory's history.                     *)
(*                                                                         *)
(* Gates, Judging, Scoring and Weights hold the decisions; here is the     *)
(* order they are taken in and what is carried from one to the next.       *)
(***************************************************************************)
EXTENDS Judging, Scoring, Weights, Gates

CONSTANTS
  Pack,           \* the day's challenges, in pack order
  Problem,        \* challenge -> what the gates read of it
  Declared,       \* uid -> model -> revision: the bundle's manifest
  cohort_top, cohort_new, cohort_random, swiss_rounds,
  Fields,         \* entrants -> challenge -> a run: how an execution may go
  Ballots(_),     \* the ways a set of responses may be answered when screened
  Replies(_),     \* replies to the comparisons of a set of pairs
  MaxDay          \* bound: the days looked at

Challenges == Range(Pack)

REFERENCE_UID == -1

Entrants == Labs \cup {REFERENCE_UID}

NotAttempted == [run |-> "not attempted"]

(* With cohort_new at 0, which the season's schema allows, the reference   *)
(* is drawn with the others and its uid cannot be hashed.                  *)
ASSUME RoundsAssumption ==
  /\ Pack \in Seq(Challenges)
  /\ MaxDay \in Nat \ {0}
  /\ Labs \subseteq Nat
  /\ DOMAIN Problem = Challenges
  /\ DOMAIN Declared = Entrants
  /\ cohort_top \in Nat /\ cohort_random \in Nat /\ swiss_rounds \in Nat
  /\ cohort_new \in Nat \ {0}
  /\ \A field \in Fields : DOMAIN field \subseteq Entrants
  /\ Criteria = DOMAIN criterion_weights_ppm

(* screen_one puts each response to each criterion's panel and hears       *)
(* something of every judge on it, be it only that it failed to answer:    *)
(* ballots are response -> criterion -> judge -> reply.                    *)
ASSUME BallotsAssumption ==
  \A responses \in SUBSET (Entrants \X Challenges) : \A answered \in Ballots(responses) :
    /\ DOMAIN answered = responses
    /\ \A r \in responses : /\ DOMAIN answered[r] = Criteria
                            /\ \A c \in Criteria : DOMAIN answered[r][c] = Panels[c]

(* Of ties alone a fit makes nothing: the half-wins and the games of every *)
(* competitor balance, exactly in floating point, and each keeps the       *)
(* strength it started with.                                               *)
ASSUME FitAssumption ==
  \A pairings \in SUBSET [family : Families(PinsFor),
                          pair   : {p \in SUBSET Entrants : Cardinality(p) = 2},
                          winner : {Tie}] :
    \A t, u \in Competitors(pairings) : Fit(pairings, t) = Fit(pairings, u)

VARIABLES
  day,         \* the round's day
  stage,       \* how far the round has come
  attempts,    \* executions: uid -> challenge -> what the run measured
  history,     \* score_round's argument: uid -> its earlier daily scores
  ballots,     \* what the screening judges answered, per valid response
  cohort,      \* the uids that are compared pairwise
  bout,        \* <<challenge in pack order, Swiss round>> to be judged next
  faced,       \* pairs met on this challenge
  verdicts,    \* challenge -> the verdicts cast
  rounds       \* the round store: day -> [standings, floor, failed]

judging == <<history, ballots, cohort, bout, faced, verdicts>>

vars == <<day, stage, attempts, judging, rounds, weighing>>

Stage == {"idle", "executed", "screened", "judging", "scored", "capping", "weighed", "over"}

NoVerdicts == [ch \in Challenges |-> {}]

(* A round's document before anything is known of it                       *)
NewRound == [standings |-> Nobody, floor |-> 0, failed |-> {}]

NothingJudged ==
  /\ history = Nobody
  /\ ballots = Nobody
  /\ cohort = {}
  /\ bout = <<1, 1>>
  /\ faced = {}
  /\ verdicts = NoVerdicts

(* What score_round had in hand is gone: when it returns, when it dies     *)
ForgetJudging ==
  /\ history' = Nobody
  /\ ballots' = Nobody
  /\ cohort' = {}
  /\ bout' = <<1, 1>>
  /\ faced' = {}
  /\ verdicts' = NoVerdicts

Init ==
  /\ day = 1
  /\ stage = "idle"
  /\ attempts = Nobody
  /\ NothingJudged
  /\ rounds = [d \in {1} |-> NewRound]
  /\ NothingWeighed

-----------------------------------------------------------------------------
(* Execution *)

FailedGates(uid, ch) ==
  IF attempts[uid][ch] = NotAttempted THEN {"execution"}
  ELSE CheckAll(attempts[uid][ch], Problem[ch], Declared[uid])

(* The responses a judge may see *)
Valid == {r \in (DOMAIN attempts) \X Challenges : FailedGates(r[1], r[2]) = {}}

(* Slip: one valid run is enough for the gates to count as passed.         *)
X_Disqualified ==
  {uid \in DOMAIN attempts : \A ch \in Challenges : FailedGates(uid, ch) # {}}

Disqualified ==
  {uid \in DOMAIN attempts : \E ch \in Challenges : FailedGates(uid, ch) # {}}

(* execute_step: the field runs, and the round's document says who failed  *)
Execute ==
  /\ stage = "idle"
  /\ stage' = "executed"
  /\ \E field \in Fields : attempts' = field
  /\ rounds' = [rounds EXCEPT ![day].failed = Disqualified' \ {REFERENCE_UID}]
  /\ UNCHANGED <<day, judging, weighing>>

-----------------------------------------------------------------------------
(* What a score step reads of the rounds before it *)

(* The newest documents, today's among them and tomorrow's when that round *)
(* has opened; a round that was abandoned has one too.                     *)
Recent(opened) ==
  {d \in DOMAIN rounds :
     Cardinality({e \in DOMAIN rounds : e > d}) + (IF opened THEN 1 ELSE 0)
       < rolling_long_days}

ScoredDays(uid, opened) ==
  {d \in Recent(opened) : uid \in DOMAIN rounds[d].standings}

HistoryFor(opened) ==
  [uid \in DOMAIN attempts |->
     LET days == InOrder(ScoredDays(uid, opened), <)
     IN  [i \in DOMAIN days |-> rounds[days[i]].standings[uid].daily]]

-----------------------------------------------------------------------------
(* score_round *)

(* Nothing passed its gates: everyone is listed, nobody has a score        *)
EmptyLabs ==
  [uid \in DOMAIN attempts \ {REFERENCE_UID} |-> [daily |-> 0, rolling |-> 0, valid |-> 0]]

ScoreNothing ==
  /\ stage = "executed"
  /\ Valid = {}
  /\ stage' = "scored"
  /\ rounds' = [rounds EXCEPT ![day].standings = EmptyLabs, ![day].floor = 0]
  /\ UNCHANGED <<day, attempts, judging, weighing>>

(* Every valid response goes to every criterion's panel                    *)
ScreenAll ==
  /\ stage = "executed"
  /\ Valid # {}
  /\ stage' = "screened"
  /\ \E opened \in BOOLEAN : history' = HistoryFor(opened)
  /\ ballots' \in Ballots(Valid)
  /\ UNCHANGED <<day, attempts, cohort, bout, faced, verdicts, rounds, weighing>>

Screened(r) == IF r \in DOMAIN ballots THEN ScreenOne(ballots[r]) ELSE Nobody

(* The mean over the challenges on which anything could be scored          *)
Averaged ==
  LET answered(uid) == {ch \in Challenges : Screened(<<uid, ch>>) # Nobody}
      average(scores) == SumFunction(scores) \div Cardinality(DOMAIN scores)
  IN  [uid \in {u \in DOMAIN attempts : answered(u) # {}} |->
         average([ch \in answered(uid) |-> average(Screened(<<uid, ch>>))])]

(* The first n, by a strict order: those with fewer than n before them     *)
FirstOf(S, n, Before(_, _)) == {x \in S : Cardinality({y \in S : Before(y, x)}) < n}

(* By average, then by uid *)
Top ==
  LET average == Averaged
  IN  FirstOf(DOMAIN average, cohort_top,
              LAMBDA u, v : \/ average[u] > average[v]
                            \/ average[u] = average[v] /\ u < v)

(* Slip: whoever is registered and has no history, whether it ran or not.  *)
X_Newcomers ==
  FirstOf({uid \in Entrants \ Top : uid \in DOMAIN history => history[uid] = <<>>},
          cohort_new, <)

(* Whoever ran and has no earlier score, with a valid response or without; *)
(* the reference is in no standings, so it is always the first of them.    *)
Newcomers ==
  FirstOf({uid \in DOMAIN attempts \ Top : history[uid] = <<>>}, cohort_new, <)

Remaining == DOMAIN Averaged \ (Top \cup Newcomers)

(* The seeded draw may fall on any of those who remain                     *)
SelectCohort ==
  /\ stage = "screened"
  /\ stage' = "judging"
  /\ \E drawn \in SUBSET Remaining :
       /\ Cardinality(drawn) = Min({cohort_random, Cardinality(Remaining)})
       /\ cohort' = Top \cup Newcomers \cup drawn
  /\ UNCHANGED <<day, attempts, history, ballots, bout, faced, verdicts, rounds, weighing>>

Present(ch) == {uid \in cohort : <<uid, ch>> \in Valid}

(* One Swiss round on one challenge.  The standings it pairs by are never  *)
(* brought up to date: everyone enters every round level.                  *)
Tournament ==
  /\ stage = "judging"
  /\ bout[1] <= Len(Pack)
  /\ LET ch      == Pack[bout[1]]
         present == InOrder(Present(ch), <)
         pairs   == SwissPairings([i \in DOMAIN present |-> <<present[i], PPM \div 2>>], faced)
     IN  IF Len(present) < 2 \/ bout[2] > swiss_rounds
         THEN /\ bout' = <<bout[1] + 1, 1>>
              /\ faced' = {}
              /\ UNCHANGED verdicts
         ELSE /\ bout' = <<bout[1], bout[2] + 1>>
              /\ faced' = faced \cup pairs
              /\ \E replies \in Replies(pairs) :
                   verdicts' = [verdicts EXCEPT ![ch] =
                                  @ \cup UNION {ComparePair(pair, replies) : pair \in pairs}]
  /\ UNCHANGED <<day, stage, attempts, history, ballots, cohort, rounds, weighing>>

Cast(ch, c) == {v \in verdicts[ch] : v.criterion = c}

Strengths(ch, c) ==
  IF Cast(ch, c) = {} THEN Nobody ELSE StrengthsToPpm(Fitted(CombineOrders(Cast(ch, c))))

(* A response's pairwise measurement, by criterion                         *)
Compared(r) ==
  LET strengths == [c \in Criteria |-> Strengths(r[2], c)]
  IN  [c \in {k \in Criteria : r[1] \in DOMAIN strengths[k]} |-> strengths[c][r[1]]]

PerChallenge(uid) ==
  [ch \in {k \in Challenges : /\ <<uid, k>> \in Valid
                              /\ Scoreable(Screened(<<uid, k>>), Compared(<<uid, k>>))} |->
     ChallengeScore(Screened(<<uid, ch>>), Compared(<<uid, ch>>))]

(* A laboratory with no scored challenge has a day and a rolling score of  *)
(* nothing, which is published as zero.                                    *)
LabScore(uid) ==
  LET scores    == PerChallenge(uid)
      day_score == DailyScore(scores)
  IN  IF scores = Nobody THEN [daily |-> 0, rolling |-> 0, valid |-> 0]
      ELSE [daily   |-> day_score,
            rolling |-> RollingScore(Append(history[uid], day_score)),
            valid   |-> Cardinality(DOMAIN scores)]

(* The reference defines the floor and is left out of the standings        *)
ReferenceFloor ==
  IF REFERENCE_UID \in DOMAIN attempts THEN LabScore(REFERENCE_UID).rolling ELSE 0

Standings == [uid \in DOMAIN attempts \ {REFERENCE_UID} |-> LabScore(uid)]

Judged == stage = "judging" /\ bout[1] > Len(Pack)

(* No challenge_score raises: the season weights something of whatever was *)
(* measured.  When it does not, the step fails.                            *)
Weighable ==
  \A r \in Valid :
    Measured(Screened(r), Compared(r)) # {} => Scoreable(Screened(r), Compared(r))

Reduce ==
  /\ Judged /\ Weighable
  /\ stage' = "scored"
  /\ rounds' = [rounds EXCEPT ![day].standings = Standings, ![day].floor = ReferenceFloor]
  /\ ForgetJudging
  /\ UNCHANGED <<day, attempts, weighing>>

-----------------------------------------------------------------------------
(* submit_weights_step: allocate from what the round's document says       *)

Today == rounds[day]

Candidates ==
  [uid \in DOMAIN Today.standings |->
     [rolling   |-> Today.standings[uid].rolling,
      valid     |-> Today.standings[uid].valid,
      gates     |-> uid \notin Today.failed,
      artifacts |-> TRUE]]

Paid == Qualified(Candidates, Today.floor)

(* Without standings there is nothing to allocate: the step fails          *)
Allocate ==
  /\ stage = "scored"
  /\ Candidates # Nobody
  /\ \/ Paid = {} /\ Burn /\ stage' = "weighed"
     \/ \E only \in Paid : Paid = {only} /\ PayOne(only) /\ stage' = "weighed"
     \/ Cardinality(Paid) > 1 /\ Share(Candidates, Today.floor) /\ stage' = "capping"
  /\ UNCHANGED <<day, attempts, judging, rounds>>

Redistribute ==
  /\ stage = "capping"
  /\ CapPass
  /\ UNCHANGED <<day, stage, attempts, judging, rounds>>

Submit ==
  /\ stage = "capping"
  /\ Emit
  /\ stage' = "weighed"
  /\ UNCHANGED <<day, attempts, judging, rounds>>

-----------------------------------------------------------------------------
(* A step that did not finish is run again from the documents              *)
Restart ==
  /\ stage \in {"screened", "judging", "capping"}
  /\ stage' = IF stage = "capping" THEN "scored" ELSE "executed"
  /\ ForgetJudging
  /\ ForgetWeights
  /\ UNCHANGED <<day, attempts, rounds>>

(* A step fails or its window closes: the round ends where it is           *)
Abandon ==
  /\ stage \in {"idle", "executed", "scored"}
  /\ stage' = "over"
  /\ UNCHANGED <<day, attempts, judging, rounds, weighing>>

(* What a later day reads of a document: who was listed, at what daily     *)
(* score                                                                   *)
Past(document) ==
  [NewRound EXCEPT !.standings =
     [uid \in DOMAIN document.standings |->
        [daily |-> document.standings[uid].daily, rolling |-> 0, valid |-> 0]]]

(* The next round that opens is tomorrow's, or a later one after an        *)
(* outage.  Only what some later day can still read is kept.               *)
NextDay ==
  /\ stage \in {"weighed", "over"}
  /\ \E d \in day + 1 .. MaxDay :
       /\ day' = d
       /\ rounds' = [k \in Recent(TRUE) \cup {d} |->
                        IF k = d THEN NewRound ELSE Past(rounds[k])]
  /\ stage' = "idle"
  /\ attempts' = Nobody
  /\ ForgetWeights
  /\ UNCHANGED judging

Next ==
  \/ Execute \/ ScoreNothing \/ ScreenAll \/ SelectCohort \/ Tournament \/ Reduce
  \/ Allocate \/ Redistribute \/ Submit
  \/ Restart \/ Abandon \/ NextDay

Spec == Init /\ [][Next]_vars

-----------------------------------------------------------------------------
TypeOK ==
  /\ day \in 1 .. MaxDay
  /\ stage \in Stage
  /\ DOMAIN attempts \subseteq Entrants
  /\ cohort \subseteq DOMAIN attempts
  /\ \A uid \in DOMAIN history : history[uid] \in Seq(Shares)
  /\ bout \in (1 .. Len(Pack) + 1) \X (1 .. swiss_rounds + 1)
  /\ day \in DOMAIN rounds
  /\ \A d \in DOMAIN rounds :
       /\ rounds[d].failed \subseteq Entrants
       /\ rounds[d].floor \in Shares
       /\ \A uid \in DOMAIN rounds[d].standings :
            rounds[d].standings[uid] \in
              [daily : Shares, rolling : Shares, valid : 0 .. Len(Pack)]
  /\ WeightsTypeOK

(* Who is paid has run on every challenge and passed every gate on each of *)
(* them, and beat the reference today: whatever happened between the run,  *)
(* the document that says who failed, and the step that pays.              *)
PaidIsEarned ==
  \A uid \in DOMAIN vector \ {burn_uid} :
    vector[uid] > 0 =>
      /\ uid \in DOMAIN attempts
      /\ \A ch \in Challenges : FailedGates(uid, ch) = {}
      /\ uid \in DOMAIN Today.standings
      /\ Today.standings[uid].rolling > Today.floor
      /\ Today.standings[uid].valid >= minimum_valid_challenges

Votes(r, c) == {ANCHOR_PPM[ballots[r][c][judge]] : judge \in Voted(ballots[r][c])}

(* What was measured of a response, whatever the criterion                 *)
Measurements(r) == (UNION {Votes(r, c) : c \in DOMAIN ballots[r]}) \cup Range(Compared(r))

(* A silent judge, a panel that failed, a place outside the cohort: what   *)
(* was not measured costs a laboratory nothing.  A challenge is scored     *)
(* between the least and the greatest of what was measured, but for the    *)
(* roundings and the cap on a weak mechanism.                              *)
AbsenceIsNotZero ==
  Judged /\ Weighable =>
    \A uid \in DOMAIN attempts :
      LET scores == PerChallenge(uid)
      IN  \A r \in Valid \cap ({uid} \X Challenges) :
            LET measured == Measurements(r)
            IN  IF measured = {} THEN r[2] \notin DOMAIN scores
                ELSE /\ scores[r[2]] <= Max(measured)
                     /\ scores[r[2]] >= Min(measured \cup {capped_on_weak_mechanism_ppm}) - 1

(* The estimator changes with the length of a history, what a day earned   *)
(* does not: a rolling score is never outside the days it was made of, and *)
(* a laboratory in its first round has its day's score.                    *)
RollingWithinItsDays ==
  stage = "scored" =>
    \A uid \in DOMAIN Today.standings :
      LET days == {rounds[d].standings[uid].daily :
                     d \in {k \in DOMAIN rounds : uid \in DOMAIN rounds[k].standings}}
      IN  Today.standings[uid].valid > 0 =>
            /\ Today.standings[uid].rolling <= Max(days)
            /\ Today.standings[uid].rolling >= Min(days) - 1

(* Judges that answer by where a portfolio is shown decide nothing: when   *)
(* every verdict names the same slot, and every pair was shown both ways,  *)
(* all who were compared come out equal.                                   *)
PositionBuysNothing ==
  Judged =>
    \A ch \in Challenges, c \in Criteria :
      LET cast      == Cast(ch, c)
          strengths == Strengths(ch, c)
      IN  /\ \E slot \in {"A", "B"} : \A v \in cast : v.winner = slot
          /\ \A v \in cast : [v EXCEPT !.slot_a = v.slot_b, !.slot_b = v.slot_a] \in cast
          => \A t, u \in DOMAIN strengths : strengths[t] = strengths[u]

(* The cap limits concentration and decides nothing else: from a field     *)
(* that can carry it nobody ends above it, and of two who are paid the one *)
(* with the better score never gets the smaller weight.                    *)
CapKeepsRank ==
  stage = "weighed" =>
    /\ CapKept
    /\ \A i, j \in DOMAIN shares \cap DOMAIN Today.standings :
         Today.standings[i].rolling >= Today.standings[j].rolling => vector[i] >= vector[j]
=============================================================================
