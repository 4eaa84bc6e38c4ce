---------------------------- MODULE Rounds_proofs ----------------------------
(***************************************************************************)
(* The invariants of Rounds, for every season, field, panel and softmax,   *)
(* any number of laboratories, challenges and days.  Who is paid has       *)
(* earned it: an argument about which document says what, when.  Every     *)
(* score lies between what it was made of: the arithmetic of Scores_proofs *)
(* on what a crash leaves in the documents and in score_round's hands.     *)
(* Shares add up and weights keep the order of the scores.                 *)
(***************************************************************************)
EXTENDS Rounds, Scores_proofs

-----------------------------------------------------------------------------
(* Who is paid has earned it *)

(* The day's document is there and has its three parts                     *)
Opened ==
  /\ day \in DOMAIN rounds
  /\ DOMAIN rounds[day] = {"standings", "floor", "failed"}

(* From the execution on the document names those who failed a gate ...    *)
FailuresWritten ==
  stage \notin {"idle", "over"} => Today.failed = Disqualified \ {REFERENCE_UID}

(* ... and from the score on it lists those who ran, and nobody else       *)
ListedRan ==
  stage \in {"scored", "capping", "weighed"} =>
    DOMAIN Today.standings = DOMAIN attempts \ {REFERENCE_UID}

(* Shares and weights are of those who qualify by that document            *)
SharesOfPaid == stage = "capping" => DOMAIN shares = Paid

VectorOfPaid ==
  IF stage = "weighed" THEN DOMAIN vector \subseteq Paid \cup {burn_uid} ELSE vector = Nobody

IInv == Opened /\ FailuresWritten /\ ListedRan /\ SharesOfPaid /\ VectorOfPaid

LEMMA IInvInit == Init => IInv
  BY DEF Init, NothingWeighed, IInv, Opened, FailuresWritten, ListedRan, SharesOfPaid,
         VectorOfPaid, NewRound

(* A document that is rewritten in some parts keeps the others             *)
LEMMA Rewritten ==
  ASSUME Opened, NEW s, NEW f
  PROVE  /\ LET after == [rounds EXCEPT ![day].standings = s, ![day].floor = f]
            IN  /\ DOMAIN after = DOMAIN rounds
                /\ DOMAIN after[day] = {"standings", "floor", "failed"}
                /\ after[day].standings = s
                /\ after[day].failed = rounds[day].failed
         /\ LET after == [rounds EXCEPT ![day].failed = s]
            IN  /\ DOMAIN after = DOMAIN rounds
                /\ DOMAIN after[day] = {"standings", "floor", "failed"}
                /\ after[day].failed = s
  BY DEF Opened

(* Who failed is a matter of what ran                                      *)
LEMMA SameFailed ==
  ASSUME UNCHANGED attempts
  PROVE  Disqualified' = Disqualified
<1>1. \A uid, ch : FailedGates(uid, ch)' = FailedGates(uid, ch)
  BY DEF FailedGates
<1> QED
  BY <1>1 DEF Disqualified

(* What is paid is a matter of the day's document alone                    *)
LEMMA SamePaid ==
  ASSUME UNCHANGED <<day, rounds>>
  PROVE  Paid' = Paid
  BY DEF Paid, Candidates, Today

LEMMA IInvNext == IInv /\ [Next]_vars => IInv'
<1> SUFFICES ASSUME IInv, [Next]_vars PROVE IInv'
  OBVIOUS
<1> USE DEF IInv, Opened, FailuresWritten, ListedRan, SharesOfPaid, VectorOfPaid, Today
<1>1. CASE Execute
  BY <1>1, Rewritten DEF Execute, weighing
<1>2. CASE ScoreNothing
  <2>1. DOMAIN EmptyLabs = DOMAIN attempts \ {REFERENCE_UID}
    BY DEF EmptyLabs
  <2>2. Disqualified' = Disqualified
    BY <1>2, SameFailed DEF ScoreNothing
  <2> QED
    BY <1>2, <2>1, <2>2, Rewritten DEF ScoreNothing, weighing
<1>3. CASE ScreenAll \/ SelectCohort \/ Tournament
  <2>1. Disqualified' = Disqualified
    BY <1>3, SameFailed DEF ScreenAll, SelectCohort, Tournament
  <2> QED
    BY <1>3, <2>1 DEF ScreenAll, SelectCohort, Tournament, weighing
<1>4. CASE Reduce
  <2>1. DOMAIN Standings = DOMAIN attempts \ {REFERENCE_UID}
    BY DEF Standings
  <2>2. Disqualified' = Disqualified
    BY <1>4, SameFailed DEF Reduce
  <2> QED
    BY <1>4, <2>1, <2>2, Rewritten DEF Reduce, Judged, weighing
<1>5. CASE Allocate
  <2>1. Disqualified' = Disqualified /\ Paid' = Paid
    BY <1>5, SamePaid, SameFailed DEF Allocate
  <2>2. CASE Paid = {} /\ Burn /\ stage' = "weighed"
    BY <1>5, <2>1, <2>2 DEF Allocate, Burn
  <2>3. CASE \E only \in Paid : Paid = {only} /\ PayOne(only) /\ stage' = "weighed"
    BY <1>5, <2>1, <2>3 DEF Allocate, PayOne
  <2>4. CASE Share(Candidates, Today.floor) /\ stage' = "capping"
    BY <1>5, <2>1, <2>4 DEF Allocate, Share, Paid
  <2> QED
    BY <1>5, <2>2, <2>3, <2>4 DEF Allocate
<1>6. CASE Redistribute
  <2>1. Disqualified' = Disqualified /\ Paid' = Paid
    BY <1>6, SamePaid, SameFailed DEF Redistribute
  <2>2. DOMAIN shares' = DOMAIN shares /\ vector' = vector
    BY <1>6 DEF Redistribute, CapPass
  <2> QED
    BY <1>6, <2>1, <2>2 DEF Redistribute
<1>7. CASE Submit
  <2>1. Disqualified' = Disqualified /\ Paid' = Paid
    BY <1>7, SamePaid, SameFailed DEF Submit
  <2> QED
    BY <1>7, <2>1 DEF Submit, Emit
<1>8. CASE Restart
  <2>1. Disqualified' = Disqualified
    BY <1>8, SameFailed DEF Restart
  <2> QED
    BY <1>8, <2>1 DEF Restart, ForgetWeights
<1>9. CASE Abandon
  BY <1>9 DEF Abandon, weighing
<1>10. CASE NextDay
  BY <1>10 DEF NextDay, ForgetWeights, NewRound
<1>11. CASE UNCHANGED vars
  <2>1. Disqualified' = Disqualified /\ Paid' = Paid
    BY <1>11, SamePaid, SameFailed DEF vars
  <2> QED
    BY <1>11, <2>1 DEF vars, weighing
<1> QED
  BY <1>1, <1>2, <1>3, <1>4, <1>5, <1>6, <1>7, <1>8, <1>9, <1>10, <1>11 DEF Next

(* What the invariant keeps of a vector is what being paid promises.       *)
LEMMA IInvIsEarned == IInv => PaidIsEarned
<1> SUFFICES ASSUME IInv, NEW uid \in DOMAIN vector \ {burn_uid}
             PROVE  /\ uid \in DOMAIN attempts
                    /\ \A ch \in Challenges : FailedGates(uid, ch) = {}
                    /\ uid \in DOMAIN Today.standings
                    /\ Today.standings[uid].rolling > Today.floor
                    /\ Today.standings[uid].valid >= minimum_valid_challenges
  BY DEF PaidIsEarned
<1>1. stage = "weighed" /\ uid \in Paid
  BY DEF IInv, VectorOfPaid, Nobody
<1>2. /\ uid \in DOMAIN Today.standings
      /\ uid \notin Today.failed
      /\ Today.standings[uid].rolling > Today.floor
      /\ Today.standings[uid].valid >= minimum_valid_challenges
  BY <1>1 DEF Paid, Qualified, Qualifies, Candidates
<1>3. uid \in DOMAIN attempts \ {REFERENCE_UID} /\ uid \notin Disqualified
  BY <1>1, <1>2 DEF IInv, ListedRan, FailuresWritten
<1> QED
  BY <1>2, <1>3 DEF Disqualified

(* Whoever has a weight above zero ran, failed no gate on any challenge,   *)
(* and beat the reference by the document its round wrote.                 *)
THEOREM PaidHasEarnedIt == Spec => []PaidIsEarned
<1>1. Spec => []IInv
  BY IInvInit, IInvNext, PTL DEF Spec
<1> QED
  BY <1>1, IInvIsEarned, PTL

-----------------------------------------------------------------------------
(***************************************************************************)
(* What is in the documents and in score_round's hands is well-formed      *)
(***************************************************************************)

Standing == [daily : Shares, rolling : Shares, valid : 0 .. Len(Pack)]

IsDocument(document) ==
  /\ DOMAIN document = {"standings", "floor", "failed"}
  /\ document.failed \subseteq Entrants
  /\ document.floor \in Shares
  /\ \A uid \in DOMAIN document.standings : document.standings[uid] \in Standing

(* A document of this day lists nobody before the day is scored.           *)
Documents ==
  /\ day \in 1 .. MaxDay /\ day \in DOMAIN rounds /\ DOMAIN rounds \subseteq 1 .. MaxDay
  /\ \A d \in DOMAIN rounds : IsDocument(rounds[d])
  /\ stage \in {"idle", "executed", "screened", "judging"} => Today.standings = Nobody

AtWork == stage \in {"screened", "judging"}

(* A day's score of a laboratory that some document has                    *)
Written(uid, score) ==
  \E d \in DOMAIN rounds : /\ uid \in DOMAIN rounds[d].standings
                           /\ score = rounds[d].standings[uid].daily

Answered ==
  /\ DOMAIN ballots = Valid
  /\ \A r \in Valid : /\ DOMAIN ballots[r] = Criteria
                      /\ \A c \in Criteria : DOMAIN ballots[r][c] = Panels[c]

(* A family's verdict on two different laboratories of a set               *)
Verdict(uids) == {v \in [criterion : Criteria, family : Families(PinsFor),
                         slot_a : uids, slot_b : uids, winner : {"A", "B", "tie"}] :
                    v.slot_a # v.slot_b}

Verdicts ==
  /\ DOMAIN verdicts = Challenges
  /\ \A ch \in Challenges : verdicts[ch] \subseteq Verdict(cohort)

Histories ==
  \A uid \in DOMAIN history :
    /\ history[uid] \in Seq(Shares)
    /\ \A i \in DOMAIN history[uid] : Written(uid, history[uid][i])

Judgement ==
  /\ stage \in Stage
  /\ DOMAIN attempts \subseteq Entrants
  /\ cohort \subseteq DOMAIN attempts
  /\ bout \in (1 .. Len(Pack) + 1) \X (1 .. swiss_rounds + 1)
  /\ ~ AtWork => NothingJudged
  /\ stage = "screened" => cohort = {} /\ bout = <<1, 1>> /\ faced = {} /\ verdicts = NoVerdicts
  /\ AtWork => DOMAIN history = DOMAIN attempts /\ Answered
  /\ Histories
  /\ Verdicts

-----------------------------------------------------------------------------
(* What a response is measured to be *)

(* Registered laboratories and the reference one: finitely many uids.      *)
LEMMA EntrantsFinite == IsFiniteSet(Entrants) /\ Entrants \subseteq Int
  BY WeightsAssumption, RoundsAssumption, FS_AddElement DEF Entrants, REFERENCE_UID

(* A pack has finitely many challenges, each listed once or more.          *)
LEMMA PackFinite ==
  /\ IsFiniteSet(Challenges) /\ Len(Pack) \in Nat /\ DOMAIN Pack = 1 .. Len(Pack)
  /\ Cardinality(Challenges) \in 0 .. Len(Pack)
<1>1. Len(Pack) \in Nat /\ DOMAIN Pack = 1 .. Len(Pack)
  BY RoundsAssumption
<1>2. IsFiniteSet(DOMAIN Pack) /\ Cardinality(DOMAIN Pack) = Len(Pack)
  <2>1. PICK n \in Nat : n = Len(Pack)
    BY <1>1
  <2>2. IsFiniteSet(1 .. n) /\ Cardinality(1 .. n) = n
    BY FS_Interval
  <2>. QED
    BY <1>1, <2>1, <2>2
<1>3. IsFiniteSet(Challenges) /\ Cardinality(Challenges) <= Len(Pack)
  BY <1>2, FiniteRange DEF Challenges
<1>. QED
  BY <1>1, <1>3, FS_CardinalityType

(* A comparison's place is a share                                         *)
LEMMA ComparedType ==
  ASSUME Judgement, NEW r \in Valid
  PROVE  Within(Compared(r), 0, PPM)
<1> SUFFICES ASSUME NEW c \in DOMAIN Compared(r)
             PROVE  Compared(r)[c] \in Shares
  BY FixedPointAssumption DEF Within, Shares
<1> DEFINE ch == r[2]
           pairings == CombineOrders(Cast(ch, c))
<1>1. ch \in Challenges
  BY DEF Valid
<1>2. c \in Criteria /\ r[1] \in DOMAIN Strengths(ch, c)
      /\ Compared(r)[c] = Strengths(ch, c)[r[1]]
  BY DEF Compared
<1>3. Cast(ch, c) # {}
  BY <1>2 DEF Strengths, Nobody
<1>4. Strengths(ch, c) = StrengthsToPpm(Fitted(pairings))
  BY <1>3 DEF Strengths
<1>5. Competitors(pairings) \subseteq cohort
  <2>1. \A p \in pairings : \E v \in verdicts[ch] : p.pair = {v.slot_a, v.slot_b}
    BY DEF CombineOrders, Cast, Pair
  <2>2. \A v \in verdicts[ch] : v.slot_a \in cohort /\ v.slot_b \in cohort
    BY <1>1 DEF Judgement, Verdicts, Verdict
  <2> HIDE DEF pairings
  <2>. QED
    BY <2>1, <2>2 DEF Competitors
<1>6. IsFiniteSet(Competitors(pairings))
  BY <1>5, EntrantsFinite, FS_Subset DEF Judgement
<1>7. DOMAIN Fitted(pairings) = Competitors(pairings)
  BY DEF Fitted
<1>8. DOMAIN StrengthsToPpm(Fitted(pairings)) = DOMAIN Fitted(pairings)
  BY DEF StrengthsToPpm
<1> HIDE DEF pairings
<1>. QED
  BY <1>2, <1>4, <1>6, <1>7, <1>8, PlaceType

(* The panels' scores lie between the votes, the places are among what was *)
(* measured, and all of it is shares.                                      *)
LEMMA MeasuredWithin ==
  ASSUME Judgement, AtWork, NEW r \in Valid
  PROVE  /\ Measurements(r) \subseteq Shares
         /\ Measurements(r) = {} => Measured(Screened(r), Compared(r)) = {}
         /\ Measured(Screened(r), Compared(r)) = {} => Measurements(r) = {}
         /\ \A lo, hi \in Int :
              (\A m \in Measurements(r) : lo <= m /\ m <= hi)
                => Within(Screened(r), lo, hi) /\ Within(Compared(r), lo, hi)
<1> DEFINE point == Screened(r)
<1>1. /\ r \in DOMAIN ballots /\ DOMAIN ballots[r] = Criteria
      /\ \A c \in Criteria : DOMAIN ballots[r][c] = Panels[c]
  BY DEF Judgement, Answered
<1>2. \A c \in Criteria : IsFiniteSet(DOMAIN ballots[r][c])
  BY <1>1, JudgingAssumption
<1>3. /\ DOMAIN point = {c \in Criteria : Voted(ballots[r][c]) # {}}
      /\ \A c \in DOMAIN point : point[c] = Aggregate(ballots[r][c])
  BY <1>1 DEF Screened, ScreenOne
<1>4. \A m : m \in Measurements(r) <=> \/ \E c \in Criteria : m \in Votes(r, c)
                                       \/ m \in Range(Compared(r))
  <2> DEFINE U == {Votes(r, c) : c \in DOMAIN ballots[r]}
  <2>2. Measurements(r) = (UNION U) \cup Range(Compared(r))
    BY DEF Measurements
  <2>3. \A S : S \in U <=> \E c \in Criteria : S = Votes(r, c)
    BY <1>1
  <2> HIDE DEF U
  <2>4. \A m : m \in UNION U <=> \E c \in Criteria : m \in Votes(r, c)
    BY <2>3
  <2>. QED
    BY <2>2, <2>4
<1>5. \A c \in Criteria : Votes(r, c) \subseteq Shares
  BY AnchorType DEF Voted, Votes
<1>6. Range(Compared(r)) \subseteq Shares
  BY ComparedType, FixedPointAssumption DEF Within, Range, Shares
<1>7. \A c \in Criteria : Votes(r, c) = {} <=> Voted(ballots[r][c]) = {}
  BY DEF Votes
<1>8. Range(Compared(r)) = {} <=> DOMAIN Compared(r) = {}
  BY DEF Range
<1>9. ASSUME NEW lo \in Int, NEW hi \in Int,
             \A m \in Measurements(r) : lo <= m /\ m <= hi
      PROVE  Within(point, lo, hi) /\ Within(Compared(r), lo, hi)
  <2>1. ASSUME NEW c \in DOMAIN point
        PROVE  point[c] \in Int /\ lo <= point[c] /\ point[c] <= hi
    <3>1. c \in Criteria /\ Voted(ballots[r][c]) # {} /\ point[c] = Aggregate(ballots[r][c])
      BY <1>3
    <3>2. \A m \in Votes(r, c) : lo <= m /\ m <= hi
      BY <1>4, <1>9, <3>1
    <3>3. PICK replies : replies = ballots[r][c]
      OBVIOUS
    <3>4. \A judge \in Voted(replies) :
            lo <= ANCHOR_PPM[replies[judge]] /\ ANCHOR_PPM[replies[judge]] <= hi
      BY <3>2, <3>3 DEF Votes
    <3>. QED
      BY <1>2, <3>1, <3>3, <3>4, AggregateWithin
  <2>2. ASSUME NEW c \in DOMAIN Compared(r)
        PROVE  Compared(r)[c] \in Int /\ lo <= Compared(r)[c] /\ Compared(r)[c] <= hi
    <3>1. Compared(r)[c] \in Range(Compared(r))
      BY DEF Range
    <3>2. Compared(r)[c] \in Measurements(r) /\ Compared(r)[c] \in Shares
      BY <1>4, <1>6, <3>1
    <3>3. lo <= Compared(r)[c] /\ Compared(r)[c] <= hi
      BY <1>9, <3>2
    <3>4. Shares \subseteq Int
      BY DEF Shares
    <3>. QED
      BY <3>2, <3>3, <3>4
  <2>. QED
    BY <2>1, <2>2 DEF Within
<1> HIDE DEF point
<1>10. Measurements(r) \subseteq Shares
  BY <1>4, <1>5, <1>6
<1>11. Measurements(r) = {} <=> DOMAIN point \cup DOMAIN Compared(r) = {}
  <2>1. Measurements(r) = {} <=> /\ \A c \in Criteria : Votes(r, c) = {}
                                 /\ Range(Compared(r)) = {}
    BY <1>4
  <2>2. DOMAIN point = {} <=> \A c \in Criteria : Votes(r, c) = {}
    BY <1>3, <1>7
  <2>. QED
    BY <1>8, <2>1, <2>2
<1>. QED
  BY <1>9, <1>10, <1>11 DEF Measured, point

(* What a challenge is scored lies between what was measured, but for the  *)
(* roundings and the cap on a weak mechanism.                              *)
LEMMA ResponseScored ==
  ASSUME Judgement, AtWork, NEW r \in Valid, Scoreable(Screened(r), Compared(r)),
         NEW lo \in Shares, NEW hi \in Shares,
         \A m \in Measurements(r) : lo <= m /\ m <= hi,
         NEW low \in Shares, low <= lo, low <= capped_on_weak_mechanism_ppm
  PROVE  LET score == ChallengeScore(Screened(r), Compared(r))
         IN  score \in Shares /\ score <= hi /\ low - 1 <= score
<1>1. lo \in Int /\ hi \in Int
  BY DEF Shares
<1>2. Within(Screened(r), lo, hi) /\ Within(Compared(r), lo, hi)
  BY <1>1, MeasuredWithin
<1>. QED
  BY <1>2, ChallengeWithin

(* Whatever is scored of a laboratory is a share                           *)
LEMMA ChallengesScored ==
  ASSUME Judgement, AtWork, NEW uid
  PROVE  /\ DOMAIN PerChallenge(uid) \subseteq Challenges
         /\ IsFiniteSet(DOMAIN PerChallenge(uid))
         /\ Within(PerChallenge(uid), 0, PPM)
         /\ PerChallenge(uid) # Nobody => DOMAIN PerChallenge(uid) # {}
<1>1. DOMAIN PerChallenge(uid) \subseteq Challenges
  BY DEF PerChallenge
<1>2. IsFiniteSet(DOMAIN PerChallenge(uid))
  BY <1>1, PackFinite, FS_Subset
<1>3. ASSUME NEW ch \in DOMAIN PerChallenge(uid)
      PROVE  PerChallenge(uid)[ch] \in Shares
  <2>1. PICK r : r = <<uid, ch>>
    OBVIOUS
  <2>2. /\ r \in Valid /\ Scoreable(Screened(r), Compared(r))
        /\ PerChallenge(uid)[ch] = ChallengeScore(Screened(r), Compared(r))
    BY <2>1 DEF PerChallenge
  <2>3. 0 \in Shares /\ PPM \in Shares /\ 0 <= capped_on_weak_mechanism_ppm
    BY FixedPointAssumption, ScoringAssumption DEF Shares
  <2>4. \A m \in Measurements(r) : 0 <= m /\ m <= PPM
    BY <2>2, MeasuredWithin DEF Shares
  <2>. QED
    BY <2>2, <2>3, <2>4, ResponseScored
<1>4. Within(PerChallenge(uid), 0, PPM)
  BY <1>3, FixedPointAssumption DEF Within, Shares
<1>5. PerChallenge(uid) # Nobody => DOMAIN PerChallenge(uid) # {}
  BY DEF PerChallenge, Nobody
<1>. QED
  BY <1>1, <1>2, <1>4, <1>5

(* A laboratory's standing, and what its rolling score was made of         *)
LEMMA LabScored ==
  ASSUME Judgement, AtWork, NEW uid \in DOMAIN attempts
  PROVE  /\ LabScore(uid) \in Standing
         /\ LabScore(uid).valid > 0 =>
              \A lo, hi \in Shares :
                (/\ lo <= LabScore(uid).daily /\ LabScore(uid).daily <= hi
                 /\ \A i \in DOMAIN history[uid] : lo <= history[uid][i] /\ history[uid][i] <= hi)
                  => LabScore(uid).rolling <= hi /\ lo - 1 <= LabScore(uid).rolling
<1>1. CASE PerChallenge(uid) = Nobody
  <2>1. LabScore(uid) = [daily |-> 0, rolling |-> 0, valid |-> 0]
    BY <1>1 DEF LabScore
  <2>2. 0 \in Shares /\ 0 \in 0 .. Len(Pack)
    BY PackFinite, FixedPointAssumption DEF Shares
  <2>. QED
    BY <2>1, <2>2 DEF Standing
<1>2. CASE PerChallenge(uid) # Nobody
  <2>1. PICK scores : scores = PerChallenge(uid)
    OBVIOUS
  <2>2. /\ DOMAIN scores \subseteq Challenges /\ Listed(scores) /\ Within(scores, 0, PPM)
    BY <1>2, <2>1, ChallengesScored DEF Listed
  <2>3. PICK today : today = DailyScore(scores)
    OBVIOUS
  <2>4. today \in Shares
    BY <2>2, <2>3, DailyType
  <2>5. PICK valid : valid = Cardinality(DOMAIN scores)
    OBVIOUS
  <2>6. valid \in 0 .. Len(Pack)
    <3>1. valid \in Nat /\ Cardinality(DOMAIN scores) <= Cardinality(Challenges)
      BY <2>2, <2>5, PackFinite, FS_Subset, FS_CardinalityType DEF Listed
    <3>. QED
      BY <2>5, <3>1, PackFinite
  <2>7. PICK past : past = history[uid]
    OBVIOUS
  <2>8. past \in Seq(Shares)
    BY <2>7 DEF Judgement, Histories
  <2>9. PICK n \in Nat \ {0} : n = Len(past) + 1
    BY <2>8
  <2>10. PICK days : days = Append(past, today)
    OBVIOUS
  <2>11. /\ DOMAIN days = 1 .. n /\ Len(days) = n
         /\ \A i \in 1 .. n : days[i] = IF i = n THEN today ELSE past[i]
         /\ \A i \in 1 .. n : i # n => i \in DOMAIN past
         /\ \A i \in DOMAIN past : past[i] \in Shares
    BY <2>4, <2>8, <2>9, <2>10
  <2>12. LabScore(uid) = [daily |-> today, rolling |-> RollingScore(days), valid |-> valid]
    BY <1>2, <2>1, <2>3, <2>5, <2>7, <2>10 DEF LabScore
  <2>13. \A i \in 1 .. n : days[i] \in Shares
    BY <2>4, <2>11
  <2>14. ASSUME NEW lo \in Shares, NEW hi \in Shares, lo <= today, today <= hi,
                \A i \in DOMAIN past : lo <= past[i] /\ past[i] <= hi
         PROVE  RollingScore(days) <= hi /\ lo - 1 <= RollingScore(days)
    <3>1. \A i \in 1 .. n : lo <= days[i] /\ days[i] <= hi
      BY <2>11, <2>14
    <3>2. Within(days, lo, hi)
      BY <2>11, <2>13, <3>1 DEF Within, Shares
    <3>. QED
      BY <2>11, <3>2, RollingWithin
  <2>15. RollingScore(days) \in Shares
    <3>1. 0 \in Shares /\ PPM \in Shares
      BY FixedPointAssumption DEF Shares
    <3>2. Within(days, 0, PPM)
      BY <2>11, <2>13, FixedPointAssumption DEF Within, Shares
    <3>. QED
      BY <2>11, <3>1, <3>2, RollingWithin
  <2>16. LabScore(uid) \in Standing
    BY <2>4, <2>6, <2>12, <2>15 DEF Standing
  <2>. QED
    BY <2>7, <2>12, <2>14, <2>16
<1>. QED
  BY <1>1, <1>2

-----------------------------------------------------------------------------
(* What a day's scores are between *)

(* Least and greatest of a set of shares exist: there are finitely many.   *)
LEMMA SharesFinite == IsFiniteSet(Shares)
  BY FixedPointAssumption, FS_Interval DEF Shares

(* Min and Max pick a least and a greatest of what there is.               *)
LEMMA MinMax ==
  ASSUME NEW S, S \subseteq Shares, S # {}
  PROVE  /\ Min(S) \in S /\ \A x \in S : Min(S) <= x
         /\ Max(S) \in S /\ \A x \in S : x <= Max(S)
<1>1. IsFiniteSet(S) /\ S \subseteq Int
  <2>1. IsFiniteSet(S)
    BY SharesFinite, FS_Subset
  <2>. QED
    BY <2>1 DEF Shares
<1>2. /\ \E m \in S : \A x \in S : m <= x
      /\ \E m \in S : \A x \in S : x <= m
  BY <1>1, LeastAndGreatest
<1>3. \E m \in S : \A x \in S : m >= x
  BY <1>1, <1>2
<1>4. Max(S) \in S /\ \A x \in S : Max(S) >= x
  BY <1>3, Zenon DEF Max
<1>5. Min(S) \in S /\ \A x \in S : Min(S) <= x
  BY <1>2, Zenon DEF Min
<1>. QED
  BY <1>1, <1>4, <1>5

(* Whoever was measured on something is scored within it, and whoever was  *)
(* not is in no score: one criterion at a time, then weighted.             *)
LEMMA AbsenceCostsNothing == Judgement => AbsenceIsNotZero
<1> SUFFICES ASSUME Judgement, Judged, Weighable,
                    NEW uid \in DOMAIN attempts, NEW ch \in Challenges, <<uid, ch>> \in Valid
             PROVE  LET scores   == PerChallenge(uid)
                        measured == Measurements(<<uid, ch>>)
                    IN  IF measured = {} THEN ch \notin DOMAIN scores
                        ELSE /\ scores[ch] <= Max(measured)
                             /\ scores[ch] >= Min(measured \cup {capped_on_weak_mechanism_ppm}) - 1
  BY DEF AbsenceIsNotZero
<1>1. AtWork
  BY DEF Judged, AtWork
<1>2. PICK r \in Valid : r = <<uid, ch>>
  OBVIOUS
<1>3. PICK measured : measured = Measurements(r)
  OBVIOUS
<1>4. /\ ch \in DOMAIN PerChallenge(uid) <=> Scoreable(Screened(r), Compared(r))
      /\ ch \in DOMAIN PerChallenge(uid) =>
           PerChallenge(uid)[ch] = ChallengeScore(Screened(r), Compared(r))
  BY <1>2 DEF PerChallenge
<1>5. measured \subseteq Shares
  BY <1>1, <1>3, MeasuredWithin
<1>6. CASE measured = {}
  <2>1. Measured(Screened(r), Compared(r)) = {}
    BY <1>1, <1>3, <1>6, MeasuredWithin
  <2>2. ~ Scoreable(Screened(r), Compared(r))
    BY <2>1, SumEmpty DEF Scoreable
  <2>. QED
    BY <1>2, <1>3, <1>4, <1>6, <2>2
<1>7. CASE measured # {}
  <2>1. Scoreable(Screened(r), Compared(r))
    BY <1>1, <1>3, <1>7, MeasuredWithin DEF Weighable
  <2>2. PICK hi : hi = Max(measured)
    OBVIOUS
  <2>3. PICK lo : lo = Min(measured)
    OBVIOUS
  <2>4. hi \in Shares /\ lo \in Shares /\ \A m \in measured : lo <= m /\ m <= hi
    BY <1>5, <1>7, <2>2, <2>3, MinMax
  <2>5. PICK all : all = measured \cup {capped_on_weak_mechanism_ppm}
    OBVIOUS
  <2>6. all \subseteq Shares /\ all # {}
    BY <1>5, <2>5, ScoringAssumption
  <2>7. PICK low : low = Min(all)
    OBVIOUS
  <2>8. low \in Shares /\ low <= lo /\ low <= capped_on_weak_mechanism_ppm
    BY <1>5, <1>7, <2>3, <2>5, <2>6, <2>7, MinMax
  <2>9. LET score == ChallengeScore(Screened(r), Compared(r))
        IN  score \in Shares /\ score <= hi /\ low - 1 <= score
    BY <1>1, <1>3, <2>1, <2>4, <2>8, ResponseScored
  <2>10. PICK score : score = PerChallenge(uid)[ch]
    OBVIOUS
  <2>11. score \in Shares /\ score <= hi /\ low - 1 <= score
    BY <1>4, <2>1, <2>9, <2>10
  <2>12. score >= low - 1
    BY <2>8, <2>11 DEF Shares
  <2>. QED
    BY <1>2, <1>3, <1>7, <2>2, <2>5, <2>7, <2>10, <2>11, <2>12
<1>. QED
  BY <1>6, <1>7

-----------------------------------------------------------------------------
(* Every step keeps them well-formed *)

(* Which responses are valid is decided by EXECUTE alone.                  *)
LEMMA SameValid ==
  ASSUME UNCHANGED attempts
  PROVE  Valid' = Valid
<1>1. \A uid, ch : FailedGates(uid, ch)' = FailedGates(uid, ch)
  BY DEF FailedGates
<1>. QED
  BY <1>1 DEF Valid

(* Nothing has been executed, judged or written down at the start.         *)
LEMMA WellFormedInit == Init => Documents /\ Judgement
<1> SUFFICES ASSUME Init PROVE Documents /\ Judgement
  OBVIOUS
<1> USE DEF Init, NothingJudged
<1>1. 0 \in Shares
  BY FixedPointAssumption DEF Shares
<1>2. IsDocument(NewRound)
  BY <1>1 DEF IsDocument, NewRound, Nobody
<1>3. Documents
  BY <1>2, RoundsAssumption DEF Documents, Today, NewRound
<1>4. <<1, 1>> \in (1 .. Len(Pack) + 1) \X (1 .. swiss_rounds + 1)
  BY PackFinite, RoundsAssumption
<1>5. Judgement
  BY <1>4 DEF Judgement, Stage, AtWork, Histories, Verdicts, NoVerdicts, Nobody
<1>. QED
  BY <1>3, <1>5

(* A document that is rewritten in some parts keeps the others             *)
LEMMA DocumentRewritten ==
  ASSUME \A d \in DOMAIN rounds : IsDocument(rounds[d]), day \in DOMAIN rounds,
         NEW s, \A uid \in DOMAIN s : s[uid] \in Standing, NEW f \in Shares,
         NEW k, k \subseteq Entrants
  PROVE  /\ LET after == [rounds EXCEPT ![day].standings = s, ![day].floor = f]
            IN  /\ DOMAIN after = DOMAIN rounds
                /\ \A d \in DOMAIN rounds : IsDocument(after[d])
         /\ LET after == [rounds EXCEPT ![day].failed = k]
            IN  /\ DOMAIN after = DOMAIN rounds
                /\ \A d \in DOMAIN rounds : IsDocument(after[d])
                /\ after[day].standings = rounds[day].standings
  BY DEF IsDocument

(* Only Reduce writes scores into a document, and no step takes a          *)
(* laboratory out of one.                                                  *)
LEMMA DocumentsNext == Documents /\ Judgement /\ [Next]_vars => Documents'
<1> SUFFICES ASSUME Documents, Judgement, [Next]_vars PROVE Documents'
  OBVIOUS
<1>1. CASE Execute
  <2>1. PICK k : k = Disqualified' \ {REFERENCE_UID}
    OBVIOUS
  <2>2. k \subseteq Entrants
    BY <1>1, <2>1, RoundsAssumption DEF Execute, Disqualified
  <2>3. rounds' = [rounds EXCEPT ![day].failed = k] /\ day' = day /\ stage' = "executed"
        /\ stage = "idle"
    BY <1>1, <2>1 DEF Execute
  <2>4. 0 \in Shares /\ \A uid \in DOMAIN Nobody : Nobody[uid] \in Standing
    BY FixedPointAssumption DEF Shares, Nobody
  <2>5. /\ DOMAIN rounds' = DOMAIN rounds
        /\ \A d \in DOMAIN rounds : IsDocument(rounds'[d])
        /\ rounds'[day].standings = rounds[day].standings
    BY <2>2, <2>3, <2>4, DocumentRewritten DEF Documents
  <2>. QED
    BY <2>3, <2>5 DEF Documents, Today, IsDocument
<1>2. CASE ScoreNothing \/ Reduce
  <2>1. PICK s, f : rounds' = [rounds EXCEPT ![day].standings = s, ![day].floor = f]
                    /\ f \in Shares /\ \A uid \in DOMAIN s : s[uid] \in Standing
    <3>0. 0 \in Shares /\ 0 \in 0 .. Len(Pack)
      BY FixedPointAssumption, PackFinite DEF Shares
    <3>1. CASE ScoreNothing
      <4>1. \A uid \in DOMAIN EmptyLabs : EmptyLabs[uid] \in Standing
        BY <3>0 DEF EmptyLabs, Standing
      <4>. QED
        BY <3>0, <3>1, <4>1 DEF ScoreNothing
    <3>2. CASE Reduce
      <4>1. AtWork
        BY <3>2 DEF Reduce, Judged, AtWork
      <4>2. \A uid \in DOMAIN attempts : LabScore(uid) \in Standing
        BY <4>1, LabScored
      <4>3. \A uid \in DOMAIN Standings : Standings[uid] \in Standing
        BY <4>2 DEF Standings
      <4>4. ReferenceFloor \in Shares
        BY <3>0, <4>2 DEF ReferenceFloor, Standing
      <4>. QED
        BY <3>2, <4>3, <4>4 DEF Reduce
    <3>. QED
      BY <1>2, <3>1, <3>2
  <2>2. day' = day /\ stage' = "scored"
    BY <1>2 DEF ScoreNothing, Reduce
  <2>3. /\ DOMAIN rounds' = DOMAIN rounds
        /\ \A d \in DOMAIN rounds : IsDocument(rounds'[d])
    BY <2>1, DocumentRewritten DEF Documents
  <2>. QED
    BY <2>2, <2>3 DEF Documents, IsDocument
<1>3. CASE UNCHANGED <<day, rounds>> /\ (stage' \in {"screened", "judging", "executed"}
                                           => stage \in {"executed", "screened", "judging"})
           /\ (stage' = "idle" => stage = "idle")
  BY <1>3 DEF Documents, Today, IsDocument
<1>4. CASE NextDay
  <2>1. PICK d \in day + 1 .. MaxDay :
          /\ day' = d
          /\ rounds' = [k \in Recent(TRUE) \cup {d} |-> IF k = d THEN NewRound ELSE Past(rounds[k])]
    BY <1>4 DEF NextDay
  <2>2. Recent(TRUE) \subseteq DOMAIN rounds
    BY DEF Recent
  <2>3. d \in 1 .. MaxDay
    BY RoundsAssumption DEF Documents
  <2>4. 0 \in Shares /\ 0 \in 0 .. Len(Pack)
    BY FixedPointAssumption, PackFinite DEF Shares
  <2>5. IsDocument(NewRound)
    BY <2>4 DEF IsDocument, NewRound, Nobody
  <2>6. ASSUME NEW k \in DOMAIN rounds
        PROVE  IsDocument(Past(rounds[k]))
    <3>1. PICK document : document = rounds[k] /\ IsDocument(document)
      BY DEF Documents
    <3>2. PICK s : s = [uid \in DOMAIN document.standings |->
                          [daily |-> document.standings[uid].daily, rolling |-> 0, valid |-> 0]]
      OBVIOUS
    <3>3. \A uid \in DOMAIN s : s[uid] \in Standing
      BY <2>4, <3>1, <3>2 DEF IsDocument, Standing
    <3>4. Past(document) = [NewRound EXCEPT !.standings = s]
      BY <3>2 DEF Past
    <3>. QED
      BY <2>4, <3>1, <3>3, <3>4 DEF IsDocument, NewRound
  <2>7. \A k \in DOMAIN rounds' : IsDocument(rounds'[k])
    BY <2>1, <2>2, <2>5, <2>6
  <2>8. rounds'[day'].standings = Nobody
    BY <2>1 DEF NewRound
  <2>9. day' \in 1 .. MaxDay /\ day' \in DOMAIN rounds' /\ DOMAIN rounds' \subseteq 1 .. MaxDay
    BY <2>1, <2>2, <2>3 DEF Documents
  <2>. QED
    BY <2>7, <2>8, <2>9 DEF Documents, Today, IsDocument
<1>. QED
  <2>1. CASE ScreenAll \/ SelectCohort \/ Tournament
    BY <2>1, <1>3 DEF ScreenAll, SelectCohort, Tournament
  <2>2. CASE Allocate \/ Redistribute \/ Submit \/ Restart \/ Abandon
    BY <2>2, <1>3 DEF Allocate, Redistribute, Submit, Restart, Abandon
  <2>3. CASE UNCHANGED vars
    BY <2>3, <1>3 DEF vars
  <2>. QED
    BY <1>1, <1>2, <1>4, <2>1, <2>2, <2>3 DEF Next

(* A laboratory's history is what the documents say of its earlier days.   *)
LEMMA HistoryRead ==
  ASSUME Documents, NEW opened, NEW uid \in DOMAIN attempts
  PROVE  /\ HistoryFor(opened)[uid] \in Seq(Shares)
         /\ \A i \in DOMAIN HistoryFor(opened)[uid] : Written(uid, HistoryFor(opened)[uid][i])
<1>1. PICK S : S = ScoredDays(uid, opened)
  OBVIOUS
<1>2. S \subseteq DOMAIN rounds /\ \A d \in S : uid \in DOMAIN rounds[d].standings
  BY <1>1 DEF ScoredDays, Recent
<1>3. S \subseteq 1 .. MaxDay
  BY <1>2 DEF Documents
<1>4. IsFiniteSet(S) /\ S \subseteq Int
  <2>1. IsFiniteSet(1 .. MaxDay)
    BY RoundsAssumption, FS_Interval
  <2>2. IsFiniteSet(S)
    BY <1>3, <2>1, FS_Subset
  <2>. QED
    BY <1>3, <2>2, RoundsAssumption
<1>n. PICK n \in Nat : n = Cardinality(S)
  BY <1>4, SortedIn
<1>5. PICK days : days = InOrder(S, <) /\ days \in [1 .. n -> S]
  BY <1>4, <1>n, SortedIn
<1>6. PICK past : past = HistoryFor(opened)[uid]
  OBVIOUS
<1>7. past = [i \in 1 .. n |-> rounds[days[i]].standings[uid].daily]
  BY <1>1, <1>n, <1>5, <1>6 DEF HistoryFor
<1>8. ASSUME NEW i \in 1 .. n
      PROVE  past[i] \in Shares /\ Written(uid, past[i])
  <2>1. PICK d : d = days[i] /\ d \in S
    BY <1>5
  <2>2. past[i] = rounds[d].standings[uid].daily
    BY <1>7, <2>1
  <2>3. rounds[d].standings[uid] \in Standing
    BY <1>2, <2>1 DEF Documents, IsDocument
  <2>. QED
    BY <1>2, <2>1, <2>2, <2>3 DEF Written, Standing
<1>. QED
  <2>1. past \in [1 .. n -> Shares]
    BY <1>7, <1>8
  <2>2. past \in Seq(Shares) /\ DOMAIN past = 1 .. n
    BY <2>1
  <2>. QED
    BY <1>6, <1>8, <2>2

(* Whoever is compared ran.                                                *)
LEMMA CohortRan ==
  ASSUME NEW drawn \in SUBSET Remaining
  PROVE  Top \cup Newcomers \cup drawn \subseteq DOMAIN attempts
<1>1. DOMAIN Averaged \subseteq DOMAIN attempts
  BY DEF Averaged
<1>2. Top \subseteq DOMAIN Averaged
  BY DEF Top, FirstOf
<1>3. Newcomers \subseteq DOMAIN attempts
  BY DEF Newcomers, FirstOf
<1>. QED
  BY <1>1, <1>2, <1>3 DEF Remaining

(* A verdict is on two different laboratories of the pair it was asked for *)
LEMMA VerdictOnPair ==
  ASSUME NEW pair, NEW replies
  PROVE  ComparePair(pair, replies) \subseteq Verdict(pair)
<1>1. PICK orders : orders = {o \in pair \X pair : o[1] # o[2]}
  OBVIOUS
<1> SUFFICES ASSUME NEW v \in ComparePair(pair, replies)
             PROVE  v \in Verdict(pair)
  OBVIOUS
<1>2. PICK s : /\ s \in {<<c, judge.family, order[1], order[2]>> :
                          c \in Criteria, judge \in PinsFor, order \in orders}
               /\ v = [criterion |-> s[1], family |-> s[2], slot_a |-> s[3], slot_b |-> s[4],
                       winner |-> replies[s]]
               /\ replies[s] \in {"A", "B", "tie"}
  BY <1>1 DEF ComparePair
<1>3. PICK c \in Criteria, judge \in PinsFor, order \in orders :
        s = <<c, judge.family, order[1], order[2]>>
  BY <1>2
<1>4. judge.family \in Families(PinsFor)
  BY DEF Families
<1>5. order[1] \in pair /\ order[2] \in pair /\ order[1] # order[2]
  BY <1>1
<1>. QED
  BY <1>2, <1>3, <1>4, <1>5 DEF Verdict

(* Pairs are made of those who are in the cohort and have a valid response *)
LEMMA PairsPresent ==
  ASSUME Judgement, NEW ch
  PROVE  LET present == InOrder(Present(ch), <)
             pairs   == SwissPairings([i \in DOMAIN present |-> <<present[i], PPM \div 2>>], faced)
         IN  \A p \in pairs : p \subseteq cohort
<1>1. PICK S : S = Present(ch)
  OBVIOUS
<1>2. S \subseteq cohort
  BY <1>1 DEF Present
<1>3. IsFiniteSet(S) /\ S \subseteq Int
  BY <1>2, EntrantsFinite, FS_Subset DEF Judgement
<1>n. PICK n \in Nat : n = Cardinality(S)
  BY <1>3, SortedIn
<1>4. PICK present : present = InOrder(S, <) /\ present \in [1 .. n -> S]
  BY <1>3, <1>n, SortedIn
<1>5. PICK level : level = PPM \div 2 /\ level \in Int
  BY FixedPointAssumption
<1>6. PICK standings : standings = [i \in DOMAIN present |-> <<present[i], level>>]
  OBVIOUS
<1>7. IsFiniteSet(DOMAIN standings)
  <2>1. IsFiniteSet(1 .. n)
    BY FS_Interval
  <2>. QED
    BY <1>4, <1>6, <2>1
<1>8. \A s \in Range(standings) : s \in Int \X Int /\ s[1] \in S
  <2>1. \A s \in Range(standings) : \E i \in 1 .. n : s = <<present[i], level>>
    BY <1>4, <1>6 DEF Range
  <2>2. \A i \in 1 .. n : present[i] \in S /\ present[i] \in Int
    BY <1>3, <1>4
  <2>. QED
    BY <1>5, <2>1, <2>2
<1>9. \A p \in SwissPairings(standings, faced) : p \subseteq {s[1] : s \in Range(standings)}
  BY <1>7, <1>8, SwissIn
<1>10. \A p \in SwissPairings(standings, faced) : p \subseteq cohort
  BY <1>2, <1>8, <1>9
<1>. QED
  BY <1>1, <1>4, <1>5, <1>6, <1>10

(* A round of the tournament adds verdicts on pairs of the cohort alone.   *)
LEMMA TournamentKeeps == Judgement /\ Tournament => Judgement'
<1> SUFFICES ASSUME Judgement, Tournament PROVE Judgement'
  OBVIOUS
<1>1. /\ stage = "judging" /\ stage' = stage /\ AtWork /\ AtWork'
      /\ attempts' = attempts /\ history' = history /\ ballots' = ballots
      /\ cohort' = cohort /\ rounds' = rounds /\ bout[1] <= Len(Pack)
  BY DEF Tournament, AtWork
<1>2. Valid' = Valid
  BY <1>1, SameValid
<1>3. PICK n \in Nat : n = Len(Pack)
  BY PackFinite
<1>4. PICK i \in 1 .. n, j \in 1 .. swiss_rounds + 1 : bout = <<i, j>>
  BY <1>1, <1>3, RoundsAssumption DEF Judgement
<1> DEFINE ch      == Pack[bout[1]]
           present == InOrder(Present(ch), <)
           pairs   == SwissPairings([k \in DOMAIN present |-> <<present[k], PPM \div 2>>], faced)
           new(replies) == UNION {ComparePair(pair, replies) : pair \in pairs}
<1>5. \A p \in pairs : p \subseteq cohort
  BY PairsPresent
<1>6. \/ bout' = <<bout[1] + 1, 1>> /\ UNCHANGED verdicts
      \/ /\ ~ (bout[2] > swiss_rounds)
         /\ bout' = <<bout[1], bout[2] + 1>>
         /\ \E replies \in Replies(pairs) : verdicts' = [verdicts EXCEPT ![ch] = @ \cup new(replies)]
  BY Zenon DEF Tournament
<1>7. bout' = <<i + 1, 1>> \/ (j <= swiss_rounds /\ bout' = <<i, j + 1>>)
  BY <1>4, <1>6, RoundsAssumption
<1>8. bout' \in (1 .. Len(Pack) + 1) \X (1 .. swiss_rounds + 1)
  BY <1>3, <1>4, <1>7, RoundsAssumption
<1> HIDE DEF ch, present, pairs
<1>9. Verdicts'
  <2>1. CASE verdicts' = verdicts
    BY <1>1, <2>1 DEF Judgement, Verdicts
  <2>2. ASSUME NEW replies, verdicts' = [verdicts EXCEPT ![ch] = @ \cup new(replies)]
        PROVE  Verdicts'
    <3>1. PICK cast : cast = new(replies)
      OBVIOUS
    <3>2. cast \subseteq Verdict(cohort)
      <4>1. \A p \in pairs : ComparePair(p, replies) \subseteq Verdict(cohort)
        BY <1>5, VerdictOnPair DEF Verdict
      <4>. QED
        BY <3>1, <4>1
    <3>3. /\ DOMAIN verdicts' = DOMAIN verdicts
          /\ \A k \in DOMAIN verdicts : verdicts'[k] \subseteq verdicts[k] \cup cast
      BY <2>2, <3>1
    <3>. QED
      BY <1>1, <3>2, <3>3 DEF Judgement, Verdicts
  <2>. QED
    BY <1>6, <2>1, <2>2
<1>10. Histories' /\ Answered'
  BY <1>1, <1>2 DEF Judgement, Histories, Answered, Written
<1>. QED
  BY <1>1, <1>8, <1>9, <1>10 DEF Judgement

(* Each stage of SCORE leaves what the next one reads well-formed.         *)
LEMMA JudgementNext == Documents /\ Judgement /\ [Next]_vars => Judgement'
<1> SUFFICES ASSUME Documents, Judgement, [Next]_vars PROVE Judgement'
  OBVIOUS
<1>0. <<1, 1>> \in (1 .. Len(Pack) + 1) \X (1 .. swiss_rounds + 1)
  BY PackFinite, RoundsAssumption
<1>1. CASE Execute
  BY <1>1, RoundsAssumption
  DEF Execute, Judgement, judging, AtWork, NothingJudged, Stage, Histories, Verdicts, Nobody, NoVerdicts
<1>2. CASE ForgetJudging /\ attempts' = attempts /\ stage' \in {"executed", "scored"}
  BY <1>0, <1>2
  DEF ForgetJudging, Judgement, AtWork, NothingJudged, Stage, Histories, Verdicts, Nobody, NoVerdicts
<1>3. CASE /\ UNCHANGED judging
           /\ attempts' = attempts \/ attempts' = Nobody
           /\ ~ AtWork /\ stage' \in Stage \ {"screened", "judging"}
  BY <1>3
  DEF judging, Judgement, AtWork, NothingJudged, Stage, Histories, Verdicts, Nobody, NoVerdicts
<1>4. CASE ScreenAll
  <2>1. /\ stage' = "screened" /\ AtWork' /\ ~ AtWork
        /\ attempts' = attempts /\ rounds' = rounds
        /\ UNCHANGED <<cohort, bout, faced, verdicts>>
    BY <1>4 DEF ScreenAll, AtWork
  <2>2. Valid' = Valid
    BY <2>1, SameValid
  <2>3. PICK opened : history' = HistoryFor(opened)
    BY <1>4 DEF ScreenAll
  <2>4. DOMAIN history' = DOMAIN attempts
    BY <2>3 DEF HistoryFor
  <2>5. Histories'
    BY <2>1, <2>3, <2>4, HistoryRead DEF Histories, Written
  <2>6. Answered'
    <3>1. Valid \in SUBSET (Entrants \X Challenges)
      BY DEF Valid, Judgement
    <3>2. ballots' \in Ballots(Valid)
      BY <1>4 DEF ScreenAll
    <3>. QED
      BY <2>2, <3>1, <3>2, BallotsAssumption DEF Answered
  <2>7. Verdicts'
    BY <2>1 DEF Judgement, Verdicts
  <2>. QED
    BY <2>1, <2>4, <2>5, <2>6, <2>7 DEF Judgement, AtWork, NothingJudged, Stage
<1>5. CASE SelectCohort
  <2>1. /\ stage = "screened" /\ stage' = "judging" /\ AtWork /\ AtWork'
        /\ attempts' = attempts /\ rounds' = rounds
        /\ UNCHANGED <<history, ballots, bout, faced, verdicts>>
    BY <1>5 DEF SelectCohort, AtWork
  <2>2. Valid' = Valid
    BY <2>1, SameValid
  <2>3. cohort' \subseteq DOMAIN attempts
    BY <1>5, CohortRan DEF SelectCohort
  <2>4. Histories' /\ Answered'
    BY <2>1, <2>2 DEF Judgement, Histories, Answered, Written
  <2>5. Verdicts'
    BY <2>1 DEF Judgement, Verdicts, NoVerdicts, Verdict
  <2>. QED
    BY <2>1, <2>3, <2>4, <2>5 DEF Judgement, Stage
<1>. QED
  <2>1. CASE ScoreNothing \/ Allocate \/ Redistribute \/ Submit \/ Abandon \/ NextDay
    BY <2>1, <1>3
    DEF ScoreNothing, Allocate, Redistribute, Submit, Abandon, NextDay, AtWork, Stage, Judgement
  <2>2. CASE Reduce \/ Restart
    BY <2>2, <1>2 DEF Reduce, Restart
  <2>3. CASE UNCHANGED vars
    <3>1. Valid' = Valid
      BY <2>3, SameValid DEF vars
    <3>. QED
      BY <2>3, <3>1
      DEF vars, judging, Judgement, AtWork, NothingJudged, Histories, Written, Answered, Verdicts
  <2>. QED
    BY <1>1, <1>4, <1>5, <2>1, <2>2, <2>3, TournamentKeeps DEF Next

-----------------------------------------------------------------------------
(* What is paid, from the documents to the vector *)

(* Of two who share, whoever scored better holds less only for being cut.  *)
RankKept ==
  \A i, j \in DOMAIN shares :
    Today.standings[i].rolling >= Today.standings[j].rolling
      => shares[i] >= shares[j] \/ i \in capped

Weighed ==
  /\ WeightsTypeOK
  /\ stage \notin {"capping", "weighed"} => NothingWeighed
  /\ stage = "capping" => Cuttable /\ RankKept
  /\ stage = "weighed" => CapKeepsRank /\ SharesAddUp

(* Nothing is weighed at the start.                                        *)
LEMMA WeighedInit == Init => Weighed
  BY DEF Init, Weighed, NothingWeighed, WeightsTypeOK, Nobody

(* Whoever is paid is a laboratory, and listed.                            *)
LEMMA PaidLabs ==
  ASSUME IInv, Judgement, stage = "scored"
  PROVE  Paid \subseteq Labs \cap DOMAIN Today.standings
<1>1. Paid \subseteq DOMAIN Today.standings
  BY DEF Paid, Qualified, Candidates
<1>2. DOMAIN Today.standings = DOMAIN attempts \ {REFERENCE_UID}
  BY DEF IInv, ListedRan
<1>3. DOMAIN attempts \ {REFERENCE_UID} \subseteq Labs
  BY DEF Judgement, Entrants
<1>. QED
  BY <1>1, <1>2, <1>3

(* The softmax shares out the whole, but for its roundings, by score.      *)
LEMMA ShareKeeps ==
  ASSUME IInv, Documents, Judgement, stage = "scored", NothingWeighed,
         Cardinality(Paid) > 1, Share(Candidates, Today.floor), UNCHANGED <<day, rounds>>
  PROVE  Cuttable' /\ RankKept' /\ vector' = vector
<1>1. Paid \subseteq Labs \cap DOMAIN Today.standings
  BY PaidLabs
<1>2. PICK paid : paid = Paid
  OBVIOUS
<1>3. IsFiniteSet(paid) /\ paid # {} /\ paid \in SUBSET Labs
  BY <1>1, <1>2, WeightsAssumption, FS_Subset, FS_EmptySet
<1>4. PICK scores : scores = [uid \in paid |-> Today.standings[uid].rolling]
  OBVIOUS
<1>5. scores = [uid \in paid |-> Candidates[uid].rolling]
  BY <1>1, <1>2, <1>4 DEF Candidates
<1>6. scores \in [paid -> Shares]
  <2>1. \A uid \in paid : Today.standings[uid] \in Standing
    BY <1>1, <1>2 DEF Documents, IsDocument, Today
  <2>. QED
    BY <1>4, <2>1 DEF Standing
<1>7. PICK part : part = Softmax(scores)
  OBVIOUS
<1>8. /\ part \in [paid -> Shares] /\ SumFunction(part) <= PPM
      /\ PPM - SumFunction(part) < Cardinality(paid)
      /\ \A i, j \in paid : scores[i] >= scores[j] => part[i] >= part[j]
  BY <1>3, <1>6, <1>7, SoftmaxAssumption
<1>9. shares' = [uid \in paid |-> Softmax(scores)[uid]] /\ capped' = capped /\ vector' = vector
  BY <1>2, <1>5 DEF Share, Paid
<1>10. shares' = part /\ capped' = {}
  BY <1>7, <1>8, <1>9 DEF NothingWeighed
<1>11. SharesAddUp'
  <2>1. PICK n \in Nat : n = Cardinality(paid)
    BY <1>3, FS_CardinalityType
  <2>2. n * (1 + Cardinality({})) = n
    BY FS_EmptySet
  <2>. QED
    BY <1>8, <1>10, <2>1, <2>2 DEF SharesAddUp
<1>12. Cuttable'
  BY <1>3, <1>8, <1>10, <1>11 DEF Cuttable, Shares
<1>13. RankKept'
  BY <1>4, <1>8, <1>10 DEF RankKept, Today
<1>. QED
  BY <1>9, <1>12, <1>13

(* A pass cuts who is over the cap, and of the others none is overtaken.   *)
LEMMA RankNext ==
  ASSUME Cuttable, RankKept, CapPass, UNCHANGED <<day, rounds>>
  PROVE  RankKept'
<1> SUFFICES ASSUME NEW i \in DOMAIN shares, NEW j \in DOMAIN shares,
                    Today.standings[i].rolling >= Today.standings[j].rolling,
                    i \notin capped'
             PROVE  shares'[i] >= shares'[j]
  BY CapPassKeeps DEF RankKept, Today
<1>1. shares[i] >= shares[j] /\ i \notin capped /\ i \notin Over
  BY CapPassKeeps DEF RankKept
<1>2. /\ shares[i] \in Nat /\ shares[j] \in Nat /\ shares'[i] \in Nat
      /\ shares'[i] >= shares[i] /\ shares[i] <= Cap /\ Cap \in Nat
  BY <1>1, CapPassKeeps, CapType DEF Cuttable, Over, Shares
<1>3. CASE j \in Over
  BY <1>1, <1>2, <1>3, CapPassKeeps
<1>4. CASE j \in capped
  BY <1>1, <1>2, <1>4, CapPassKeeps
<1>5. CASE j \notin capped'
  BY <1>1, <1>5, CapPassKeeps
<1>. QED
  BY <1>3, <1>4, <1>5, CapPassKeeps

(* What is submitted is in the order of the scores and under the cap.      *)
LEMMA EmitKeeps ==
  ASSUME Cuttable, RankKept, Emit, UNCHANGED <<day, rounds>>
  PROVE  CapKeepsRank' /\ SharesAddUp' /\ WeightsTypeOK'
<1>1. /\ shares' = shares /\ capped' = capped /\ Over = {}
      /\ vector' = [uid \in DOMAIN shares |-> ToU16(shares[uid])]
  BY DEF Emit
<1>2. \A uid \in DOMAIN shares : shares[uid] \in Nat /\ shares[uid] <= Cap
  BY <1>1, CapType DEF Cuttable, Over, Shares
<1>3. \A i, j \in DOMAIN shares :
        Today.standings[i].rolling >= Today.standings[j].rolling => shares[i] >= shares[j]
  BY <1>2, CapType DEF Cuttable, RankKept, Shares
<1>4. \A i, j \in DOMAIN shares :
        Today.standings[i].rolling >= Today.standings[j].rolling => vector'[i] >= vector'[j]
  BY <1>1, <1>2, <1>3, WeightGrows
<1>5. CapKept'
  <2>1. SUFFICES ASSUME Cardinality(DOMAIN shares) >= Needed, NEW uid \in DOMAIN shares
                 PROVE  ToU16(shares[uid]) <= ToU16(maximum_weight_ppm)
    BY <1>1 DEF CapKept
  <2>2. Cap = maximum_weight_ppm
    BY <2>1 DEF Cap, EffectiveCap
  <2>3. maximum_weight_ppm \in Nat
    BY WeightsAssumption DEF Shares
  <2>4. ToU16(maximum_weight_ppm) >= ToU16(shares[uid])
        /\ ToU16(maximum_weight_ppm) \in Nat /\ ToU16(shares[uid]) \in Nat
    BY <1>2, <2>2, <2>3, WeightGrows
  <2>. QED
    BY <2>4
<1>6. CapKeepsRank'
  BY <1>1, <1>4, <1>5 DEF CapKeepsRank, Today
<1>7. SharesAddUp'
  BY <1>1 DEF Cuttable, SharesAddUp
<1>8. WeightsTypeOK'
  BY <1>1, <1>2, WeightGrows DEF Cuttable, WeightsTypeOK
<1>. QED
  BY <1>6, <1>7, <1>8

(* Shares, cap and vector through allocation, the passes and submission.   *)
LEMMA WeighedNext ==
  IInv /\ Documents /\ Judgement /\ Weighed /\ [Next]_vars => Weighed'
<1> SUFFICES ASSUME IInv, Documents, Judgement, Weighed, [Next]_vars PROVE Weighed'
  OBVIOUS
<1>0. NothingWeighed' => WeightsTypeOK' /\ SharesAddUp' /\ CapKeepsRank'
  BY DEF NothingWeighed, WeightsTypeOK, SharesAddUp, CapKeepsRank, CapKept, Nobody
<1>1. CASE NothingWeighed' /\ stage' \notin {"capping", "weighed"}
  BY <1>0, <1>1 DEF Weighed
<1>2. CASE Allocate
  <2>1. stage = "scored" /\ NothingWeighed /\ UNCHANGED <<day, rounds>>
    BY <1>2 DEF Allocate, Weighed
  <2>2. Paid \subseteq Labs
    BY <2>1, PaidLabs
  <2>3. CASE Burn /\ stage' = "weighed"
    <3>1. /\ shares' = Nobody /\ capped' = {}
          /\ DOMAIN vector' = {burn_uid} /\ vector'[burn_uid] \in Nat
      BY <2>1, <2>3, WeightsAssumption DEF Burn, NothingWeighed
    <3>. QED
      BY <2>3, <3>1 DEF Weighed, WeightsTypeOK, CapKeepsRank, CapKept, SharesAddUp, Nobody
  <2>4. ASSUME NEW only \in Paid, PayOne(only), stage' = "weighed"
        PROVE  Weighed'
    <3>1. maximum_weight_ppm \in Nat /\ PPM - maximum_weight_ppm \in Nat
      BY WeightsAssumption, FixedPointAssumption DEF Shares
    <3>2. ToU16(maximum_weight_ppm) \in Nat /\ ToU16(PPM - maximum_weight_ppm) \in Nat
      BY <3>1, WeightGrows
    <3>3. /\ shares' = Nobody /\ capped' \subseteq {only}
          /\ DOMAIN vector' = {only, burn_uid} /\ \A uid \in DOMAIN vector' : vector'[uid] \in Nat
      BY <2>1, <2>4, <3>2 DEF PayOne, NothingWeighed
    <3>. QED
      BY <2>2, <2>4, <3>3 DEF Weighed, WeightsTypeOK, CapKeepsRank, CapKept, SharesAddUp, Nobody
  <2>5. CASE Cardinality(Paid) > 1 /\ Share(Candidates, Today.floor) /\ stage' = "capping"
    <3>1. Cuttable' /\ RankKept' /\ vector' = vector
      BY <2>1, <2>5, ShareKeeps
    <3>2. WeightsTypeOK'
      BY <2>1, <3>1 DEF Cuttable, WeightsTypeOK, NothingWeighed, Nobody
    <3>. QED
      BY <2>5, <3>1, <3>2 DEF Weighed
  <2>. QED
    BY <1>2, <2>3, <2>4, <2>5 DEF Allocate
<1>3. CASE Redistribute
  <2>1. Cuttable /\ RankKept /\ CapPass /\ UNCHANGED <<day, rounds>> /\ stage' = "capping"
    BY <1>3 DEF Redistribute, Weighed
  <2>2. Cuttable' /\ RankKept' /\ vector' = vector
    BY <2>1, CapPassKeeps, RankNext
  <2>3. WeightsTypeOK'
    BY <2>2 DEF Cuttable, WeightsTypeOK, Weighed
  <2>. QED
    BY <2>1, <2>2, <2>3 DEF Weighed
<1>4. CASE Submit
  <2>1. Cuttable /\ RankKept /\ Emit /\ UNCHANGED <<day, rounds>> /\ stage' = "weighed"
    BY <1>4 DEF Submit, Weighed
  <2>. QED
    BY <2>1, EmitKeeps DEF Weighed
<1>5. CASE Restart \/ NextDay
  BY <1>1, <1>5 DEF Restart, NextDay, ForgetWeights, NothingWeighed
<1>6. CASE UNCHANGED weighing /\ stage \notin {"capping", "weighed"}
                              /\ stage' \notin {"capping", "weighed"}
  BY <1>1, <1>6 DEF weighing, Weighed, NothingWeighed
<1>7. CASE UNCHANGED vars
  <2>1. UNCHANGED <<shares, capped, vector, day, rounds, stage>>
    BY <1>7 DEF vars, weighing
  <2>2. Cap' = Cap
    BY <2>1 DEF Cap
  <2>3. SharesAddUp' <=> SharesAddUp
    BY <2>1 DEF SharesAddUp
  <2>4. (Cuttable' <=> Cuttable) /\ (RankKept' <=> RankKept)
    BY <2>1, <2>2, <2>3 DEF Cuttable, RankKept, Today
  <2>5. (CapKeepsRank' <=> CapKeepsRank) /\ (WeightsTypeOK' <=> WeightsTypeOK)
        /\ (NothingWeighed' <=> NothingWeighed)
    BY <2>1 DEF CapKeepsRank, CapKept, Today, WeightsTypeOK, NothingWeighed
  <2>. QED
    BY <2>1, <2>3, <2>4, <2>5 DEF Weighed
<1>. QED
  <2>1. CASE Execute \/ ScoreNothing \/ ScreenAll \/ SelectCohort \/ Tournament \/ Reduce \/ Abandon
    BY <2>1, <1>6
    DEF Execute, ScoreNothing, ScreenAll, SelectCohort, Tournament, Reduce, Abandon, Judged, weighing
  <2>. QED
    BY <1>2, <1>3, <1>4, <1>5, <1>7, <2>1 DEF Next

-----------------------------------------------------------------------------
(* Position *)

(* A pair of two uids has two members.                                     *)
LEMMA PairSize ==
  ASSUME NEW a, NEW b, a # b
  PROVE  Cardinality({a, b}) = 2
<1>1. PICK S : S = {a}
  OBVIOUS
<1>2. Cardinality(S) = 1 /\ IsFiniteSet(S)
  BY <1>1, FS_Singleton
<1>3. Cardinality(S \cup {b}) = Cardinality(S) + 1
  BY <1>1, <1>2, FS_AddElement
<1>4. {a, b} = S \cup {b}
  BY <1>1
<1>. QED
  BY <1>2, <1>3, <1>4

(* Judges that name a slot, heard in both orders, make ties of every pair. *)
LEMMA PositionsTie ==
  ASSUME Judgement, NEW ch \in Challenges, NEW c \in Criteria, NEW slot \in {"A", "B"},
         \A v \in Cast(ch, c) : v.winner = slot,
         \A v \in Cast(ch, c) : [v EXCEPT !.slot_a = v.slot_b, !.slot_b = v.slot_a] \in Cast(ch, c)
  PROVE  CombineOrders(Cast(ch, c)) \in
           SUBSET [family : Families(PinsFor),
                   pair   : {p \in SUBSET Entrants : Cardinality(p) = 2},
                   winner : {Tie}]
<1>1. PICK cast : cast = Cast(ch, c)
  OBVIOUS
<1>2. cast \subseteq Verdict(cohort)
  BY <1>1 DEF Judgement, Verdicts, Cast
<1>3. ASSUME NEW v \in cast
      PROVE  /\ v.family \in Families(PinsFor) /\ Pair(v) \in SUBSET Entrants
             /\ Cardinality(Pair(v)) = 2
             /\ \E w \in cast : /\ w.family = v.family /\ Pair(w) = Pair(v)
                                /\ WinningUid(w) # WinningUid(v)
  <2>1. /\ v \in [criterion : Criteria, family : Families(PinsFor),
                  slot_a : cohort, slot_b : cohort, winner : {"A", "B", "tie"}]
        /\ v.slot_a # v.slot_b
    BY <1>2, <1>3 DEF Verdict
  <2>2. PICK w : w = [v EXCEPT !.slot_a = v.slot_b, !.slot_b = v.slot_a]
    OBVIOUS
  <2>3. w \in cast /\ w.winner = slot /\ v.winner = slot
    BY <1>1, <1>3, <2>2
  <2>4. w.family = v.family /\ w.slot_a = v.slot_b /\ w.slot_b = v.slot_a
    BY <2>1, <2>2
  <2>5. Pair(w) = Pair(v)
    BY <2>4 DEF Pair
  <2>6. WinningUid(w) # WinningUid(v)
    BY <2>1, <2>3, <2>4 DEF WinningUid
  <2>7. Pair(v) \in SUBSET Entrants
    BY <2>1 DEF Pair, Judgement
  <2>8. Cardinality(Pair(v)) = 2
    BY <2>1, PairSize DEF Pair
  <2>. QED
    BY <2>1, <2>3, <2>4, <2>5, <2>6, <2>7, <2>8
<1>4. ASSUME NEW p \in CombineOrders(cast)
      PROVE  p \in [family : Families(PinsFor),
                    pair   : {q \in SUBSET Entrants : Cardinality(q) = 2}, winner : {Tie}]
  <2>1. PICK v \in cast :
          p = [family |-> v.family, pair |-> Pair(v),
               winner |-> IF \A w \in cast : w.family = v.family /\ Pair(w) = Pair(v)
                                               => WinningUid(w) = WinningUid(v)
                          THEN WinningUid(v) ELSE Tie]
    BY <1>4 DEF CombineOrders
  <2>2. p = [family |-> v.family, pair |-> Pair(v), winner |-> Tie]
    BY <1>3, <2>1
  <2>. QED
    BY <1>3, <2>2
<1>. QED
  BY <1>1, <1>4

(* Every family named one slot in both orders, so the two orders of each   *)
(* pair name different uids: all ties, and a fit of ties is flat.          *)
LEMMA PositionDecidesNothing == Judgement => PositionBuysNothing
<1> SUFFICES ASSUME Judgement, NEW ch \in Challenges, NEW c \in Criteria,
                    NEW slot \in {"A", "B"},
                    \A v \in Cast(ch, c) : v.winner = slot,
                    \A v \in Cast(ch, c) :
                      [v EXCEPT !.slot_a = v.slot_b, !.slot_b = v.slot_a] \in Cast(ch, c),
                    NEW t \in DOMAIN Strengths(ch, c), NEW u \in DOMAIN Strengths(ch, c)
             PROVE  Strengths(ch, c)[t] = Strengths(ch, c)[u]
  BY DEF PositionBuysNothing
<1>1. Strengths(ch, c) = StrengthsToPpm(Fitted(CombineOrders(Cast(ch, c))))
  BY DEF Strengths, Nobody
<1>2. PICK pairings : pairings = CombineOrders(Cast(ch, c))
  OBVIOUS
<1>3. \A x, y \in Competitors(pairings) : Fit(pairings, x) = Fit(pairings, y)
  BY <1>2, PositionsTie, FitAssumption
<1>4. PICK fitted : fitted = Fitted(pairings)
  OBVIOUS
<1>5. \A x, y \in DOMAIN fitted : fitted[x] = fitted[y]
  BY <1>3, <1>4 DEF Fitted
<1>6. t \in DOMAIN fitted /\ u \in DOMAIN fitted
  BY <1>1, <1>2, <1>4 DEF StrengthsToPpm
<1>7. {x \in DOMAIN fitted : fitted[x] > fitted[t]} = {x \in DOMAIN fitted : fitted[x] > fitted[u]}
  BY <1>5, <1>6
<1>8. StrengthsToPpm(fitted)[t] = StrengthsToPpm(fitted)[u]
  BY <1>6, <1>7, Zenon DEF StrengthsToPpm
<1>. QED
  BY <1>1, <1>2, <1>4, <1>8

-----------------------------------------------------------------------------
(* A rolling score and the days it was made of *)

(* A day some document has for a laboratory is at least a score, another   *)
(* is at most the score and one part.                                      *)
Rolled ==
  stage \in {"scored", "capping"} =>
    \A uid \in DOMAIN Today.standings :
      Today.standings[uid].valid > 0 =>
        /\ \E d \in Shares : Written(uid, d) /\ Today.standings[uid].rolling <= d
        /\ \E d \in Shares : Written(uid, d) /\ d - 1 <= Today.standings[uid].rolling

(* What Reduce writes is within the days of the history it read.           *)
LEMMA ReduceRolls ==
  ASSUME Documents, Judgement, Reduce
  PROVE  Rolled'
<1>1. /\ stage = "judging" /\ AtWork /\ day' = day
      /\ rounds' = [rounds EXCEPT ![day].standings = Standings, ![day].floor = ReferenceFloor]
  BY DEF Reduce, Judged, AtWork
<1>2. day \in DOMAIN rounds /\ DOMAIN rounds[day] = {"standings", "floor", "failed"}
  BY DEF Documents, IsDocument
<1>3. /\ DOMAIN rounds' = DOMAIN rounds
      /\ rounds'[day].standings = Standings
      /\ \A d \in DOMAIN rounds \ {day} : rounds'[d] = rounds[d]
  BY <1>1, <1>2
<1>4. rounds[day].standings = Nobody
  BY <1>1 DEF Documents, Today
<1> SUFFICES ASSUME NEW uid \in DOMAIN Standings, Standings[uid].valid > 0
             PROVE  /\ \E d \in Shares : Written(uid, d)' /\ Standings[uid].rolling <= d
                    /\ \E d \in Shares : Written(uid, d)' /\ d - 1 <= Standings[uid].rolling
  BY <1>1, <1>3, Zenon DEF Rolled, Today
<1>5. uid \in DOMAIN attempts /\ Standings[uid] = LabScore(uid)
  BY DEF Standings
<1>6. PICK standing : standing = LabScore(uid) /\ standing \in Standing
  BY <1>1, <1>5, LabScored
<1>7. standing.daily \in Shares /\ Written(uid, standing.daily)'
  BY <1>1, <1>2, <1>3, <1>5, <1>6 DEF Written, Standing
<1>8. PICK past : past = history[uid] /\ past \in Seq(Shares)
  BY <1>1, <1>5 DEF Judgement, Histories
<1>9. ASSUME NEW i \in DOMAIN past
      PROVE  past[i] \in Shares /\ Written(uid, past[i])'
  <2>1. Written(uid, past[i])
    BY <1>1, <1>5, <1>8 DEF Judgement, Histories
  <2>2. PICK d \in DOMAIN rounds : /\ uid \in DOMAIN rounds[d].standings
                                   /\ past[i] = rounds[d].standings[uid].daily
    BY <2>1 DEF Written
  <2>3. d # day
    BY <1>4, <2>2 DEF Nobody
  <2>4. rounds'[d] = rounds[d]
    BY <1>3, <2>3
  <2>5. past[i] \in Shares
    BY <1>8
  <2>. QED
    BY <1>3, <2>2, <2>4, <2>5 DEF Written
<1>10. PICK D : D = {standing.daily} \cup {past[i] : i \in DOMAIN past}
  OBVIOUS
<1>11. D \subseteq Shares /\ D # {} /\ \A d \in D : Written(uid, d)'
  <2>1. \A d \in D : d = standing.daily \/ \E i \in DOMAIN past : d = past[i]
    BY <1>10
  <2>. QED
    BY <1>7, <1>9, <1>10, <2>1
<1>12. PICK lo, hi : lo = Min(D) /\ hi = Max(D)
  OBVIOUS
<1>13. lo \in D /\ hi \in D /\ \A d \in D : lo <= d /\ d <= hi
  BY <1>11, <1>12, MinMax
<1>14. \A i \in DOMAIN past : lo <= past[i] /\ past[i] <= hi
  BY <1>10, <1>13
<1>15. lo \in Shares /\ hi \in Shares /\ lo <= standing.daily /\ standing.daily <= hi
  BY <1>10, <1>11, <1>13
<1>16. standing.rolling <= hi /\ lo - 1 <= standing.rolling
  BY <1>1, <1>5, <1>6, <1>8, <1>14, <1>15, LabScored
<1>. QED
  BY <1>5, <1>6, <1>11, <1>13, <1>15, <1>16

(* After Reduce nothing rewrites a standing or a day before it.            *)
LEMMA RolledNext == Documents /\ Judgement /\ Rolled /\ [Next]_vars => Rolled'
<1> SUFFICES ASSUME Documents, Judgement, Rolled, [Next]_vars PROVE Rolled'
  OBVIOUS
<1>1. CASE stage' \notin {"scored", "capping"}
  BY <1>1 DEF Rolled
<1>2. CASE UNCHANGED <<day, rounds>> /\ stage \in {"scored", "capping"}
  BY <1>2 DEF Rolled, Written, Today
<1>3. CASE ScoreNothing
  <2>1. day \in DOMAIN rounds /\ DOMAIN rounds[day] = {"standings", "floor", "failed"}
    BY DEF Documents, IsDocument
  <2>2. Today'.standings = EmptyLabs
    BY <1>3, <2>1 DEF ScoreNothing, Today
  <2>3. \A uid \in DOMAIN EmptyLabs : ~ (EmptyLabs[uid].valid > 0)
    BY DEF EmptyLabs
  <2>. QED
    BY <2>2, <2>3 DEF Rolled
<1>4. CASE Allocate \/ Redistribute \/ Submit \/ Restart
  <2>1. stage' \in {"scored", "capping"} => stage \in {"scored", "capping"}
    BY <1>4 DEF Allocate, Redistribute, Submit, Restart
  <2>2. UNCHANGED <<day, rounds>>
    BY <1>4 DEF Allocate, Redistribute, Submit, Restart
  <2>. QED
    BY <1>1, <1>2, <2>1, <2>2
<1>5. CASE UNCHANGED vars
  <2>1. UNCHANGED <<day, rounds, stage>>
    BY <1>5 DEF vars
  <2>. QED
    BY <1>1, <1>2, <2>1
<1>6. CASE Execute \/ ScreenAll \/ SelectCohort \/ Tournament \/ Abandon \/ NextDay
  BY <1>1, <1>6 DEF Execute, ScreenAll, SelectCohort, Tournament, Abandon, NextDay
<1>. QED
  BY <1>3, <1>4, <1>5, <1>6, ReduceRolls DEF Next

(* Within every bound on the days is within their least and greatest.      *)
LEMMA RolledWithin == Documents /\ Rolled => RollingWithinItsDays
<1> SUFFICES ASSUME Documents, Rolled, stage = "scored",
                    NEW uid \in DOMAIN Today.standings, Today.standings[uid].valid > 0
             PROVE  LET days == {rounds[d].standings[uid].daily :
                                   d \in {k \in DOMAIN rounds : uid \in DOMAIN rounds[k].standings}}
                    IN  /\ Today.standings[uid].rolling <= Max(days)
                        /\ Today.standings[uid].rolling >= Min(days) - 1
  BY DEF RollingWithinItsDays
<1>1. PICK days : days = {rounds[d].standings[uid].daily :
                            d \in {k \in DOMAIN rounds : uid \in DOMAIN rounds[k].standings}}
  OBVIOUS
<1>2. \A x : x \in days <=> Written(uid, x)
  BY <1>1 DEF Written
<1>3. days \subseteq Shares
  <2>1. \A d \in DOMAIN rounds : uid \in DOMAIN rounds[d].standings
                                   => rounds[d].standings[uid] \in Standing
    BY DEF Documents, IsDocument
  <2>. QED
    BY <1>2, <2>1 DEF Written, Standing
<1>4. PICK rolling : rolling = Today.standings[uid].rolling
  OBVIOUS
<1>5. rolling \in Shares
  BY <1>4 DEF Documents, IsDocument, Today, Standing
<1>6. PICK high \in days, low \in days : rolling <= high /\ low - 1 <= rolling
  BY <1>2, <1>4 DEF Rolled
<1>7. PICK least, most : least = Min(days) /\ most = Max(days)
  OBVIOUS
<1>8. /\ least \in Shares /\ most \in Shares /\ high \in Shares /\ low \in Shares
      /\ least <= low /\ high <= most
  BY <1>3, <1>6, <1>7, MinMax
<1>9. rolling <= most /\ rolling >= least - 1
  BY <1>5, <1>6, <1>8 DEF Shares
<1>. QED
  BY <1>1, <1>4, <1>7, <1>9

-----------------------------------------------------------------------------
(* All of it *)

RoundsInv == IInv /\ Documents /\ Judgement /\ Weighed /\ Rolled

(* The invariant of all theorems below.                                    *)
LEMMA RoundsInvariant == Spec => []RoundsInv
<1>1. Init => RoundsInv
  <2>1. Init => Rolled
    BY DEF Init, Rolled
  <2>. QED
    BY <2>1, IInvInit, WellFormedInit, WeighedInit DEF RoundsInv
<1>2. RoundsInv /\ [Next]_vars => RoundsInv'
  BY IInvNext, DocumentsNext, JudgementNext, WeighedNext, RolledNext DEF RoundsInv
<1>. QED
  BY <1>1, <1>2, PTL DEF Spec

(* Documents, histories, scores and weights are well-formed: every score a *)
(* share, every count of challenges within the pack, every uid one that    *)
(* may be there.                                                           *)
THEOREM RoundsTyped == Spec => []TypeOK
<1>1. RoundsInv => TypeOK
  <2> SUFFICES ASSUME RoundsInv PROVE TypeOK
    OBVIOUS
  <2>1. \A d \in DOMAIN rounds :
          /\ rounds[d].failed \subseteq Entrants
          /\ rounds[d].floor \in Shares
          /\ \A uid \in DOMAIN rounds[d].standings :
               rounds[d].standings[uid] \in
                 [daily : Shares, rolling : Shares, valid : 0 .. Len(Pack)]
    BY DEF RoundsInv, Documents, IsDocument, Standing
  <2>. QED
    BY <2>1 DEF RoundsInv, Documents, Judgement, Histories, Weighed, TypeOK
<1>. QED
  BY <1>1, RoundsInvariant, PTL

(* A silent judge, a failed panel, a place outside the cohort costs        *)
(* nothing: see AbsenceIsNotZero.                                          *)
THEOREM AbsenceIsFree == Spec => []AbsenceIsNotZero
<1>1. RoundsInv => AbsenceIsNotZero
  BY AbsenceCostsNothing DEF RoundsInv
<1>. QED
  BY <1>1, RoundsInvariant, PTL

(* Judges that answer by position alone rank nobody.                       *)
THEOREM PositionRanksNobody == Spec => []PositionBuysNothing
<1>1. RoundsInv => PositionBuysNothing
  BY PositionDecidesNothing DEF RoundsInv
<1>. QED
  BY <1>1, RoundsInvariant, PTL

(* A rolling score is between the days it was made of, but for a rounding. *)
THEOREM RollingOfItsDays == Spec => []RollingWithinItsDays
<1>1. RoundsInv => RollingWithinItsDays
  BY RolledWithin DEF RoundsInv
<1>. QED
  BY <1>1, RoundsInvariant, PTL

(* Shares never exceed the whole, and lose only roundings.                 *)
THEOREM SharesSum == Spec => []SharesAddUp
<1>1. RoundsInv => SharesAddUp
  BY DEF RoundsInv, Weighed, Cuttable, NothingWeighed, SharesAddUp, Stage, Judgement
<1>. QED
  BY <1>1, RoundsInvariant, PTL

(* What is submitted keeps the cap and the order of the scores.            *)
THEOREM CapRanks == Spec => []CapKeepsRank
<1>1. RoundsInv => CapKeepsRank
  BY DEF RoundsInv, Weighed, CapKeepsRank
<1>. QED
  BY <1>1, RoundsInvariant, PTL
=============================================================================
