------------------------------- MODULE Judging -------------------------------
(***************************************************************************)
(* validator/judge: what the panels' replies become.  A reply that never   *)
(* came, could not be read, is off the scale or abstains is no vote; a     *)
(* criterion without votes is absent from a score.  The strengths that     *)
(* bradley_terry fits by floating point are left to a constant operator.   *)
(***************************************************************************)
EXTENDS FamilyCap, FiniteSetsExt

CONSTANTS
  Criteria,
  Panels,              \* criterion -> its judges, a set of [family, pin, seat]
  minimum_families,
  family_cap_ppm,
  Fit(_, _)            \* pairings, competitor -> its strength

PinsFor == UNION {Panels[c] : c \in Criteria}

(* panels_from_season and pins_for refuse any other season at the start    *)
ASSUME JudgingAssumption ==
  /\ Criteria # {} /\ DOMAIN Panels = Criteria
  /\ \A c \in Criteria : /\ IsFiniteSet(Panels[c])
                         /\ AssertValid(Panels[c], minimum_families, family_cap_ppm)
  /\ \A j, k \in PinsFor : j.family = k.family => j.pin = k.pin

-----------------------------------------------------------------------------
(* Pointwise: replies are judge -> anchor, or another number for no vote   *)

ANCHOR_PPM == [anchor \in 0 .. 4 |-> (anchor * PPM) \div 4]

Voted(replies) == {judge \in DOMAIN replies : replies[judge] \in DOMAIN ANCHOR_PPM}

Aggregate(replies) ==
  SumFunction([judge \in Voted(replies) |-> ANCHOR_PPM[replies[judge]]])
    \div Cardinality(Voted(replies))

(* Slip: no vote at all is written down as a score of zero.                *)
X_ScreenOne(replies) ==
  [c \in DOMAIN replies |-> IF Voted(replies[c]) = {} THEN 0 ELSE Aggregate(replies[c])]

(* replies: criterion -> replies; what was not scored is not in the domain *)
ScreenOne(replies) ==
  [c \in {k \in DOMAIN replies : Voted(replies[k]) # {}} |-> Aggregate(replies[c])]

-----------------------------------------------------------------------------
(* Pairwise: a pair is a set of two uids                                   *)

Earliest(ordered, left) ==
  ordered[CHOOSE i \in DOMAIN ordered :
            /\ ordered[i] \in left
            /\ \A j \in 1 .. i - 1 : ordered[j] \notin left]

(* By score, then by uid *)
Ranked(standings) ==
  InOrder(Range(standings), LAMBDA a, b : \/ a[2] > b[2]
                                          \/ a[2] = b[2] /\ a[1] < b[1])

Byes(ordered) ==
  IF Len(ordered) % 2 = 1 THEN {ordered[(Len(ordered) \div 2) + 1]} ELSE {}

SwissPairings(standings, faced) ==
  LET ranked  == Ranked(standings)
      ordered == [i \in DOMAIN ranked |-> ranked[i][1]]
      pairs[left \in SUBSET Range(ordered)] ==
        IF Cardinality(left) < 2 THEN {}
        ELSE LET first  == Earliest(ordered, left)
                 others == left \ {first}
                 fresh  == {uid \in others : {first, uid} \notin faced}
                 second == Earliest(ordered, IF fresh = {} THEN others ELSE fresh)
             IN  {{first, second}} \cup pairs[left \ {first, second}]
  IN  IF Len(ordered) < 2 THEN {} ELSE pairs[Range(ordered) \ Byes(ordered)]

Tie == -2        \* no uid

(* A verdict speaks of the slots it was shown: [criterion, family, slot_a, *)
(* slot_b, winner].  What it means is a uid, or Tie.                       *)
WinningUid(verdict) ==
  CASE verdict.winner = "A" -> verdict.slot_a
    [] verdict.winner = "B" -> verdict.slot_b
    [] OTHER -> Tie

(* The verdicts on a pair: every judge is shown it in both orders, and a   *)
(* reply that is not a vote leaves none.  replies: <<criterion, family,    *)
(* slot_a, slot_b>> -> reply                                               *)
ComparePair(pair, replies) ==
  LET shown == {<<c, judge.family, order[1], order[2]>> :
                  c \in Criteria, judge \in PinsFor,
                  order \in {o \in pair \X pair : o[1] # o[2]}}
  IN  {[criterion |-> s[1], family |-> s[2], slot_a |-> s[3], slot_b |-> s[4],
        winner |-> replies[s]] :
         s \in {t \in shown : /\ t[2] \in Families(Panels[t[1]])
                             /\ replies[t] \in {"A", "B", "tie"}}}

Pair(verdict) == {verdict.slot_a, verdict.slot_b}

(* Slip: the slots are taken for the pair in the order it was first shown. *)
X_CombineOrders(verdicts) ==
  {[family |-> v.family, pair |-> Pair(v),
    winner |-> CASE v.winner = "A" -> Min(Pair(v))
                 [] v.winner = "B" -> Max(Pair(v))
                 [] OTHER -> Tie] : v \in verdicts}

(* A family whose verdicts on a pair disagree preferred a position: a tie  *)
CombineOrders(verdicts) ==
  {[family |-> v.family, pair |-> Pair(v),
    winner |-> IF \A w \in verdicts :
                    w.family = v.family /\ Pair(w) = Pair(v)
                      => WinningUid(w) = WinningUid(v)
               THEN WinningUid(v) ELSE Tie] : v \in verdicts}

Competitors(pairings) == UNION {p.pair : p \in pairings}

Fitted(pairings) == [uid \in Competitors(pairings) |-> Fit(pairings, uid)]

(* Equal strengths share the position of the best of them *)
StrengthsToPpm(strengths) ==
  [uid \in DOMAIN strengths |->
     LET stronger == {v \in DOMAIN strengths : strengths[v] > strengths[uid]}
     IN  IF Cardinality(DOMAIN strengths) = 1 THEN PPM \div 2
         ELSE Clamp(PPM - (Cardinality(stronger) * PPM)
                            \div (Cardinality(DOMAIN strengths) - 1))]
=============================================================================
