------------------------------- MODULE Scoring -------------------------------
(***************************************************************************)
(* validator/scoring/criteria.py and daily.py: from one challenge's        *)
(* measurements to the rolling score weights are allocated from.           *)
(***************************************************************************)
EXTENDS FixedPoint

CONSTANTS
  criterion_weights_ppm,        \* criterion -> weight
  pairwise_weight_ppm, pointwise_weight_ppm,
  mechanism_floor_ppm, capped_on_weak_mechanism_ppm,
  daily_mean_weight_ppm, daily_q25_weight_ppm,
  rolling_short_days, rolling_long_days,
  rolling_short_weight_ppm, rolling_long_weight_ppm,
  minimum_days_for_median

ASSUME ScoringAssumption ==
  /\ SumsToOne(criterion_weights_ppm)
  /\ IsFiniteSet(DOMAIN criterion_weights_ppm)
  /\ \A c \in DOMAIN criterion_weights_ppm : criterion_weights_ppm[c] \in Shares
  /\ pairwise_weight_ppm + pointwise_weight_ppm = PPM
  /\ pairwise_weight_ppm >= pointwise_weight_ppm
  /\ daily_mean_weight_ppm + daily_q25_weight_ppm = PPM
  /\ rolling_short_weight_ppm + rolling_long_weight_ppm = PPM
  /\ rolling_short_days \in Nat \ {0} /\ rolling_long_days \in Nat
  /\ rolling_short_days < rolling_long_days
  /\ minimum_days_for_median \in Nat
  /\ {pairwise_weight_ppm, pointwise_weight_ppm, daily_mean_weight_ppm,
      daily_q25_weight_ppm, rolling_short_weight_ppm, rolling_long_weight_ppm}
       \subseteq Shares
  /\ {mechanism_floor_ppm, capped_on_weak_mechanism_ppm} \subseteq Shares

_LOWER_QUARTILE_PPM == PPM \div 4

-----------------------------------------------------------------------------
(* point and pair: criterion -> score, on the criteria that were measured  *)

Combine(point, pair, c) ==
  IF c \notin DOMAIN point THEN Clamp(pair[c])
  ELSE IF c \notin DOMAIN pair THEN Clamp(point[c])
  ELSE Clamp(Times(pair[c], pairwise_weight_ppm) + Times(point[c], pointwise_weight_ppm))

ApplyMechanismFloor(criteria) ==
  IF "mechanism" \in DOMAIN criteria /\ criteria["mechanism"] < mechanism_floor_ppm
  THEN [c \in DOMAIN criteria |->
          IF c \in {"value", "originality"} /\ criteria[c] > capped_on_weak_mechanism_ppm
          THEN capped_on_weak_mechanism_ppm ELSE criteria[c]]
  ELSE criteria

Measured(point, pair) == (DOMAIN point \cup DOMAIN pair)

(* challenge_score raises when the season weights nothing of what there is *)
Scoreable(point, pair) ==
  SumFunctionOnSet(criterion_weights_ppm,
                   Measured(point, pair) \cap DOMAIN criterion_weights_ppm) > 0

ChallengeScore(point, pair) ==
  Clamp(ApplyWeights(
          ApplyMechanismFloor(
            [c \in Measured(point, pair) \cap DOMAIN criterion_weights_ppm |->
               Combine(point, pair, c)]),
          criterion_weights_ppm))

-----------------------------------------------------------------------------
(* challenges: challenge -> score, on those that were scored               *)
DailyScore(challenges) ==
  Clamp(Times(Mean(challenges), daily_mean_weight_ppm)
          + Times(Quantile(challenges, _LOWER_QUARTILE_PPM), daily_q25_weight_ppm))

(* The most recent results, however many days they took *)
Window(scores, days) == Restrict(scores, {i \in DOMAIN scores : i > Len(scores) - days})

(* Slip: below the minimum the days are summed and divided by the minimum, *)
(* which discounts a laboratory for being new.                             *)
X_RollingScore(scores) ==
  IF Len(scores) < minimum_days_for_median
  THEN Clamp(SumFunction(scores) \div minimum_days_for_median)
  ELSE Clamp(Times(Median(Window(scores, rolling_short_days)), rolling_short_weight_ppm)
               + Times(Median(Window(scores, rolling_long_days)), rolling_long_weight_ppm))

RollingScore(scores) ==
  IF Len(scores) < minimum_days_for_median
  THEN Clamp(Mean(scores))
  ELSE Clamp(Times(Median(Window(scores, rolling_short_days)), rolling_short_weight_ppm)
               + Times(Median(Window(scores, rolling_long_days)), rolling_long_weight_ppm))
=============================================================================
