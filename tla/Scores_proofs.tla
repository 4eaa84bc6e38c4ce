---------------------------- MODULE Scores_proofs ----------------------------
(***************************************************************************)
(* The arithmetic of a round, for every season: what each statistic,       *)
(* weighted average and combination of scores lies between.                *)
(***************************************************************************)
EXTENDS Judging, Scoring, Weights, Sums

-----------------------------------------------------------------------------
(* Statistics (FixedPoint) *)

(* A list of whole numbers between two others                              *)
Within(values, lo, hi) ==
  \A i \in DOMAIN values : values[i] \in Int /\ lo <= values[i] /\ values[i] <= hi

Listed(values) == IsFiniteSet(DOMAIN values) /\ DOMAIN values # {}

(* A list that is not empty has a positive length.                         *)
LEMMA CountType ==
  ASSUME NEW values, Listed(values)
  PROVE  Count(values) \in Nat \ {0}
BY FS_CardinalityType, FS_EmptySet DEF Listed, Count

(* sorted() has an element at every position of the list.                  *)
LEMMA OrderedIn ==
  ASSUME NEW values, Listed(values), \A i \in DOMAIN values : values[i] \in Int,
         NEW k \in 1 .. Count(values)
  PROVE  Ordered(values, k) \in Range(values)
<1> DEFINE D == DOMAIN values
           AtMost(v) == {i \in D : values[i] <= v}
           Under(v) == {i \in D : values[i] < v}
           V == {v \in Range(values) : Cardinality(AtMost(v)) >= k}
<1>1. IsFiniteSet(D) /\ D # {} /\ Cardinality(D) \in Nat /\ k \in Nat /\ k >= 1 /\ k <= Cardinality(D)
  BY CountType DEF Listed, Count
<1>2. IsFiniteSet(Range(values)) /\ Range(values) \subseteq Int /\ Range(values) # {}
  BY <1>1, FiniteRange DEF Range
<1>3. PICK top \in Range(values) : \A v \in Range(values) : v <= top
  BY <1>2, LeastAndGreatest
<1>4. AtMost(top) = D
  BY <1>3 DEF Range
<1>5. V # {} /\ V \subseteq Range(values)
  BY <1>1, <1>3, <1>4
<1>6. IsFiniteSet(V) /\ V \subseteq Int
  BY <1>2, <1>5, FS_Subset
<1>7. PICK v \in V : \A w \in V : v <= w
  BY <1>5, <1>6, LeastAndGreatest
<1>8. \A w : IsFiniteSet(Under(w)) /\ Cardinality(Under(w)) \in Nat
  BY <1>1, FS_Subset, FS_CardinalityType
<1>9. Cardinality(Under(v)) < k
  <2> SUFFICES ASSUME ~ (Cardinality(Under(v)) < k) PROVE FALSE
    OBVIOUS
  <2>1. Cardinality(Under(v)) >= k
    BY <1>1, <1>8
  <2>2. Under(v) # {}
    BY <1>1, <2>1, FS_EmptySet
  <2> DEFINE W == {values[i] : i \in Under(v)}
  <2>3. IsFiniteSet(W) /\ W # {} /\ W \subseteq Int
    <3>1. IsFiniteSet(W)
      BY <1>2, FS_Subset DEF Range
    <3>. QED
      BY <2>2, <3>1
  <2>4. PICK w \in W : \A u \in W : u <= w
    BY <2>3, LeastAndGreatest
  <2>5. w \in Range(values) /\ w \in Int /\ v \in Int /\ w < v
    BY <1>5, <1>6, <2>4 DEF Range
  <2>6. AtMost(w) = Under(v)
    BY <2>4, <2>5
  <2>7. w \in V
    BY <2>1, <2>5, <2>6
  <2>. QED
    BY <1>7, <2>5, <2>7
<1>. QED
  BY <1>5, <1>7, <1>9 DEF Ordered

(* Whatever bounds every element bounds the element at each position.      *)
LEMMA OrderedWithin ==
  ASSUME NEW values, Listed(values), NEW lo \in Int, NEW hi \in Int, Within(values, lo, hi),
         NEW k \in 1 .. Count(values)
  PROVE  Ordered(values, k) \in Int /\ lo <= Ordered(values, k) /\ Ordered(values, k) <= hi
<1>1. Ordered(values, k) \in Range(values)
  BY OrderedIn DEF Within
<1>. QED
  BY <1>1 DEF Range, Within

(* A quotient lies where its dividend does.                                *)
LEMMA QuotientWithin ==
  ASSUME NEW a \in Int, NEW b \in Nat \ {0}, NEW lo \in Int, NEW hi \in Int,
         lo * b <= a, a <= hi * b
  PROVE  a \div b \in Int /\ lo <= a \div b /\ a \div b <= hi
<1>1. PICK q \in Int : q = a \div b
  BY Floor
<1>2. b * q <= a /\ a < b * q + b
  BY <1>1, FloorBounds
<1>3. /\ b * q \in Int /\ b * lo = lo * b /\ b * hi = hi * b /\ b * lo \in Int /\ b * hi \in Int
      /\ b * (q + 1) = b * q + b /\ b * (hi + 1) = b * hi + b
  OBVIOUS
<1>4. b * lo < b * (q + 1) /\ b * q < b * (hi + 1)
  BY <1>2, <1>3
<1>5. lo < q + 1 /\ q < hi + 1
  BY <1>4, TimesCancels
<1>. QED
  BY <1>1, <1>5

(* A mean, floored, is within the bounds of what it averages.              *)
LEMMA MeanWithin ==
  ASSUME NEW values, Listed(values), NEW lo \in Int, NEW hi \in Int, Within(values, lo, hi)
  PROVE  Mean(values) \in Int /\ lo <= Mean(values) /\ Mean(values) <= hi
<1> DEFINE D == DOMAIN values
           low == [i \in D |-> lo]
           high == [i \in D |-> hi]
<1>1. IsFiniteSet(D) /\ Count(values) \in Nat \ {0}
  BY CountType DEF Listed
<1>2. \A i \in D : values[i] \in Int
  BY DEF Within
<1>3. SumFunctionOnSet(values, D) \in Int
  BY <1>1, <1>2, SumType
<1>4. \A i \in D : low[i] = lo /\ high[i] = hi /\ low[i] \in Int /\ high[i] \in Int
                   /\ low[i] <= values[i] /\ values[i] <= high[i]
  BY DEF Within
<1> HIDE DEF low, high
<1>5. SumFunctionOnSet(low, D) = lo * Count(values) /\ SumFunctionOnSet(high, D) = hi * Count(values)
  BY <1>1, <1>4, SumConstant DEF Count
<1>6. SumFunctionOnSet(low, D) <= SumFunctionOnSet(values, D)
  BY <1>1, <1>2, <1>4, SumAtMost
<1>7. SumFunctionOnSet(values, D) <= SumFunctionOnSet(high, D)
  BY <1>1, <1>2, <1>4, SumAtMost
<1>. QED
  BY <1>1, <1>3, <1>5, <1>6, <1>7, QuotientWithin DEF Mean, SumFunction

(* So is a median, the floored half of two middle elements included.       *)
LEMMA MedianWithin ==
  ASSUME NEW values, Listed(values), NEW lo \in Int, NEW hi \in Int, Within(values, lo, hi)
  PROVE  Median(values) \in Int /\ lo <= Median(values) /\ Median(values) <= hi
<1>1. PICK n \in Nat \ {0} : n = Count(values)
  BY CountType
<1>2. PICK m \in Int : m = n \div 2
  BY <1>1
<1>3. m >= 0 /\ (n % 2 = 1 => m + 1 <= n) /\ (n % 2 # 1 => m >= 1 /\ m + 1 <= n)
  BY <1>1, <1>2
<1>4. CASE n % 2 = 1
  <2>1. m + 1 \in 1 .. Count(values) /\ Median(values) = Ordered(values, m + 1)
    BY <1>1, <1>2, <1>3, <1>4 DEF Median
  <2>. QED
    BY <2>1, OrderedWithin
<1>5. CASE n % 2 # 1
  <2>1. m \in 1 .. Count(values) /\ m + 1 \in 1 .. Count(values)
    BY <1>1, <1>2, <1>3, <1>5
  <2>2. /\ Ordered(values, m) \in Int /\ lo <= Ordered(values, m) /\ Ordered(values, m) <= hi
        /\ Ordered(values, m + 1) \in Int
        /\ lo <= Ordered(values, m + 1) /\ Ordered(values, m + 1) <= hi
    BY <2>1, OrderedWithin
  <2>3. PICK a \in Int : a = Ordered(values, m) + Ordered(values, m + 1)
    BY <2>2
  <2>4. lo * 2 <= a /\ a <= hi * 2
    BY <2>2, <2>3
  <2>5. Median(values) = a \div 2
    BY <1>1, <1>2, <1>5, <2>3 DEF Median
  <2>. QED
    BY <2>3, <2>4, <2>5, QuotientWithin
<1>. QED
  BY <1>4, <1>5

(* A part of a difference is no more than it, whichever its sign.          *)
LEMMA PartWay ==
  ASSUME NEW d \in Int, NEW r \in 0 .. PPM
  PROVE  LET part == (d * r) \div PPM
         IN  part \in Int /\ (0 <= d => 0 <= part /\ part <= d) /\ (d <= 0 => d <= part /\ part <= 0)
<1>1. PPM \in Nat \ {0}
  BY FixedPointAssumption
<1>2. d * r \in Int /\ d * PPM \in Int /\ 0 * PPM = 0
  BY <1>1
<1>3. CASE 0 <= d
  <2>1. 0 <= d * r /\ d * r <= d * PPM
    <3>1. d \in Nat /\ d * 0 = 0
      BY <1>3
    <3>. QED
      BY <1>1, <3>1, TimesMonotone
  <2>2. (d * r) \div PPM \in Int /\ 0 <= (d * r) \div PPM /\ (d * r) \div PPM <= d
    BY <1>1, <1>2, <2>1, QuotientWithin
  <2>3. d = 0 \/ ~ (d <= 0)
    BY <1>3
  <2>. QED
    BY <2>2, <2>3, <1>3
<1>4. CASE d <= 0
  <2>1. d * PPM <= d * r /\ d * r <= 0
    <3>1. PICK e \in Nat : e = 0 - d
      BY <1>4
    <3>2. e * 0 <= e * r /\ e * r <= e * PPM
      BY <1>1, <3>1, TimesMonotone
    <3>3. e * r = 0 - d * r /\ e * PPM = 0 - d * PPM /\ e * 0 = 0
      BY <1>1, <3>1
    <3>. QED
      BY <1>2, <3>2, <3>3
  <2>2. (d * r) \div PPM \in Int /\ d <= (d * r) \div PPM /\ (d * r) \div PPM <= 0
    BY <1>1, <1>2, <2>1, QuotientWithin
  <2>3. d = 0 \/ ~ (0 <= d)
    BY <1>4
  <2>. QED
    BY <2>2, <2>3, <1>4
<1>. QED
  BY <1>3, <1>4

(* And so is an interpolated quantile.                                     *)
LEMMA QuantileWithin ==
  ASSUME NEW values, Listed(values), NEW lo \in Int, NEW hi \in Int, Within(values, lo, hi),
         NEW position \in Shares
  PROVE  /\ Quantile(values, position) \in Int
         /\ lo <= Quantile(values, position) /\ Quantile(values, position) <= hi
<1>1. PPM \in Nat \ {0} /\ position \in Nat /\ position <= PPM
  BY FixedPointAssumption DEF Shares
<1>2. PICK n \in Nat \ {0} : n = Count(values)
  BY CountType
<1>3. PICK scaled \in Int : scaled = position * (n - 1)
  BY <1>1
<1>4. 0 <= scaled /\ scaled <= PPM * (n - 1)
  <2>1. n - 1 \in Nat
    BY <1>2
  <2>2. (n - 1) * 0 <= (n - 1) * position /\ (n - 1) * position <= (n - 1) * PPM
    BY <1>1, <2>1, TimesMonotone
  <2>3. (n - 1) * 0 = 0 /\ (n - 1) * position = position * (n - 1) /\ (n - 1) * PPM = PPM * (n - 1)
    BY <1>1, <2>1
  <2>. QED
    BY <1>3, <2>2, <2>3
<1>5. PICK lower \in Int : lower = scaled \div PPM
  BY <1>1, Floor
<1>6. PICK remainder \in 0 .. PPM - 1 : remainder = scaled % PPM
  BY <1>1, Floor
<1>7. scaled = PPM * lower + remainder
  BY <1>1, <1>5, <1>6, Floor
<1>8. 0 <= lower /\ lower <= n - 1
  <2>1. 0 * PPM <= scaled /\ scaled <= (n - 1) * PPM
    BY <1>1, <1>2, <1>4
  <2>. QED
    BY <1>1, <1>2, <1>5, <2>1, QuotientWithin
<1>9. lower + 1 \in 1 .. Count(values)
  BY <1>2, <1>8
<1>10. PICK below \in Int : below = Ordered(values, lower + 1)
  BY <1>9, OrderedWithin
<1>11. lo <= below /\ below <= hi
  BY <1>9, <1>10, OrderedWithin
<1>12. CASE remainder = 0
  <2>1. Quantile(values, position) = below
    BY <1>2, <1>3, <1>5, <1>6, <1>10, <1>12 DEF Quantile
  <2>. QED
    BY <1>11, <2>1
<1>13. CASE remainder # 0
  <2>1. lower # n - 1
    <3> SUFFICES ASSUME lower = n - 1 PROVE FALSE
      OBVIOUS
    <3>1. PPM * lower = PPM * (n - 1) /\ PPM * lower \in Int
      BY <1>1
    <3>. QED
      BY <1>4, <1>6, <1>7, <1>13, <3>1
  <2>2. lower + 2 \in 1 .. Count(values)
    BY <1>2, <1>8, <2>1
  <2>3. PICK above \in Int : above = Ordered(values, lower + 2)
    BY <2>2, OrderedWithin
  <2>4. lo <= above /\ above <= hi
    BY <2>2, <2>3, OrderedWithin
  <2>5. PICK d \in Int : d = above - below
    OBVIOUS
  <2>6. remainder \in 0 .. PPM
    BY <1>1, <1>6
  <2>7. PICK part : part = (d * remainder) \div PPM
    OBVIOUS
  <2>8. part \in Int /\ (0 <= d => 0 <= part /\ part <= d) /\ (d <= 0 => d <= part /\ part <= 0)
    BY <2>6, <2>7, PartWay
  <2>9. Quantile(values, position) = below + part
    BY <1>2, <1>3, <1>5, <1>6, <1>10, <1>13, <2>3, <2>5, <2>7 DEF Quantile
  <2>. QED
    BY <1>11, <2>4, <2>5, <2>8, <2>9
<1>. QED
  BY <1>12, <1>13

-----------------------------------------------------------------------------
(* Weighted (FixedPoint, Scoring) *)

(* clamp_ppm returns a share and moves nothing past a bound it met.        *)
LEMMA ClampType ==
  ASSUME NEW v \in Int
  PROVE  /\ Clamp(v) \in Shares
         /\ \A hi \in Nat : v <= hi => Clamp(v) <= hi
         /\ \A lo \in Int : lo <= v /\ lo <= PPM => lo <= Clamp(v)
BY FixedPointAssumption DEF Clamp, Shares

(* Two numbers weighed by two parts of a whole come out between them, but  *)
(* for the one part that the two roundings may lose.                       *)
LEMMA BlendWithin ==
  ASSUME NEW a \in Int, NEW b \in Int, NEW v \in Shares, NEW w \in Shares, v + w = PPM,
         NEW lo \in Int, NEW hi \in Int, lo <= a, lo <= b, a <= hi, b <= hi
  PROVE  /\ Times(a, v) + Times(b, w) \in Int
         /\ Times(a, v) + Times(b, w) <= hi
         /\ lo - 1 <= Times(a, v) + Times(b, w)
<1>1. PPM \in Nat \ {0} /\ v \in Nat /\ w \in Nat
  BY FixedPointAssumption DEF Shares
<1>2. PICK p \in Int : p = (a * v) \div PPM
  <2>1. PICK c \in Int : c = a * v
    BY <1>1
  <2>. QED
    BY <1>1, <2>1, Floor
<1>3. PICK q \in Int : q = (b * w) \div PPM
  <2>1. PICK c \in Int : c = b * w
    BY <1>1
  <2>. QED
    BY <1>1, <2>1, Floor
<1>4. /\ a * v \in Int /\ PPM * p <= a * v /\ a * v < PPM * p + PPM
      /\ b * w \in Int /\ PPM * q <= b * w /\ b * w < PPM * q + PPM
  BY <1>1, <1>2, <1>3, FloorBounds
<1>5. v * lo <= v * a /\ v * a <= v * hi /\ w * lo <= w * b /\ w * b <= w * hi
  BY <1>1, TimesMonotone
<1>6. /\ v * lo + w * lo = PPM * lo /\ v * hi + w * hi = PPM * hi
      /\ v * a = a * v /\ w * b = b * w
      /\ PPM * (p + q) = PPM * p + PPM * q
      /\ PPM * (p + q + 2) = PPM * p + PPM + (PPM * q + PPM)
      /\ PPM * (hi + 1) = PPM * hi + PPM
  <2>1. v * lo + w * lo = (v + w) * lo /\ v * hi + w * hi = (v + w) * hi
    BY <1>1
  <2>. QED
    BY <1>1, <2>1
<1>7. /\ PPM * p \in Int /\ PPM * q \in Int /\ PPM * lo \in Int /\ PPM * hi \in Int
      /\ v * lo \in Int /\ w * lo \in Int /\ v * hi \in Int /\ w * hi \in Int
  BY <1>1
<1>8. PPM * (p + q) < PPM * (hi + 1)
  BY <1>1, <1>4, <1>5, <1>6, <1>7
<1>9. PPM * lo < PPM * (p + q + 2)
  BY <1>1, <1>4, <1>5, <1>6, <1>7
<1>10. p + q < hi + 1 /\ lo < p + q + 2
  BY <1>1, <1>8, <1>9, TimesCancels
<1>. QED
  BY <1>2, <1>3, <1>10 DEF Times

(* The score of a day is a share.                                          *)
LEMMA DailyType ==
  ASSUME NEW challenges, Listed(challenges), Within(challenges, 0, PPM)
  PROVE  DailyScore(challenges) \in Shares
<1>1. PPM \in Nat \ {0}
  BY FixedPointAssumption
<1>2. _LOWER_QUARTILE_PPM \in Shares
  BY <1>1 DEF _LOWER_QUARTILE_PPM, Shares
<1>3. PICK m \in Int : m = Mean(challenges) /\ 0 <= m /\ m <= PPM
  BY <1>1, MeanWithin
<1>4. PICK q \in Int : q = Quantile(challenges, _LOWER_QUARTILE_PPM) /\ 0 <= q /\ q <= PPM
  BY <1>1, <1>2, QuantileWithin
<1>5. Times(m, daily_mean_weight_ppm) + Times(q, daily_q25_weight_ppm) \in Int
  BY <1>1, <1>3, <1>4, BlendWithin, ScoringAssumption
<1>. QED
  BY <1>3, <1>4, <1>5, ClampType DEF DailyScore

(* A window of at least a day on a history of at least a day               *)
LEMMA WindowListed ==
  ASSUME NEW scores, NEW n \in Nat \ {0}, DOMAIN scores = 1 .. n, Len(scores) = n,
         NEW lo, NEW hi, Within(scores, lo, hi), NEW days \in Nat \ {0}
  PROVE  Listed(Window(scores, days)) /\ Within(Window(scores, days), lo, hi)
<1> DEFINE W == {i \in 1 .. n : i > n - days}
<1>1. DOMAIN Window(scores, days) = W /\ \A i \in W : Window(scores, days)[i] = scores[i]
  BY DEF Window, Restrict
<1>2. n \in W /\ IsFiniteSet(W)
  BY FS_Interval, FS_Subset
<1>. QED
  BY <1>1, <1>2 DEF Listed, Within

(* A rolling score is never outside the days it was made of, but for the   *)
(* one part its roundings may lose.                                        *)
LEMMA RollingWithin ==
  ASSUME NEW scores, NEW n \in Nat \ {0}, DOMAIN scores = 1 .. n, Len(scores) = n,
         NEW lo \in Shares, NEW hi \in Shares, Within(scores, lo, hi)
  PROVE  /\ RollingScore(scores) \in Shares
         /\ RollingScore(scores) <= hi /\ lo - 1 <= RollingScore(scores)
<1>1. PPM \in Nat \ {0} /\ lo \in Nat /\ hi \in Nat /\ lo <= PPM /\ hi <= PPM
  BY FixedPointAssumption DEF Shares
<1>2. rolling_short_days \in Nat \ {0} /\ rolling_long_days \in Nat \ {0}
  BY ScoringAssumption
<1>3. Listed(scores)
  <2>1. IsFiniteSet(1 .. n) /\ 1 \in 1 .. n
    BY FS_Interval
  <2>. QED
    BY <2>1 DEF Listed
<1>4. PICK m \in Int : m = Mean(scores) /\ lo <= m /\ m <= hi
  BY <1>1, <1>3, MeanWithin
<1>5. PICK s \in Int : s = Median(Window(scores, rolling_short_days)) /\ lo <= s /\ s <= hi
  BY <1>1, <1>2, WindowListed, MedianWithin
<1>6. PICK l \in Int : l = Median(Window(scores, rolling_long_days)) /\ lo <= l /\ l <= hi
  BY <1>1, <1>2, WindowListed, MedianWithin
<1>7. PICK v \in Shares : v = rolling_short_weight_ppm
  BY ScoringAssumption
<1>8. PICK w \in Shares : w = rolling_long_weight_ppm /\ v + w = PPM
  BY <1>7, ScoringAssumption
<1>9. PICK blend : blend = Times(s, v) + Times(l, w)
  OBVIOUS
<1>10. blend \in Int /\ blend <= hi /\ lo - 1 <= blend
  BY <1>1, <1>5, <1>6, <1>8, <1>9, BlendWithin
<1>11. RollingScore(scores) \in {Clamp(m), Clamp(blend)}
  BY <1>4, <1>5, <1>6, <1>7, <1>8, <1>9 DEF RollingScore
<1>12. \A x \in {m, blend} : x \in Int /\ x <= hi /\ lo - 1 <= x
  BY <1>1, <1>4, <1>10
<1>13. lo - 1 <= PPM /\ lo - 1 \in Int
  BY <1>1
<1>. QED
  BY <1>1, <1>11, <1>12, <1>13, ClampType

(* A weighted average of what is present lies between its values.          *)
LEMMA ApplyWithin ==
  ASSUME NEW values, NEW weights, IsFiniteSet(DOMAIN values),
         NEW lo \in Int, NEW hi \in Int, Within(values, lo, hi),
         \A k \in DOMAIN weights : weights[k] \in Nat,
         SumFunctionOnSet(weights, Slots(values, weights)) > 0
  PROVE  /\ ApplyWeights(values, weights) \in Int
         /\ lo <= ApplyWeights(values, weights) /\ ApplyWeights(values, weights) <= hi
<1> DEFINE S == Slots(values, weights)
           terms == [k \in S |-> values[k] * weights[k]]
           low == [k \in S |-> lo * weights[k]]
           high == [k \in S |-> hi * weights[k]]
<1>1. IsFiniteSet(S) /\ S \subseteq DOMAIN values /\ S \subseteq DOMAIN weights
  BY FS_Intersection DEF Slots
<1>2. \A k \in S : weights[k] \in Int
  BY <1>1
<1>3. PICK base \in Int : base = SumFunctionOnSet(weights, S)
  BY <1>1, <1>2, SumType
<1>4. base \in Nat \ {0}
  BY <1>3
<1>5. ASSUME NEW k \in S
      PROVE  /\ terms[k] \in Int /\ low[k] \in Int /\ high[k] \in Int
             /\ low[k] <= terms[k] /\ terms[k] <= high[k]
  <2>1. values[k] \in Int /\ lo <= values[k] /\ values[k] <= hi /\ weights[k] \in Nat
    BY <1>1, <1>5 DEF Within
  <2>2. PICK w \in Nat : w = weights[k]
    BY <2>1
  <2>3. PICK v \in Int : v = values[k]
    BY <2>1
  <2>4. w * lo <= w * v /\ w * v <= w * hi
    BY <2>1, <2>2, <2>3, TimesMonotone
  <2>5. w * lo = lo * w /\ w * v = v * w /\ w * hi = hi * w
    OBVIOUS
  <2>6. lo * w \in Int /\ v * w \in Int /\ hi * w \in Int
    OBVIOUS
  <2>. QED
    BY <1>5, <2>2, <2>3, <2>4, <2>5, <2>6
<1>6. \A k \in S : low[k] = lo * weights[k] /\ high[k] = hi * weights[k]
  OBVIOUS
<1> HIDE DEF low, high, terms
<1>7. SumFunctionOnSet(low, S) = lo * base
  BY <1>1, <1>2, <1>3, <1>6, SumScale
<1>8. SumFunctionOnSet(high, S) = hi * base
  BY <1>1, <1>2, <1>3, <1>6, SumScale
<1>9. SumFunctionOnSet(terms, S) \in Int
  BY <1>1, <1>5, SumType
<1>10. SumFunctionOnSet(low, S) <= SumFunctionOnSet(terms, S)
  BY <1>1, <1>5, SumAtMost
<1>11. SumFunctionOnSet(terms, S) <= SumFunctionOnSet(high, S)
  BY <1>1, <1>5, SumAtMost
<1>12. ApplyWeights(values, weights) = SumFunctionOnSet(terms, S) \div base
  <2>1. DOMAIN terms = S
    BY DEF terms
  <2>. QED
    BY <1>3, <2>1 DEF ApplyWeights, SumFunction, terms
<1>. QED
  BY <1>4, <1>7, <1>8, <1>9, <1>10, <1>11, <1>12, QuotientWithin

-----------------------------------------------------------------------------
(* One challenge (Judging, Scoring) *)

(* Every anchor of the scale is a share.                                   *)
LEMMA AnchorType == \A anchor \in DOMAIN ANCHOR_PPM : ANCHOR_PPM[anchor] \in Shares
<1> SUFFICES ASSUME NEW anchor \in 0 .. 4 PROVE (anchor * PPM) \div 4 \in Shares
  BY DEF ANCHOR_PPM
<1>1. PPM \in Nat \ {0} /\ anchor \in Nat
  BY FixedPointAssumption
<1>2. PPM * 0 <= PPM * anchor /\ PPM * anchor <= PPM * 4
  BY <1>1, TimesMonotone
<1>3. PICK a \in Int : a = anchor * PPM
  BY <1>1
<1>4. 0 * 4 <= a /\ a <= PPM * 4
  <2>1. PPM * 0 = 0 /\ PPM * anchor = anchor * PPM
    BY <1>1
  <2>. QED
    BY <1>1, <1>2, <1>3, <2>1
<1>. QED
  BY <1>1, <1>3, <1>4, QuotientWithin DEF Shares

(* A panel's score lies between its votes: a silent judge is not one.      *)
LEMMA AggregateWithin ==
  ASSUME NEW replies, IsFiniteSet(DOMAIN replies), Voted(replies) # {},
         NEW lo \in Int, NEW hi \in Int,
         \A judge \in Voted(replies) :
           lo <= ANCHOR_PPM[replies[judge]] /\ ANCHOR_PPM[replies[judge]] <= hi
  PROVE  /\ Aggregate(replies) \in Int
         /\ lo <= Aggregate(replies) /\ Aggregate(replies) <= hi
<1> DEFINE votes == [judge \in Voted(replies) |-> ANCHOR_PPM[replies[judge]]]
<1>1. DOMAIN votes = Voted(replies)
  OBVIOUS
<1>2. IsFiniteSet(Voted(replies))
  BY FS_Subset DEF Voted
<1>3. Listed(votes)
  BY <1>1, <1>2 DEF Listed
<1>4. \A judge \in Voted(replies) : ANCHOR_PPM[replies[judge]] \in Int
  BY AnchorType DEF Voted, Shares
<1>5. Within(votes, lo, hi)
  BY <1>4 DEF Within
<1>6. Aggregate(replies) = Mean(votes)
  BY <1>1 DEF Aggregate, Mean, Count
<1> HIDE DEF votes
<1>. QED
  BY <1>3, <1>5, <1>6, MeanWithin

(* A place among those compared is a share, whatever the strengths are.    *)
LEMMA PlaceType ==
  ASSUME NEW strengths, IsFiniteSet(DOMAIN strengths), NEW uid \in DOMAIN strengths
  PROVE  StrengthsToPpm(strengths)[uid] \in Shares
<1> DEFINE stronger == {v \in DOMAIN strengths : strengths[v] > strengths[uid]}
<1>1. PPM \in Nat \ {0}
  BY FixedPointAssumption
<1>2. PICK n \in Nat \ {0} : n = Cardinality(DOMAIN strengths)
  BY FS_CardinalityType, FS_EmptySet
<1>3. PICK s \in Nat : s = Cardinality(stronger)
  BY FS_Subset, FS_CardinalityType
<1>4. StrengthsToPpm(strengths)[uid] = IF n = 1 THEN PPM \div 2
                                       ELSE Clamp(PPM - ((s * PPM) \div (n - 1)))
  BY <1>2, <1>3 DEF StrengthsToPpm
<1>5. CASE n = 1
  BY <1>1, <1>4, <1>5 DEF Shares
<1>6. CASE n # 1
  <2>1. PICK a \in Int : a = s * PPM
    BY <1>1
  <2>2. n - 1 \in Nat \ {0}
    BY <1>6
  <2>3. a \div (n - 1) \in Int
    BY <2>2, Floor
  <2>. QED
    BY <1>1, <1>4, <1>6, <2>1, <2>3, ClampType
<1>. QED
  BY <1>5, <1>6

(* A criterion lies between its two measurements, where it has both, and   *)
(* is the one it has where it has one.                                     *)
LEMMA CombineWithin ==
  ASSUME NEW point, NEW pair, NEW c \in Measured(point, pair),
         NEW lo \in Shares, NEW hi \in Shares, Within(point, lo, hi), Within(pair, lo, hi)
  PROVE  /\ Combine(point, pair, c) \in Shares
         /\ Combine(point, pair, c) <= hi /\ lo - 1 <= Combine(point, pair, c)
<1>1. PPM \in Nat \ {0} /\ lo \in Nat /\ hi \in Nat /\ lo <= PPM /\ hi <= PPM
  BY FixedPointAssumption DEF Shares
<1>2. \E x \in Int : Combine(point, pair, c) = Clamp(x) /\ x <= hi /\ lo - 1 <= x
  <2>1. CASE c \notin DOMAIN point
    <3>1. c \in DOMAIN pair
      BY <2>1 DEF Measured
    <3>2. pair[c] \in Int /\ lo <= pair[c] /\ pair[c] <= hi
      BY <3>1 DEF Within
    <3>. QED
      BY <1>1, <2>1, <3>2 DEF Combine
  <2>2. CASE c \in DOMAIN point /\ c \notin DOMAIN pair
    <3>1. point[c] \in Int /\ lo <= point[c] /\ point[c] <= hi
      BY <2>2 DEF Within
    <3>. QED
      BY <1>1, <2>2, <3>1 DEF Combine
  <2>3. CASE c \in DOMAIN point /\ c \in DOMAIN pair
    <3>1. PICK a \in Int : a = pair[c] /\ lo <= a /\ a <= hi
      BY <2>3 DEF Within
    <3>2. PICK b \in Int : b = point[c] /\ lo <= b /\ b <= hi
      BY <2>3 DEF Within
    <3>3. PICK v \in Shares : v = pairwise_weight_ppm
      BY ScoringAssumption
    <3>4. PICK w \in Shares : w = pointwise_weight_ppm /\ v + w = PPM
      BY <3>3, ScoringAssumption
    <3>5. PICK x : x = Times(a, v) + Times(b, w)
      OBVIOUS
    <3>6. x \in Int /\ x <= hi /\ lo - 1 <= x
      <4>1. lo \in Int /\ hi \in Int
        BY <1>1
      <4>. QED
        BY <3>1, <3>2, <3>4, <3>5, <4>1, BlendWithin
    <3>. QED
      BY <2>3, <3>1, <3>2, <3>3, <3>4, <3>5, <3>6 DEF Combine
  <2>. QED
    BY <2>1, <2>2, <2>3
<1>3. lo - 1 \in Int /\ lo - 1 <= PPM
  BY <1>1
<1>. QED
  BY <1>1, <1>2, <1>3, ClampType

(* A challenge's score lies between the least and the greatest of what was *)
(* measured, but for the cap on a weak mechanism and one part of rounding. *)
LEMMA ChallengeWithin ==
  ASSUME NEW point, NEW pair, Scoreable(point, pair),
         NEW lo \in Shares, NEW hi \in Shares, Within(point, lo, hi), Within(pair, lo, hi),
         NEW low \in Shares, low <= lo, low <= capped_on_weak_mechanism_ppm
  PROVE  /\ ChallengeScore(point, pair) \in Shares
         /\ ChallengeScore(point, pair) <= hi /\ low - 1 <= ChallengeScore(point, pair)
<1> DEFINE S == Measured(point, pair) \cap DOMAIN criterion_weights_ppm
           combined == [c \in S |-> Combine(point, pair, c)]
           floored == ApplyMechanismFloor(combined)
<1>1. /\ PPM \in Nat \ {0}
      /\ {lo, hi, low} \subseteq Nat /\ lo <= PPM /\ hi <= PPM /\ low <= PPM
  BY FixedPointAssumption DEF Shares
<1>2. IsFiniteSet(S) /\ S \subseteq Measured(point, pair)
  BY ScoringAssumption, FS_Subset
<1>3. \A c \in S : /\ combined[c] \in Int /\ combined[c] <= hi /\ lo - 1 <= combined[c]
  <2>1. \A c \in S : /\ Combine(point, pair, c) \in Shares
                     /\ Combine(point, pair, c) <= hi /\ lo - 1 <= Combine(point, pair, c)
    BY <1>2, CombineWithin
  <2>. QED
    BY <1>1, <2>1 DEF Shares
<1>4. DOMAIN combined = S
  OBVIOUS
<1> HIDE DEF combined
<1>5. DOMAIN floored = S
  BY <1>4 DEF ApplyMechanismFloor
<1>6. \A c \in S : \/ floored[c] = combined[c]
                  \/ /\ floored[c] = capped_on_weak_mechanism_ppm
                     /\ floored[c] < combined[c]
  BY <1>1, <1>3, <1>4, ScoringAssumption DEF ApplyMechanismFloor, Shares
<1> HIDE DEF floored
<1>7. Within(floored, low - 1, hi)
  <2>1. capped_on_weak_mechanism_ppm \in Nat
    BY ScoringAssumption DEF Shares
  <2>. QED
    BY <1>1, <1>3, <1>5, <1>6, <2>1 DEF Within
<1>8. Slots(floored, criterion_weights_ppm) = S
  BY <1>5 DEF Slots
<1>9. SumFunctionOnSet(criterion_weights_ppm, Slots(floored, criterion_weights_ppm)) > 0
  BY <1>8 DEF Scoreable
<1>10. \A c \in DOMAIN criterion_weights_ppm : criterion_weights_ppm[c] \in Nat
  BY ScoringAssumption DEF Shares
<1>11. PICK x : x = ApplyWeights(floored, criterion_weights_ppm)
  OBVIOUS
<1>12. x \in Int /\ low - 1 <= x /\ x <= hi
  <2>1. IsFiniteSet(DOMAIN floored) /\ low - 1 \in Int /\ hi \in Int
    BY <1>1, <1>2, <1>5
  <2>. QED
    BY <1>7, <1>9, <1>10, <1>11, <2>1, ApplyWithin
<1>13. ChallengeScore(point, pair) = Clamp(x)
  BY <1>11 DEF ChallengeScore, floored, combined
<1>14. low - 1 \in Int /\ low - 1 <= PPM
  BY <1>1
<1>. QED
  BY <1>1, <1>12, <1>13, <1>14, ClampType

-----------------------------------------------------------------------------
(* Sorted lists and pairs (FixedPoint, Judging) *)

(* Sorting uids gives each of them a position.                             *)
LEMMA SortedIn ==
  ASSUME NEW S, IsFiniteSet(S), S \subseteq Int
  PROVE  /\ InOrder(S, <) \in [1 .. Cardinality(S) -> S]
         /\ Cardinality(S) \in Nat
<1> DEFINE R == {p \in S \X S : p[1] < p[2]}
<1>1. StrictOrder(R, S)
  <2>1. \A x, y \in S : <<x, y>> \in R <=> x < y
    OBVIOUS
  <2> HIDE DEF R
  <2>. QED
    BY <2>1 DEF StrictOrder
<1>2. \A x \in S : Preceding(R, S, x) = {y \in S : y < x}
  BY DEF Preceding
<1> HIDE DEF R
<1>3. \A k \in 1 .. Cardinality(S) :
        \E x \in S : Cardinality(Preceding(R, S, x)) = k - 1
  BY <1>1, RankTaken
<1>4. \A k \in 1 .. Cardinality(S) : \E x \in S : Cardinality({y \in S : y < x}) = k - 1
  BY <1>2, <1>3
<1>. QED
  BY <1>4, FS_CardinalityType DEF InOrder

(* Sorting standings by score and uid gives each of them a position.       *)
LEMMA RankedIn ==
  ASSUME NEW standings, IsFiniteSet(DOMAIN standings), Range(standings) \subseteq Int \X Int
  PROVE  /\ Ranked(standings) \in [1 .. Cardinality(Range(standings)) -> Range(standings)]
         /\ Cardinality(Range(standings)) \in Nat
<1> DEFINE S == Range(standings)
           Above(a, b) == \/ a[2] > b[2]
                          \/ a[2] = b[2] /\ a[1] < b[1]
           R == {p \in S \X S : Above(p[1], p[2])}
<1>0. IsFiniteSet(S) /\ Cardinality(S) \in Nat
  BY FiniteRange, FS_CardinalityType
<1>1. StrictOrder(R, S)
  <2>1. \A x, y \in S : <<x, y>> \in R <=> Above(x, y)
    OBVIOUS
  <2>2. \A x \in S : x[1] \in Int /\ x[2] \in Int /\ x = <<x[1], x[2]>>
    OBVIOUS
  <2> HIDE DEF R, S
  <2>3. \A x \in S : <<x, x>> \notin R
    BY <2>1, <2>2
  <2>4. \A x, y \in S : x # y => <<x, y>> \in R \/ <<y, x>> \in R
    BY <2>1, <2>2
  <2>5. \A x, y, z \in S : <<x, y>> \in R /\ <<y, z>> \in R => <<x, z>> \in R
    BY <2>1, <2>2
  <2>. QED
    BY <2>3, <2>4, <2>5 DEF StrictOrder
<1>2. \A x \in S : Preceding(R, S, x) = {y \in S : Above(y, x)}
  BY DEF Preceding
<1> HIDE DEF R, S
<1>3. \A k \in 1 .. Cardinality(S) :
        \E x \in S : Cardinality(Preceding(R, S, x)) = k - 1
  BY <1>0, <1>1, RankTaken
<1>4. \A k \in 1 .. Cardinality(S) : \E x \in S : Cardinality({y \in S : Above(y, x)}) = k - 1
  BY <1>2, <1>3
<1>5. Ranked(standings) = [k \in 1 .. Cardinality(S) |->
                             CHOOSE x \in S : Cardinality({y \in S : Above(y, x)}) = k - 1]
  BY DEF Ranked, InOrder, S
<1>6. Ranked(standings) \in [1 .. Cardinality(S) -> S]
  BY <1>4, <1>5
<1>. QED
  BY <1>0, <1>6 DEF S

(* The first of a list that is still to be paired is one of them.          *)
LEMMA EarliestIn ==
  ASSUME NEW ordered, NEW n \in Nat, DOMAIN ordered = 1 .. n,
         NEW left, left # {}, left \subseteq Range(ordered)
  PROVE  Earliest(ordered, left) \in left
<1> DEFINE T == {i \in 1 .. n : ordered[i] \in left}
<1>1. T # {} /\ T \subseteq Nat
  BY DEF Range
<1>2. PICK i \in T : \A m \in T : i <= m
  BY <1>1, SmallestNumber
<1>3. /\ i \in DOMAIN ordered
      /\ ordered[i] \in left
      /\ \A j \in 1 .. i - 1 : ordered[j] \notin left
  BY <1>1, <1>2
<1>. QED
  BY <1>3 DEF Earliest

(* The pairs of SwissPairings, as the function its definition recurses on  *)
Met(ordered, faced, left) ==
  LET first  == Earliest(ordered, left)
      others == left \ {first}
      fresh  == {uid \in others : {first, uid} \notin faced}
      second == Earliest(ordered, IF fresh = {} THEN others ELSE fresh)
  IN  {first, second}

Pairing(g, ordered, faced, D) ==
  g = [left \in D |-> IF Cardinality(left) < 2 THEN {}
                      ELSE {Met(ordered, faced, left)} \cup g[left \ Met(ordered, faced, left)]]

(* The first left and its partner are two of those left, so fewer remain.  *)
LEMMA MetIn ==
  ASSUME NEW ordered, NEW n \in Nat, DOMAIN ordered = 1 .. n, NEW faced,
         NEW left \in SUBSET Range(ordered), IsFiniteSet(left), ~ (Cardinality(left) < 2)
  PROVE  /\ Met(ordered, faced, left) \subseteq left
         /\ IsFiniteSet(left \ Met(ordered, faced, left))
         /\ Cardinality(left \ Met(ordered, faced, left)) < Cardinality(left)
<1> DEFINE first  == Earliest(ordered, left)
           others == left \ {first}
           fresh  == {uid \in others : {first, uid} \notin faced}
           choice == IF fresh = {} THEN others ELSE fresh
           second == Earliest(ordered, choice)
           rest   == left \ Met(ordered, faced, left)
<1>1. Cardinality(left) \in Nat /\ left # {}
  BY FS_CardinalityType, FS_EmptySet
<1>2. first \in left
  BY <1>1, EarliestIn
<1> HIDE DEF first
<1>3. others # {}
  <2>1. Cardinality(others) = Cardinality(left) - 1
    BY <1>2, FS_RemoveElement
  <2>2. Cardinality(others) # 0
    BY <1>1, <2>1
  <2>. QED
    BY <2>2, FS_EmptySet
<1>4. choice # {} /\ choice \subseteq others
  BY <1>3
<1> HIDE DEF choice
<1>5. second \in others
  BY <1>4, EarliestIn
<1>6. Met(ordered, faced, left) = {first, second}
  BY DEF Met, first, choice
<1>7. rest \subseteq left /\ rest # left
  BY <1>2, <1>6
<1>8. IsFiniteSet(rest) /\ Cardinality(rest) < Cardinality(left)
  BY <1>7, FS_Subset, FS_CardinalityType
<1>. QED
  BY <1>2, <1>5, <1>6, <1>8

(* A pairing of all fields of k is one of all fields of k + 1.             *)
LEMMA PairingGrows ==
  ASSUME NEW ordered, NEW n \in Nat, DOMAIN ordered = 1 .. n, NEW faced,
         NEW S, S = Range(ordered), IsFiniteSet(S), NEW k \in Nat,
         NEW g, Pairing(g, ordered, faced, Small(S, k))
  PROVE  \E h : Pairing(h, ordered, faced, Small(S, k + 1))
<1> DEFINE rest(left) == left \ Met(ordered, faced, left)
           h == [left \in Small(S, k + 1) |->
                   IF Cardinality(left) < 2 THEN {}
                   ELSE {Met(ordered, faced, left)} \cup g[rest(left)]]
<1>0. \A left \in Small(S, k + 1) :
        IsFiniteSet(left) /\ left \in SUBSET S /\ Cardinality(left) \in Nat
  BY FS_Subset, FS_CardinalityType DEF Small
<1>1. ASSUME NEW left \in Small(S, k + 1), ~ (Cardinality(left) < 2)
      PROVE  rest(left) \in Small(S, k) \cap Small(S, k + 1)
  <2>1. /\ IsFiniteSet(rest(left)) /\ rest(left) \subseteq S
        /\ Cardinality(rest(left)) < Cardinality(left)
    BY <1>0, <1>1, MetIn
  <2>2. Cardinality(rest(left)) \in Nat
    BY <2>1, FS_CardinalityType
  <2>3. Cardinality(left) <= k + 1 /\ Cardinality(left) \in Nat
    BY <1>0 DEF Small
  <2>4. Cardinality(rest(left)) <= k /\ Cardinality(rest(left)) <= k + 1
    BY <2>1, <2>2, <2>3
  <2>. QED
    BY <2>1, <2>4 DEF Small
<1>2. ASSUME NEW left \in Small(S, k) \cap Small(S, k + 1)
      PROVE  h[left] = g[left]
  <2>1. g[left] = IF Cardinality(left) < 2 THEN {}
                  ELSE {Met(ordered, faced, left)} \cup g[rest(left)]
    BY Zenon DEF Pairing
  <2>2. h[left] = IF Cardinality(left) < 2 THEN {}
                  ELSE {Met(ordered, faced, left)} \cup g[rest(left)]
    OBVIOUS
  <2>. QED
    BY <2>1, <2>2
<1>3. \A left \in Small(S, k + 1) : ~ (Cardinality(left) < 2) => h[rest(left)] = g[rest(left)]
  BY <1>1, <1>2
<1>4. Pairing(h, ordered, faced, Small(S, k + 1))
  BY <1>3 DEF Pairing
<1>. QED
  BY <1>4

(* The greedy pairing is defined on every field: there is no least size    *)
(* for which it is not.                                                    *)
LEMMA PairingExists ==
  ASSUME NEW ordered, NEW n \in Nat, DOMAIN ordered = 1 .. n, NEW faced
  PROVE  \E g : Pairing(g, ordered, faced, SUBSET Range(ordered))
<1> DEFINE S == Range(ordered)
           Bad == {k \in Nat : ~ \E g : Pairing(g, ordered, faced, Small(S, k))}
<1>0. IsFiniteSet(S)
  BY FS_Interval, FiniteRange
<1> HIDE DEF S
<1>1. Bad = {}
  <2> SUFFICES ASSUME Bad # {} PROVE FALSE
    OBVIOUS
  <2>1. PICK k \in Bad : \A m \in Bad : k <= m
    BY SmallestNumber
  <2>2. CASE k = 0
    <3> DEFINE g == [s \in Small(S, 0) |-> {}]
    <3>1. \A s \in Small(S, 0) : Cardinality(s) < 2
      BY <1>0, FS_Subset, FS_CardinalityType DEF Small
    <3>2. Pairing(g, ordered, faced, Small(S, 0))
      BY <3>1 DEF Pairing
    <3>. QED
      BY <2>2, <3>2
  <2>3. CASE k # 0
    <3>1. k - 1 \in Nat /\ k - 1 \notin Bad /\ (k - 1) + 1 = k
      BY <2>1, <2>3
    <3>2. PICK g : Pairing(g, ordered, faced, Small(S, k - 1))
      BY <3>1
    <3>3. \E h : Pairing(h, ordered, faced, Small(S, k))
      BY <1>0, <3>1, <3>2, PairingGrows DEF S
    <3>. QED
      BY <3>3
  <2>. QED
    BY <2>2, <2>3
<1>2. Cardinality(S) \in Nat
  BY <1>0, FS_CardinalityType
<1>3. Small(S, Cardinality(S)) = SUBSET S
  BY <1>0, FS_Subset DEF Small
<1>4. \E g : Pairing(g, ordered, faced, Small(S, Cardinality(S)))
  BY <1>1, <1>2
<1>5. \E g : Pairing(g, ordered, faced, SUBSET S)
  BY <1>3, <1>4
<1>. QED
  BY <1>5 DEF S

(* Whoever is paired is on the list.                                       *)
LEMMA PairedIn ==
  ASSUME NEW ordered, NEW n \in Nat, DOMAIN ordered = 1 .. n, NEW faced,
         NEW g, Pairing(g, ordered, faced, SUBSET Range(ordered))
  PROVE  \A left \in SUBSET Range(ordered) : \A p \in g[left] : p \subseteq left
<1> DEFINE S == Range(ordered)
           Bad == {left \in SUBSET S : ~ \A p \in g[left] : p \subseteq left}
<1>0. IsFiniteSet(S)
  BY FS_Interval, FiniteRange
<1> SUFFICES ASSUME Bad # {} PROVE FALSE
  OBVIOUS
<1>1. \A left \in Bad : IsFiniteSet(left)
  BY <1>0, FS_Subset
<1> HIDE DEF Bad
<1>2. PICK left \in Bad : \A t \in Bad : t \subseteq left => t = left
  BY <1>1, SmallestSet
<1>3. left \in SUBSET S /\ IsFiniteSet(left)
  BY <1>1, <1>2 DEF Bad
<1>4. g[left] = IF Cardinality(left) < 2 THEN {}
                ELSE {Met(ordered, faced, left)} \cup g[left \ Met(ordered, faced, left)]
  BY <1>3, Zenon DEF Pairing
<1>5. ~ (Cardinality(left) < 2)
  BY <1>2, <1>4 DEF Bad
<1>6. PICK rest : rest = left \ Met(ordered, faced, left)
  OBVIOUS
<1>7. /\ Met(ordered, faced, left) \subseteq left
      /\ rest \subseteq left
      /\ rest # left
  <2>1. Cardinality(rest) < Cardinality(left) /\ Met(ordered, faced, left) \subseteq left
    BY <1>3, <1>5, <1>6, MetIn
  <2>2. Cardinality(left) \in Nat
    BY <1>3, FS_CardinalityType
  <2>3. rest # left
    BY <2>1, <2>2
  <2>. QED
    BY <1>6, <2>1, <2>3
<1>8. rest \notin Bad /\ rest \in SUBSET S
  BY <1>2, <1>3, <1>7
<1>9. \A p \in g[rest] : p \subseteq rest
  BY <1>8 DEF Bad
<1>10. \A p \in g[left] : p \subseteq left
  BY <1>4, <1>5, <1>6, <1>7, <1>9
<1>. QED
  BY <1>2, <1>10 DEF Bad

(* Only who is in the standings is paired.                                 *)
LEMMA SwissIn ==
  ASSUME NEW standings, IsFiniteSet(DOMAIN standings), Range(standings) \subseteq Int \X Int,
         NEW faced
  PROVE  \A p \in SwissPairings(standings, faced) :
           p \subseteq {s[1] : s \in Range(standings)}
<1> DEFINE n == Cardinality(Range(standings))
           ranked == Ranked(standings)
           ordered == [i \in DOMAIN ranked |-> ranked[i][1]]
           g == CHOOSE h : Pairing(h, ordered, faced, SUBSET Range(ordered))
<1>1. n \in Nat /\ DOMAIN ranked = 1 .. n /\ \A i \in 1 .. n : ranked[i] \in Range(standings)
  BY RankedIn
<1>2. DOMAIN ordered = 1 .. n /\ Range(ordered) \subseteq {s[1] : s \in Range(standings)}
  BY <1>1 DEF Range
<1>3. SwissPairings(standings, faced) = IF Len(ordered) < 2 THEN {}
                                        ELSE g[Range(ordered) \ Byes(ordered)]
  BY Zenon DEF SwissPairings, Pairing, Met
<1>4. Pairing(g, ordered, faced, SUBSET Range(ordered))
  <2> HIDE DEF n, ordered
  <2>1. \E h : Pairing(h, ordered, faced, SUBSET Range(ordered))
    BY <1>1, <1>2, PairingExists
  <2>. QED
    BY <2>1, Zenon
<1> HIDE DEF n, ordered, g, ranked
<1>5. \A p \in g[Range(ordered) \ Byes(ordered)] : p \subseteq Range(ordered)
  <2>1. \A left \in SUBSET Range(ordered) : \A p \in g[left] : p \subseteq left
    BY <1>1, <1>2, <1>4, PairedIn
  <2>2. PICK left : left = Range(ordered) \ Byes(ordered)
    OBVIOUS
  <2>3. left \in SUBSET Range(ordered)
    BY <2>2
  <2>4. \A p \in g[left] : p \subseteq left
    BY <2>1, <2>3
  <2>. QED
    BY <2>2, <2>3, <2>4
<1>. QED
  BY <1>2, <1>3, <1>5

-----------------------------------------------------------------------------
(* Cutting shares to the cap and handing on what was cut (Weights) *)

(* While shares are cut: they are of laboratories, those that were cut     *)
(* stay at the cap, and they add up.                                       *)
Cuttable ==
  /\ DOMAIN shares \subseteq Labs /\ DOMAIN shares # {}
  /\ \A uid \in DOMAIN shares : shares[uid] \in Nat
  /\ capped \subseteq DOMAIN shares
  /\ \A uid \in capped : shares[uid] = Cap
  /\ SharesAddUp

(* The cap in force is a share.                                            *)
LEMMA CapType == Cap \in Shares
<1>1. maximum_weight_ppm \in Shares /\ PPM \in Shares
  BY WeightsAssumption, FixedPointAssumption DEF Shares
<1>. QED
  BY <1>1 DEF Cap, EffectiveCap

(* What one pass hands on: never more than was cut, and less than that by  *)
(* fewer parts than there are receivers; who holds more is handed more.    *)
LEMMA HandedOn ==
  ASSUME NEW S, IsFiniteSet(S), S # {}, NEW part, \A x \in S : part[x] \in Nat,
         NEW whole \in Nat, NEW base, base = SumFunctionOnSet(part, S),
         NEW gain,
         \A x \in S : gain[x] = IF base <= 0 THEN whole \div Cardinality(S)
                                ELSE (whole * part[x]) \div base
  PROVE  /\ \A x \in S : gain[x] \in Nat
         /\ \A x, y \in S : part[x] >= part[y] => gain[x] >= gain[y]
         /\ SumFunctionOnSet(gain, S) \in Int
         /\ SumFunctionOnSet(gain, S) <= whole
         /\ whole - SumFunctionOnSet(gain, S) < Cardinality(S)
<1>0. base \in Int
  BY SumType
<1>1. PICK n : n = Cardinality(S)
  OBVIOUS
<1>2. n \in Nat \ {0}
  BY <1>1, FS_CardinalityType, FS_EmptySet
<1>3. CASE base <= 0
  <2>1. PICK q : q = whole \div n
    OBVIOUS
  <2>2. q \in Nat /\ n * q <= whole /\ whole < n * q + n
    BY <1>2, <2>1, FloorBounds
  <2>3. \A x \in S : gain[x] = q
    BY <1>1, <1>3, <2>1
  <2>4. SumFunctionOnSet(gain, S) = q * n
    BY <1>1, <2>2, <2>3, SumConstant
  <2>5. PICK given : given = n * q /\ given \in Int /\ given = q * n
    BY <1>2, <2>2
  <2>. QED
    BY <1>1, <1>2, <2>2, <2>3, <2>4, <2>5
<1>4. CASE base > 0
  <2>1. \A x \in S : gain[x] = (whole * part[x]) \div base
    BY <1>0, <1>4
  <2>2. /\ \A x \in S : gain[x] \in Nat
        /\ SumFunctionOnSet(gain, S) \in Int
        /\ SumFunctionOnSet(gain, S) <= whole
        /\ whole - SumFunctionOnSet(gain, S) < Cardinality(S)
    BY <1>4, <2>1, FloorShares
  <2>3. ASSUME NEW x \in S, NEW y \in S, part[x] >= part[y]
        PROVE  gain[x] >= gain[y]
    <3>1. PICK a \in Int : a = whole * part[x]
      OBVIOUS
    <3>2. PICK b \in Int : b = whole * part[y]
      OBVIOUS
    <3>3. b <= a
      BY <2>3, <3>1, <3>2, TimesMonotone
    <3>4. PICK p, q : p = a \div base /\ q = b \div base
      OBVIOUS
    <3>5. p \in Int /\ q \in Int /\ base * q <= b /\ a < base * p + base
      <4>1. base \in Nat \ {0}
        BY <1>0, <1>4
      <4>2. p \in Int /\ a < base * p + base
        BY <3>4, <4>1, FloorBounds, Floor
      <4>3. q \in Int /\ base * q <= b
        BY <3>4, <4>1, FloorBounds, Floor
      <4>. QED
        BY <4>2, <4>3
    <3>6. base * q < base * (p + 1)
      <4>1. base * (p + 1) = base * p + base
        BY <1>0, <3>5
      <4>2. base * q \in Int /\ base * p \in Int
        BY <1>0, <3>5
      <4>. QED
        BY <1>0, <3>3, <3>5, <4>1, <4>2
    <3>7. q < p + 1
      BY <1>0, <1>4, <3>5, <3>6, TimesCancels
    <3>. QED
      BY <2>1, <3>1, <3>2, <3>4, <3>5, <3>7
  <2>. QED
    BY <2>2, <2>3
<1>. QED
  BY <1>0, <1>3, <1>4

(* One pass: nobody who was cut gains, nobody else loses, nothing is       *)
(* handed out twice, and what is lost is rounding.                         *)
LEMMA CapPassKeeps ==
  ASSUME Cuttable, CapPass
  PROVE  /\ DOMAIN shares' = DOMAIN shares /\ Cap' = Cap /\ vector' = vector
         /\ capped' = capped \cup Over
         /\ \A uid \in Over : shares[uid] > Cap /\ shares'[uid] = Cap
         /\ \A uid \in capped : shares'[uid] = shares[uid]
         /\ \A uid \in DOMAIN shares \ capped' : shares'[uid] \in Nat /\ shares'[uid] >= shares[uid]
         /\ \A i, j \in DOMAIN shares \ capped' : shares[i] >= shares[j] => shares'[i] >= shares'[j]
         /\ Cuttable'
<1> DEFINE D         == DOMAIN shares
           receivers == D \ (capped \cup Over)
           overflow  == SumFunctionOnSet(shares, Over) - Cap * Cardinality(Over)
           base      == SumFunctionOnSet(shares, receivers)
           gain      == [uid \in receivers |->
                           IF base <= 0 THEN overflow \div Cardinality(receivers)
                                        ELSE (overflow * shares[uid]) \div base]
<1>1. /\ Over # {} /\ Over \subseteq D
      /\ \A uid \in Over : shares[uid] > Cap
      /\ D \in SUBSET Labs /\ \A uid \in D : shares[uid] \in Nat
      /\ capped \subseteq D /\ \A uid \in capped : shares[uid] = Cap
      /\ Cap \in Nat
  BY CapType DEF CapPass, Over, Cuttable, Shares
<1>2. Over \cap capped = {}
  BY <1>1
<1>3. /\ DOMAIN shares' = D
      /\ \A uid \in Over : shares'[uid] = Cap
      /\ \A uid \in receivers : shares'[uid] = shares[uid] + gain[uid]
      /\ \A uid \in capped : shares'[uid] = shares[uid]
      /\ capped' = capped \cup Over /\ vector' = vector
  BY <1>1, <1>2, Zenon DEF CapPass
<1>4. Cap' = Cap
  BY <1>3 DEF Cap
<1>5. IsFiniteSet(D) /\ IsFiniteSet(Over) /\ IsFiniteSet(receivers) /\ IsFiniteSet(capped)
  BY <1>1, WeightsAssumption, FS_Subset
<1>6. PICK o, k, b : /\ o = SumFunctionOnSet(shares, Over) /\ o \in Int
                     /\ k = SumFunctionOnSet(shares, capped) /\ k \in Int
                     /\ b = base /\ b \in Int
  <2>1. SumFunctionOnSet(shares, Over) \in Int
    BY <1>1, <1>5, SumType
  <2>2. SumFunctionOnSet(shares, capped) \in Int
    BY <1>1, <1>5, SumType
  <2>3. base \in Int
    BY <1>1, <1>5, SumType
  <2>. QED
    BY <2>1, <2>2, <2>3
<1>7. PICK n, cut : /\ n = Cardinality(Over) /\ n \in Nat /\ n > 0
                    /\ cut = Cap * n /\ cut \in Int
  BY <1>1, <1>5, FS_CardinalityType, FS_EmptySet
<1>8. overflow = o - cut /\ overflow \in Nat
  <2>1. PICK even : even = [uid \in Over |-> Cap]
    OBVIOUS
  <2>2. SumFunctionOnSet(even, Over) = cut
    BY <1>1, <1>5, <1>7, <2>1, SumConstant
  <2>3. SumFunctionOnSet(even, Over) <= o
    BY <1>1, <1>5, <1>6, <2>1, SumAtMost
  <2>. QED
    BY <1>6, <1>7, <2>2, <2>3
<1> HIDE DEF D, receivers, overflow, base, gain
<1>9. /\ \A uid \in receivers : gain[uid] \in Nat
      /\ \A i, j \in receivers : shares[i] >= shares[j] => gain[i] >= gain[j]
      /\ SumFunctionOnSet(gain, receivers) \in Int
      /\ SumFunctionOnSet(gain, receivers) <= overflow
      /\ receivers # {} => overflow - SumFunctionOnSet(gain, receivers) < Cardinality(receivers)
  <2>1. CASE receivers = {}
    BY <1>8, <2>1, SumEmpty
  <2>2. CASE receivers # {}
    <3>1. \A x \in receivers : shares[x] \in Nat
      BY <1>1 DEF receivers, D
    <3>2. \A x \in receivers : gain[x] = IF base <= 0 THEN overflow \div Cardinality(receivers)
                                          ELSE (overflow * shares[x]) \div base
      BY DEF gain
    <3>. QED
      BY <1>5, <1>8, <2>2, <3>1, <3>2, HandedOn DEF base
  <2>. QED
    BY <2>1, <2>2
<1>10. PICK g : g = SumFunctionOnSet(gain, receivers) /\ g \in Int /\ g <= overflow
  BY <1>9
<1>11. /\ D = Over \cup (capped \cup receivers)
       /\ Over \cap (capped \cup receivers) = {} /\ capped \cap receivers = {}
       /\ IsFiniteSet(capped \cup receivers)
  <2>1. IsFiniteSet(capped \cup receivers)
    BY <1>5, FS_Union
  <2>. QED
    BY <1>1, <1>2, <2>1 DEF receivers, D
<1>12. SumFunctionOnSet(shares, D) = o + (k + b)
  <2>1. SumFunctionOnSet(shares, capped \cup receivers) = k + b
    <3>1. \A x \in capped \cup receivers : shares[x] \in Int
      BY <1>1, <1>11 DEF D
    <3>2. SumFunctionOnSet(shares, capped \cup receivers)
            = SumFunctionOnSet(shares, capped) + SumFunctionOnSet(shares, receivers)
      BY <1>5, <1>11, <3>1, SumSplit
    <3>. QED
      BY <1>6, <3>2 DEF base
  <2>. QED
    BY <1>1, <1>5, <1>6, <1>11, <2>1, SumSplit DEF D
<1>13. PICK after : after = shares'
  OBVIOUS
<1>14. \A uid \in D : after[uid] \in Nat
  BY <1>1, <1>3, <1>9, <1>11, <1>13 DEF D
<1>15. SumFunctionOnSet(after, D) = cut + (k + (b + g))
  <2>1. SumFunctionOnSet(after, Over) = cut
    BY <1>1, <1>3, <1>5, <1>7, <1>13, SumConstant
  <2>2. SumFunctionOnSet(after, capped) = k
    BY <1>3, <1>5, <1>6, <1>13, SumSame
  <2>3. SumFunctionOnSet(after, receivers) = b + g
    <3>1. \A x \in receivers : shares[x] \in Int /\ gain[x] \in Int /\ after[x] = shares[x] + gain[x]
      BY <1>1, <1>3, <1>9, <1>11, <1>13 DEF D
    <3>2. SumFunctionOnSet(after, receivers)
            = SumFunctionOnSet(shares, receivers) + SumFunctionOnSet(gain, receivers)
      BY <1>5, <3>1, SumPlus
    <3>. QED
      BY <1>6, <1>10, <3>2 DEF base
  <2>4. SumFunctionOnSet(after, capped \cup receivers) = k + (b + g)
    BY <1>5, <1>11, <1>14, <2>2, <2>3, SumSplit
  <2>. QED
    BY <1>5, <1>11, <1>14, <2>1, <2>4, SumSplit
<1>16. PICK before \in Int, now \in Int :
         /\ before = SumFunctionOnSet(shares, D) /\ now = SumFunctionOnSet(after, D)
         /\ now = before - (overflow - g) /\ now <= before
  BY <1>6, <1>7, <1>8, <1>10, <1>12, <1>15
<1>17. PICK m, c, c1 \in Nat : m = Cardinality(D) /\ c = Cardinality(capped)
                              /\ c1 = Cardinality(capped \cup Over) /\ c1 = c + n
  <2>1. Cardinality(capped \cup Over) = Cardinality(capped) + Cardinality(Over)
    <3>1. capped \cap Over = {} /\ Cardinality(capped \cap Over) = 0
      BY <1>2, FS_EmptySet
    <3>2. Cardinality(capped \cup Over)
            = Cardinality(capped) + Cardinality(Over) - Cardinality(capped \cap Over)
      BY <1>5, FS_Union
    <3>3. Cardinality(capped) \in Nat /\ Cardinality(Over) \in Nat
      BY <1>5, FS_CardinalityType
    <3>. QED
      BY <3>1, <3>2, <3>3
  <2>. QED
    BY <1>5, <1>7, <2>1, FS_CardinalityType
<1>18. SumFunction(shares) = before /\ SumFunction(shares') = now
  BY <1>3, <1>13, <1>16 DEF SumFunction, D
<1>19. shares # Nobody /\ shares' # Nobody
  <2>1. \E uid : uid \in D
    BY <1>1
  <2>2. DOMAIN Nobody = {}
    BY DEF Nobody
  <2>. QED
    BY <1>3, <2>1, <2>2 DEF D
<1>20. before <= PPM /\ PPM - before < m * (1 + c)
  <2>1. capped # D
    BY <1>1, <1>2
  <2>. QED
    BY <1>17, <1>18, <1>19, <2>1 DEF Cuttable, SharesAddUp, D
<1>21. now <= PPM /\ (capped \cup Over = D \/ PPM - now < m * (1 + c1))
  <2>1. now <= PPM
    BY <1>16, <1>20, FixedPointAssumption
  <2>2. CASE receivers = {}
    BY <1>11, <2>1, <2>2
  <2>3. CASE receivers # {}
    <3>1. overflow - g < Cardinality(receivers) /\ Cardinality(receivers) <= m
          /\ Cardinality(receivers) \in Nat
      <4>1. receivers \subseteq D
        BY DEF receivers
      <4>. QED
        BY <1>5, <1>9, <1>10, <1>17, <2>3, <4>1, FS_Subset, FS_CardinalityType
    <3>2. m * (1 + (c + 1)) <= m * (1 + c1)
      BY <1>7, <1>17, TimesMonotone
    <3>3. PICK p, q, z \in Int : p = m * (1 + c) /\ q = m * (1 + (c + 1)) /\ z = m * (1 + c1)
      BY <1>17
    <3>4. q = p + m
      BY <1>17, <3>3
    <3>. QED
      BY <1>8, <1>10, <1>16, <1>17, <1>20, <2>1, <3>1, <3>2, <3>3, <3>4, FixedPointAssumption
  <2>. QED
    BY <2>2, <2>3
<1>22. SharesAddUp'
  BY <1>3, <1>17, <1>18, <1>21 DEF SharesAddUp, D
<1>23. \A uid \in capped' : shares'[uid] = Cap
  BY <1>1, <1>3
<1>24. Cuttable'
  BY <1>1, <1>3, <1>4, <1>13, <1>14, <1>22, <1>23 DEF Cuttable, D
<1>25. D \ capped' = receivers
  BY <1>3 DEF receivers
<1>26. \A uid \in receivers : shares'[uid] \in Nat /\ shares'[uid] >= shares[uid]
  BY <1>1, <1>3, <1>9, <1>11 DEF D
<1>27. \A i, j \in receivers : shares[i] >= shares[j] => shares'[i] >= shares'[j]
  BY <1>1, <1>3, <1>9, <1>11 DEF D
<1>. QED
  BY <1>1, <1>3, <1>4, <1>24, <1>25, <1>26, <1>27 DEF D

(* A greater share is a weight at least as great.                          *)
LEMMA WeightGrows ==
  ASSUME NEW a \in Nat, NEW b \in Nat, a >= b
  PROVE  ToU16(a) \in Nat /\ ToU16(b) \in Nat /\ ToU16(a) >= ToU16(b)
<1>1. PICK x, y \in Nat : x = a * U16_MAX /\ y = b * U16_MAX
  BY WeightsAssumption
<1>2. y <= x
  BY <1>1, WeightsAssumption, TimesMonotone
<1>3. PICK p, q : p = x \div PPM /\ q = y \div PPM
  OBVIOUS
<1>4. PPM \in Nat \ {0} /\ x \in Int /\ y \in Int
  BY <1>1, FixedPointAssumption
<1>5. p \in Nat /\ x < PPM * p + PPM
  <2>1. p \in Int /\ x < PPM * p + PPM /\ (x >= 0 => p \in Nat)
    BY <1>3, <1>4, FloorBounds, Floor
  <2>. QED
    BY <1>1, <2>1
<1>6. q \in Nat /\ PPM * q <= y
  BY <1>1, <1>3, <1>4, FloorBounds
<1>7. PPM * q < PPM * (p + 1)
  <2>1. PPM * (p + 1) = PPM * p + PPM
    BY <1>4, <1>5
  <2>2. PPM * q \in Int /\ PPM * p \in Int
    BY <1>4, <1>5, <1>6
  <2>. QED
    BY <1>1, <1>2, <1>4, <1>5, <1>6, <2>1, <2>2
<1>8. q < p + 1
  BY <1>4, <1>5, <1>6, <1>7, TimesCancels
<1>. QED
  BY <1>1, <1>3, <1>5, <1>6, <1>8 DEF ToU16
=============================================================================
