----------------------------- MODULE FixedPoint -----------------------------
(***************************************************************************)
(* protocol/fixedpoint.py: shares and scores as whole numbers of parts of  *)
(* one, every division a floor.  A list of scores is a function with a     *)
(* finite domain, which names what the scores are of: no statistic depends *)
(* on the order of a list.  What nobody measured is absent from the        *)
(* domain, never zero.                                                     *)
(***************************************************************************)
EXTENDS Integers, Sequences, FiniteSets, Functions

CONSTANT PPM       \* one whole: 1 000 000 in the code

ASSUME FixedPointAssumption == PPM \in Nat \ {0}

Shares == 0 .. PPM

Times(value, ratio) == (value * ratio) \div PPM

Clamp(value) == IF value < 0 THEN 0 ELSE IF value > PPM THEN PPM ELSE value

SumsToOne(weights) == /\ SumFunction(weights) = PPM
                      /\ \A k \in DOMAIN weights : weights[k] >= 0

Count(values) == Cardinality(DOMAIN values)

Mean(values) == SumFunction(values) \div Count(values)

(* sorted(values)[k - 1]: fewer than k of the values lie below it, and with *)
(* those equal to it there are k or more                                   *)
Ordered(values, k) ==
  CHOOSE v \in Range(values) :
    /\ Cardinality({i \in DOMAIN values : values[i] < v}) < k
    /\ Cardinality({i \in DOMAIN values : values[i] <= v}) >= k

Median(values) ==
  LET middle == Count(values) \div 2
  IN  IF Count(values) % 2 = 1 THEN Ordered(values, middle + 1)
      ELSE (Ordered(values, middle) + Ordered(values, middle + 1)) \div 2

Quantile(values, position) ==
  LET scaled    == position * (Count(values) - 1)
      lower     == scaled \div PPM
      remainder == scaled % PPM
      below     == Ordered(values, lower + 1)
      above     == Ordered(values, lower + 2)
  IN  IF remainder = 0 THEN below ELSE below + ((above - below) * remainder) \div PPM

(* sorted(S) by a strict order: the k-th has k - 1 before it               *)
InOrder(S, Before(_, _)) ==
  [k \in 1 .. Cardinality(S) |->
     CHOOSE x \in S : Cardinality({y \in S : Before(y, x)}) = k - 1]

Slots(values, weights) == DOMAIN values \cap DOMAIN weights

ApplyWeights(values, weights) ==
  SumFunction([k \in Slots(values, weights) |-> values[k] * weights[k]])
    \div SumFunctionOnSet(weights, Slots(values, weights))
=============================================================================
