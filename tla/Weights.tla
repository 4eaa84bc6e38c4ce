------------------------------- MODULE Weights -------------------------------
(***************************************************************************)
(* validator/weights.py: who is paid, and how much.  The softmax works in  *)
(* floating point and is a constant operator; each pass of the loop that   *)
(* caps and redistributes its shares is a step.                            *)
(***************************************************************************)
EXTENDS FixedPoint, FiniteSets

CONSTANTS
  Labs,                          \* the uids that may be paid
  maximum_weight_ppm, minimum_valid_challenges, burn_uid,
  U16_MAX,                       \* 65 535 in the code
  Softmax(_)                     \* scores -> shares

ASSUME WeightsAssumption ==
  /\ IsFiniteSet(Labs)
  /\ maximum_weight_ppm \in Shares \ {0}
  /\ minimum_valid_challenges \in Nat
  /\ U16_MAX \in Nat \ {0}

(* exp, the quotient by the total and int() never put a better score below *)
(* a worse one, and int() cuts each share by less than a part: the error   *)
(* of the floating point is some billionths of one.                        *)
ASSUME SoftmaxAssumption ==
  \A paid \in SUBSET Labs : \A scores \in [paid -> Shares] :
    LET part == Softmax(scores)
    IN  /\ part \in [paid -> Shares]
        /\ SumFunction(part) <= PPM
        /\ paid # {} => PPM - SumFunction(part) < Cardinality(paid)
        /\ \A i, j \in paid : scores[i] >= scores[j] => part[i] >= part[j]

VARIABLES
  shares,      \* uid -> share, while it is capped and redistributed
  capped,      \* the uids the cap has cut
  vector       \* uid -> weight: what is submitted

weighing == <<shares, capped, vector>>

Nobody == [uid \in {} |-> 0]

WeightsTypeOK ==
  /\ capped \subseteq Labs
  /\ DOMAIN shares \subseteq Labs /\ \A uid \in DOMAIN shares : shares[uid] \in Nat
  /\ DOMAIN vector \subseteq Labs \cup {burn_uid}
  /\ \A uid \in DOMAIN vector : vector[uid] \in Nat

NothingWeighed == shares = Nobody /\ capped = {} /\ vector = Nobody

ForgetWeights == shares' = Nobody /\ capped' = {} /\ vector' = Nobody

-----------------------------------------------------------------------------
(* A candidate is [rolling, valid, gates, artifacts]                       *)

Qualifies(candidate, floor) ==
  /\ candidate.gates
  /\ candidate.artifacts
  /\ candidate.valid >= minimum_valid_challenges
  /\ candidate.rolling > floor

Qualified(candidates, floor) ==
  {uid \in DOMAIN candidates : Qualifies(candidates[uid], floor)}

ToU16(share) == (share * U16_MAX) \div PPM

(* How many the declared cap needs before their caps reach one whole *)
Needed == (PPM + maximum_weight_ppm - 1) \div maximum_weight_ppm

EffectiveCap(qualifiers) == IF qualifiers >= Needed THEN maximum_weight_ppm ELSE PPM

Cap == EffectiveCap(Cardinality(DOMAIN shares))

Over == {uid \in DOMAIN shares : shares[uid] > Cap}

(* Nobody qualifies: all of it burns *)
Burn ==
  /\ vector' = [uid \in {burn_uid} |-> U16_MAX]
  /\ UNCHANGED <<shares, capped>>

(* One qualifier: its capped share, and the rest burns *)
PayOne(only) ==
  /\ vector' = [uid \in {only, burn_uid} |->
                  ToU16(IF uid = burn_uid THEN PPM - maximum_weight_ppm
                                          ELSE maximum_weight_ppm)]
  /\ capped' = IF maximum_weight_ppm < PPM THEN {only} ELSE {}
  /\ UNCHANGED shares

Share(candidates, floor) ==
  LET paid   == Qualified(candidates, floor)
      scores == [uid \in paid |-> candidates[uid].rolling]
  IN  /\ shares' = [uid \in paid |-> Softmax(scores)[uid]]
      /\ UNCHANGED <<capped, vector>>

(* Slip: what the cap cuts off is dropped.                                 *)
X_CapPass ==
  /\ Over # {}
  /\ shares' = [uid \in DOMAIN shares |-> IF uid \in Over THEN Cap ELSE shares[uid]]
  /\ capped' = capped \cup Over
  /\ UNCHANGED vector

(* One pass: the shares over the cap are cut to it, and what was cut goes  *)
(* to those never cut, in proportion to what they hold.                    *)
CapPass ==
  LET overflow  == SumFunctionOnSet(shares, Over) - Cap * Cardinality(Over)
      receivers == DOMAIN shares \ (capped \cup Over)
      base      == SumFunctionOnSet(shares, receivers)
      gain(uid) == IF base <= 0 THEN overflow \div Cardinality(receivers)
                                ELSE (overflow * shares[uid]) \div base
  IN  /\ Over # {}
      /\ shares' = [uid \in DOMAIN shares |->
                      IF uid \in Over THEN Cap
                      ELSE IF uid \in receivers THEN shares[uid] + gain(uid)
                      ELSE shares[uid]]
      /\ capped' = capped \cup Over
      /\ UNCHANGED vector

(* Slip: one pass is thought to be enough.                                 *)
X_Emit ==
  /\ Over = {} \/ capped # {}
  /\ vector' = [uid \in DOMAIN shares |-> ToU16(shares[uid])]
  /\ UNCHANGED <<shares, capped>>

Emit ==
  /\ Over = {}
  /\ vector' = [uid \in DOMAIN shares |-> ToU16(shares[uid])]
  /\ UNCHANGED <<shares, capped>>

-----------------------------------------------------------------------------
(* The share cap, from a field that can carry it: no laboratory ends above *)
(* it, however often the redistribution pushes another over.               *)
CapKept ==
  Cardinality(DOMAIN shares) >= Needed =>
    \A uid \in DOMAIN vector \cap DOMAIN shares : vector[uid] <= ToU16(maximum_weight_ppm)

(* Cutting and redistributing lose nothing but their own roundings, fewer  *)
(* than one part per laboratory and pass, unless everyone is at the cap;   *)
(* and never give out more than there is.                                  *)
SharesAddUp ==
  shares # Nobody =>
    /\ SumFunction(shares) <= PPM
    /\ \/ capped = DOMAIN shares
       \/ PPM - SumFunction(shares) < Cardinality(DOMAIN shares) * (1 + Cardinality(capped))
=============================================================================
