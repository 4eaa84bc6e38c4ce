------------------------------ MODULE Filters ------------------------------
(***************************************************************************)
(* validator/challenge_factory: the five filters a candidate problem goes  *)
(* through (linter.py, safety.py, dedup.py, critic.py, discriminator.py),  *)
(* as predicates on what they read of it.                                  *)
(*                                                                         *)
(* A content is what the generator wrote, as the patterns see it:          *)
(*   title              whether there is one                               *)
(*   statement, objective   lengths; repeats: the second is the first      *)
(*   constraints        for each, whether it can be checked                *)
(*   forbidden          how many shortcuts are forbidden                   *)
(*   required           {} or {[size, flags]}: required_output             *)
(*   baseline           whether there is one                               *)
(*   limits             {} or {ceiling -> value}, 0 when absent            *)
(*   retrieval, unevaluable   whether one of the phrases occurs            *)
(*   terms              excluded domains of which an unambiguous word      *)
(*                      occurs                                             *)
(*   uses               occurrences of ambiguous words: [rule, nearby]     *)
(*   shingles           what the fingerprint is made of                    *)
(***************************************************************************)
EXTENDS FixedPoint, FiniteSetsExt

Requirement ==
  {"PROBLEM", "OBJECTIVE", "CONSTRAINTS", "OUTPUT", "CONTEXT", "SCOPE", "BUDGET", "INVENTION"}

_MINIMUM_PROBLEM == 200
_MINIMUM_OBJECTIVE == 60

Declarations == {"ranked", "mechanism_required", "prior_art_comparison_required",
                 "falsification_plan_required"}

Ceilings == {"maximum_wall_time_seconds", "maximum_rcc", "maximum_search_calls"}

Output(required) ==
  \E r \in required : r.size >= 1 /\ Declarations \subseteq r.flags

FixedBudget(limits) == \E l \in limits : \A key \in Ceilings : l[key] >= 1

(* The requirements a candidate fails; none in the first place is accepted *)
Lint(content, domain, excluded) ==
  {r \in Requirement :
     \/ r = "PROBLEM" /\ ~(content.statement >= _MINIMUM_PROBLEM /\ content.title)
     \/ r = "OBJECTIVE" /\ ~(content.objective >= _MINIMUM_OBJECTIVE /\ ~content.repeats)
     \/ r = "CONSTRAINTS" /\ ~(/\ Len(content.constraints) >= 2
                               /\ TRUE \in Range(content.constraints)
                               /\ content.forbidden > 0)
     \/ r = "OUTPUT" /\ ~Output(content.required)
     \/ r = "CONTEXT" /\ ~content.baseline
     \/ r = "SCOPE" /\ (content.unevaluable \/ domain \in excluded)
     \/ r = "BUDGET" /\ ~FixedBudget(content.limits)
     \/ r = "INVENTION" /\ content.retrieval}

-----------------------------------------------------------------------------
(* Words that mean harm beside their context, and one that does unless it  *)
(* is beside it.  Whatever surrounds a weapon is its context.              *)
context_makes_it_concerning ==
  [rule \in {"exploit", "malware", "weapon", "horizon"} |-> rule # "malware"]

(* One occurrence that is excused does not excuse the next                 *)
ApplyContextual(uses) ==
  \A use \in uses :
    use.nearby # context_makes_it_concerning[use.rule]

Screen(content, domain, excluded) ==
  /\ domain \notin excluded
  /\ content.terms = {}
  /\ ApplyContextual(content.uses)

-----------------------------------------------------------------------------
Fingerprint(content, domain) == [domain |-> domain, shingles |-> content.shingles]

JaccardPpm(left, right) ==
  IF left = {} \/ right = {} THEN 0
  ELSE (Cardinality(left \cap right) * PPM) \div Cardinality(left \cup right)

Similarity(own, other) ==
  IF own.domain # other.domain THEN 0 ELSE JaccardPpm(own.shingles, other.shingles)

(* The peak over an empty history is 0, which a threshold of 0 reaches.    *)
(* No embedding is ever handed in.                                         *)
IsDuplicate(own, history, threshold) ==
  threshold <= 0 \/ \E other \in history : Similarity(own, other) >= threshold

-----------------------------------------------------------------------------
(* A critic's reply is [object, faults, accept]: whether it is an object;  *)
(* {} or {the names it lists}; what it says outright.  A list that is not  *)
(* there is unreadable, not empty, and an unknown fault is a fault.        *)
Verdict(reply) ==
  /\ reply.object
  /\ reply.faults = {{}}
  /\ reply.accept

(* A call that fails is a rejection, and a family without a pin cannot be  *)
(* called                                                                  *)
Review(pinned, reply) == pinned /\ Verdict(reply)

-----------------------------------------------------------------------------
(* A probe's outcome is [reference, degraded, retrieval, mechanism,        *)
(* repeats]: name -> score, of the intact portfolios and of the damaged    *)
(* ones; how many stated a mechanism; one portfolio judged again and again *)

InstabilityPpm(repeats) ==
  IF Len(repeats) < 2 THEN 0
  ELSE Clamp(Max(Range(repeats)) - Min(Range(repeats)))

DegradationGap(outcome) ==
  LET paired == DOMAIN outcome.reference \cap DOMAIN outcome.degraded
      drop(n) == Max({0, outcome.reference[n] - outcome.degraded[n]})
  IN  IF paired = {} THEN 0
      ELSE SumFunction([n \in paired |-> drop(n)]) \div Cardinality(paired)

Assess(outcome, spread, gap, instability) ==
  LET scores == Range(outcome.reference)
  IN  /\ Cardinality(DOMAIN outcome.reference) >= 2
      /\ Max(scores) - Min(scores) >= spread
      /\ ~outcome.retrieval
      /\ InstabilityPpm(outcome.repeats) <= instability
      /\ outcome.mechanism > 0
      /\ DegradationGap(outcome) >= gap
=============================================================================
