------------------------------ MODULE MCRounds ------------------------------
(***************************************************************************)
(* A subnet for TLC: three laboratories and the reference, two challenges, *)
(* two criteria, two judges of different families on each.                 *)
(***************************************************************************)
EXTENDS Rounds, TLC

MCLabs     == 1 .. 3
MCPack     == <<"ch1", "ch2">>
MCCriteria == {"mechanism", "value"}

Judge(family) == [family |-> family, pin |-> "pin", seat |-> 1]

MCPanels  == [c \in MCCriteria |-> {Judge("anthropic"), Judge("google")}]
MCWeights == "mechanism" :> 24 @@ "value" :> 16

MCProblem  == [ch \in Range(MCPack) |-> [size |-> 1, rcc |-> 5, searches |-> 2,
                                         wall |-> 9]]
MCDeclared == [uid \in MCLabs \cup {-1} |-> "m" :> "r"]

(* Shares in proportion to the score above the lowest, and one            *)
MCSoftmax(scores) ==
  LET lowest == Min({PPM} \cup Range(scores))
      raw    == [uid \in DOMAIN scores |-> scores[uid] - lowest + 1]
  IN  [uid \in DOMAIN scores |-> (raw[uid] * PPM) \div SumFunction(raw)]

(* Half-wins per game, in place of the strengths that are fitted to them   *)
MCFit(pairings, uid) ==
  LET own  == {p \in pairings : uid \in p.pair}
      wins == Cardinality({p \in own : p.winner = uid})
      ties == Cardinality({p \in own : p.winner = Tie})
  IN  ((2 * wins + ties) * PPM) \div Cardinality(own)

-----------------------------------------------------------------------------
(* Runs: one that passes every gate, and others made from it               *)
Call(model) == [model |-> model, revision |-> "r", provider |-> "openrouter", tool |-> "llm"]

Good == [readable |-> TRUE, complete |-> TRUE, ideas |-> 1, calls |-> {Call("m")}, rcc |-> 5,
         searches |-> 0, wall |-> 9, timed_out |-> FALSE, directive |-> FALSE,
         admission |-> FALSE, excluded |-> FALSE]

Everywhere(run) == [ch \in Range(MCPack) |-> run]

(* Everyone sound; a run of uid 2 and another of uid 3 at fault; uid 1     *)
(* alone with a portfolio; the window closed on all of it; nobody ready    *)
MCFields ==
  {[uid \in {-1, 1, 2, 3} |-> Everywhere(Good)],
   [uid \in {-1, 1, 2, 3} |->
      [ch \in Range(MCPack) |->
         CASE uid = 2 /\ ch = "ch1" -> [Good EXCEPT !.rcc = 6]
           [] uid = 3 /\ ch = "ch2" -> [Good EXCEPT !.calls = {Call("")}]
           [] OTHER -> Good]],
   [uid \in {1, 2} |-> Everywhere(IF uid = 1 THEN Good ELSE NotAttempted)],
   [uid \in {1, 2} |-> Everywhere(NotAttempted)],
   [uid \in {} |-> 0]}

(* Screening: uid 1 the best, and the panel for value out of reach for     *)
(* uid 2; uid 3 the best, and one judge silent on it                       *)
MCBallots(responses) ==
  {[r \in responses |-> [c \in MCCriteria |-> [judge \in MCPanels[c] |->
      CASE r[1] = -1 -> 0
        [] r[1] = 1 -> 4
        [] r[1] = 2 -> IF c = "value" THEN -1 ELSE 3
        [] r[1] = 3 -> 1]]],
   [r \in responses |-> [c \in MCCriteria |-> [judge \in MCPanels[c] |->
      CASE r[1] = 3 -> IF judge.family = "google" THEN -1 ELSE 4
        [] r[1] = 2 /\ r[2] = "ch1" -> 0
        [] OTHER -> 2]]]}

(* Comparisons: whatever is shown first; on mechanism one family for the   *)
(* higher uid, and no other verdict                                        *)
MCReplies(pairs) ==
  LET shown == {<<c, family, a, b>> : c \in MCCriteria, family \in {"anthropic", "google"},
                                      a \in UNION pairs, b \in UNION pairs}
  IN  {[s \in shown |-> "A"],
       [s \in shown |-> IF s[2] = "google" \/ s[1] = "value" THEN "abstain"
                        ELSE IF s[3] > s[4] THEN "A" ELSE "B"]}
=============================================================================
