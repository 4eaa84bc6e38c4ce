--------------------------- MODULE Gateway_proofs ---------------------------
(***************************************************************************)
(* Proofs about Gateway, for any runs, ceilings, prices, number of calls   *)
(* at once and number of deaths.                                           *)
(***************************************************************************)
EXTENDS Gateway, Sums, TLAPS

-----------------------------------------------------------------------------
(* What a step of the gateway does to the ledger *)

(* A call in flight is a call.                                             *)
LEMMA SentType ==
  ASSUME TypeOK, NEW c \in Calls, Sent(c)
  PROVE  calls[c] \in Call
BY DEF TypeOK, Sent

LEMMA ChargesAreNat ==
  ASSUME NEW n \in Nat, NEW k \in Nat
  PROVE  n * k \in Nat
OBVIOUS

(* Whatever the outcome of a call, it is charged a natural number.         *)
Charged(c) == \E actual \in Nat, recording \in BOOLEAN : Charge(c, actual, recording)

LEMMA OutcomeCharges ==
  ASSUME TypeOK, NEW c \in Calls, Outcome(c)
  PROVE  Sent(c) /\ (Charged(c) \/ Retry(c))
<1>1. CASE Answered(c)
  BY <1>1, GatewayAssumption DEF Answered, Charged, GatewayAssumption
<1>2. CASE Refused(c)
  BY <1>2 DEF Refused, Charged
<1>3. CASE SearchFailed(c)
  BY <1>3, GatewayAssumption DEF SearchFailed, Charged, GatewayAssumption
<1>4. CASE Retry(c)
  BY <1>4 DEF Retry
<1>5. CASE Exhausted(c)
  <2>1. Sent(c)
    BY <1>5 DEF Exhausted
  <2>2. calls[c].hold.rcc \in Nat /\ calls[c].attempts \in Nat
    BY <2>1, SentType DEF Call, Hold
  <2>3. calls[c].hold.rcc * calls[c].attempts \in Nat
    BY <2>2, ChargesAreNat
  <2>. QED
    BY <1>5, <2>1, <2>3 DEF Exhausted, Charged
<1>. QED
  BY <1>1, <1>2, <1>3, <1>4, <1>5 DEF Outcome

LEMMA PriceType ==
  ASSUME NEW kind, NEW estimate \in Price(kind)
  PROVE  estimate \in Nat
BY GatewayAssumption DEF Price, GatewayAssumption

-----------------------------------------------------------------------------
(* Type correctness *)

LEMMA TypeInit == Init => TypeOK
BY DEF Init, LedgerInit, TypeOK, LedgerTypeOK, Nothing, None, Idle, NoToken,
       Token, Hold

LEMMA ReserveType ==
  ASSUME LedgerTypeOK, NEW r \in Runs, NEW estimate \in Nat, NEW kind,
         reserve(r, estimate, kind)
  PROVE  LedgerTypeOK'
BY DEF LedgerTypeOK, reserve, Hold

LEMMA SettleType ==
  ASSUME LedgerTypeOK, NEW r \in Runs, NEW hold \in Hold, NEW actual \in Nat,
         settle(r, hold, actual)
  PROVE  LedgerTypeOK'
BY DEF LedgerTypeOK, settle, Hold, Over, Larger

LEMMA CloseType ==
  ASSUME LedgerTypeOK, NEW r \in Runs, close(r)
  PROVE  LedgerTypeOK'
BY DEF LedgerTypeOK, close

LEMMA NotKilledType ==
  ASSUME NEW t \in Token
  PROVE  NotKilled(t) \in Token
BY DEF NotKilled, Token

LEMMA AttemptType ==
  ASSUME NEW call \in Call, NEW n \in Nat, NEW b \in BOOLEAN
  PROVE  [call EXCEPT !.attempts = n, !.reached = b] \in Call
BY DEF Call

LEMMA AgainType ==
  ASSUME NEW call \in Call, NEW reached \in BOOLEAN
  PROVE  Again(call, reached) \in Call
<1>1. PICK seen \in BOOLEAN : seen = (call.reached \/ reached)
  OBVIOUS
<1>2. PICK n \in Nat : n = call.attempts + 1
  BY DEF Call
<1>3. Again(call, reached) = [call EXCEPT !.attempts = n, !.reached = seen]
  BY <1>1, <1>2 DEF Again, Call
<1>. QED
  BY <1>3, AttemptType

LEMMA TypeStep == TypeOK /\ [Next]_vars => TypeOK'
<1> SUFFICES ASSUME TypeOK, [Next]_vars PROVE TypeOK'
  OBVIOUS
<1> USE DEF ledger, gateway, execution
<1>1. ASSUME NEW r \in Runs, Admit(r)
      PROVE  /\ LedgerTypeOK'
             /\ admissions' \in Nat
             /\ adapters' \in [Runs -> Nat]
             /\ UNCHANGED <<secret, recorded, unread, calls>>
  BY <1>1 DEF Admit, admit, TypeOK, LedgerTypeOK
<1>2. ASSUME NEW r \in Runs, Close(r)
      PROVE  /\ LedgerTypeOK'
             /\ adapters' \in [Runs -> Nat]
             /\ recorded' \in [Admissions -> Nat]
             /\ unread' \in [Admissions -> Nat]
             /\ UNCHANGED <<admissions, secret, calls>>
  BY <1>2, CloseType DEF Close, TypeOK, None
<1>3. ASSUME NEW r \in Runs, AdmitRefused(r) PROVE TypeOK'
  BY <1>3 DEF AdmitRefused, Ends, TypeOK, LedgerTypeOK
<1>4. ASSUME NEW r \in Runs, AdmitRun(r) PROVE TypeOK'
  <2>1. containers' \in [Runs -> Token]
    BY <1>4, <1>1 DEF AdmitRun, TypeOK, Token
  <2>. QED
    BY <1>4, <1>1, <2>1 DEF AdmitRun, TypeOK
<1>5. ASSUME NEW r \in Runs, AdmitUnanswered(r) PROVE TypeOK'
  BY <1>5, <1>1 DEF AdmitUnanswered, Ends, TypeOK
<1>6. ASSUME NEW r \in Runs, ContainerEnds(r) PROVE TypeOK'
  <2>1. NoToken \in Token
    BY DEF NoToken, Token, None
  <2>2. NotKilled(containers[r]) \in Token
    BY NotKilledType DEF TypeOK
  <2>3. containers' \in [Runs -> Token]
    BY <1>6, <2>1, <2>2 DEF ContainerEnds, TypeOK
  <2>. QED
    BY <1>6, <2>3 DEF ContainerEnds, TypeOK, LedgerTypeOK
<1>7. ASSUME NEW r \in Runs, SandboxRaises(r) PROVE TypeOK'
  <2>1. NotKilled(containers[r]) \in Token
    BY NotKilledType DEF TypeOK
  <2>2. containers' \in [Runs -> Token]
    BY <1>7, <2>1 DEF SandboxRaises, TypeOK
  <2>. QED
    BY <1>7, <2>2 DEF SandboxRaises, Ends, TypeOK, LedgerTypeOK
<1>8. ASSUME NEW r \in Runs, CloseRun(r) PROVE TypeOK'
  BY <1>8, <1>2 DEF CloseRun, Ends, TypeOK
<1>9. ASSUME NEW r \in Runs, CloseRefused(r) PROVE TypeOK'
  BY <1>9 DEF CloseRefused, Ends, TypeOK, LedgerTypeOK
<1>10. ASSUME NEW r \in Runs, CloseUnanswered(r) PROVE TypeOK'
  <2>1. CASE Close(r)
    BY <1>10, <1>2, <2>1 DEF CloseUnanswered, Ends, TypeOK
  <2>2. CASE UNCHANGED <<ledger, gateway>>
    BY <1>10, <2>2 DEF CloseUnanswered, Ends, TypeOK, LedgerTypeOK
  <2>. QED
    BY <1>10, <2>1, <2>2 DEF CloseUnanswered
<1>11. ASSUME NEW r \in Runs, OrphanEnds(r) PROVE TypeOK'
  BY <1>11 DEF OrphanEnds, TypeOK, LedgerTypeOK, Token, NoToken, None
<1>12. ASSUME NEW c \in Calls, NEW r \in Runs, NEW kind \in {"llm", "search"},
              NEW estimate, BeginCall(c, r, kind, estimate)
       PROVE  TypeOK'
  <2>1. estimate \in Nat /\ reserve(r, estimate, kind)
    BY <1>12, PriceType DEF BeginCall
  <2>2. LedgerTypeOK'
    BY <2>1, ReserveType DEF TypeOK
  <2>3. calls' \in [Calls -> Call \cup {Idle}]
    BY <1>12, <2>1, <2>2 DEF BeginCall, TypeOK, LedgerTypeOK, Call, Hold
  <2>. QED
    BY <1>12, <2>2, <2>3 DEF BeginCall, TypeOK
<1>13. ASSUME NEW c \in Calls, Sent(c), Charged(c) PROVE TypeOK'
  <2>1. PICK actual \in Nat, recording \in BOOLEAN : Charge(c, actual, recording)
    BY <1>13 DEF Charged
  <2>2. /\ calls[c].run \in Runs
        /\ calls[c].hold \in Hold
        /\ calls[c].receipt \in Nat
    BY <1>13, SentType DEF Call
  <2>3. LedgerTypeOK'
    <3>1. CASE settle(calls[c].run, calls[c].hold, actual)
      BY <3>1, <2>2, SettleType DEF TypeOK
    <3>2. CASE UNCHANGED ledger
      BY <3>2 DEF TypeOK, LedgerTypeOK
    <3>. QED
      BY <2>1, <3>1, <3>2 DEF Charge
  <2>4. recorded' \in [Admissions -> Nat] /\ unread' \in [Admissions -> Nat]
    BY <2>1 DEF Charge, TypeOK
  <2>5. calls' \in [Calls -> Call \cup {Idle}]
    BY <2>1 DEF Charge, TypeOK
  <2>. QED
    BY <2>1, <2>3, <2>4, <2>5 DEF Charge, TypeOK
<1>14. ASSUME NEW c \in Calls, Retry(c) PROVE TypeOK'
  <2>1. calls[c] \in Call
    BY <1>14, SentType DEF Retry
  <2>2. PICK reached \in BOOLEAN : calls' = [calls EXCEPT ![c] = Again(calls[c], reached)]
    BY <1>14 DEF Retry
  <2>3. calls' \in [Calls -> Call \cup {Idle}]
    BY <2>1, <2>2, AgainType DEF TypeOK
  <2>. QED
    BY <1>14, <2>3 DEF Retry, TypeOK, LedgerTypeOK
<1>15. CASE GatewayDies
  BY <1>15 DEF GatewayDies, lose, TypeOK, LedgerTypeOK, Nothing, None
<1>16. CASE ValidatorDies
  BY <1>16 DEF ValidatorDies, TypeOK, LedgerTypeOK
<1>17. CASE UNCHANGED vars
  BY <1>17 DEF vars, TypeOK, LedgerTypeOK
<1>. QED
  BY <1>3, <1>4, <1>5, <1>6, <1>7, <1>8, <1>9, <1>10, <1>11, <1>12, <1>13,
     <1>14, <1>15, <1>16, <1>17, OutcomeCharges DEF Next

(* Every variable keeps its type.                                          *)
THEOREM TypeCorrect == Spec => []TypeOK
BY TypeInit, TypeStep, PTL DEF Spec

-----------------------------------------------------------------------------
(* What a step does to the ledger: one operation of it, or none.           *)

LEMMA LedgerSteps ==
  ASSUME TypeOK, [Next]_vars
  PROVE  \/ UNCHANGED ledger
         \/ \E r \in Runs : admit(r) /\ adapters[r] = None
         \/ \E r \in Runs : close(r)
         \/ \E r \in Runs, estimate \in Nat, kind \in {"llm", "search"} :
              reserve(r, estimate, kind)
         \/ \E r \in Runs, hold \in Hold, actual \in Nat : settle(r, hold, actual)
         \/ lose
<1>1. ASSUME NEW r \in Runs,
             \/ AdmitRefused(r) \/ AdmitRun(r) \/ AdmitUnanswered(r)
             \/ ContainerEnds(r) \/ SandboxRaises(r)
             \/ CloseRun(r) \/ CloseRefused(r) \/ CloseUnanswered(r)
             \/ OrphanEnds(r)
      PROVE  UNCHANGED ledger \/ (admit(r) /\ adapters[r] = None) \/ close(r)
  BY <1>1 DEF AdmitRefused, AdmitRun, AdmitUnanswered, Admit, ContainerEnds,
              SandboxRaises, CloseRun, CloseRefused, CloseUnanswered, Close, OrphanEnds
<1>2. ASSUME NEW c \in Calls, NEW r \in Runs, NEW kind \in {"llm", "search"},
             NEW estimate, BeginCall(c, r, kind, estimate)
      PROVE  estimate \in Nat /\ reserve(r, estimate, kind)
  BY <1>2, PriceType DEF BeginCall
<1>3. ASSUME NEW c \in Calls, Outcome(c)
      PROVE  \/ UNCHANGED ledger
             \/ \E r \in Runs, hold \in Hold, actual \in Nat : settle(r, hold, actual)
  <2>1. CASE Retry(c)
    BY <2>1 DEF Retry
  <2>2. CASE Sent(c) /\ Charged(c)
    <3>1. calls[c].run \in Runs /\ calls[c].hold \in Hold
      BY <2>2, SentType DEF Call
    <3>. QED
      BY <2>2, <3>1 DEF Charged, Charge
  <2>. QED
    BY <1>3, <2>1, <2>2, OutcomeCharges
<1>4. CASE GatewayDies
  BY <1>4 DEF GatewayDies
<1>5. CASE ValidatorDies
  BY <1>5 DEF ValidatorDies
<1>6. CASE UNCHANGED vars
  BY <1>6 DEF vars
<1>. QED
  BY <1>1, <1>2, <1>3, <1>4, <1>5, <1>6 DEF Next

-----------------------------------------------------------------------------
(* What a run is committed to: the sum of its holds, one at a time *)

Total(holds) == SumFunction([hold \in holds |-> hold.rcc])

LEMMA TotalOfNone == Total({}) = 0
BY SumEmpty DEF Total, SumFunction

(* A hold more adds what is held for the call, ...                         *)
LEMMA TotalWith ==
  ASSUME NEW holds \in SUBSET Hold, IsFiniteSet(holds),
         NEW hold \in Hold, hold \notin holds
  PROVE  Total(holds \cup {hold}) = Total(holds) + hold.rcc
<1> DEFINE f == [h \in holds \cup {hold} |-> h.rcc]
           g == [h \in holds |-> h.rcc]
<1>1. \A h \in holds \cup {hold} : f[h] \in Int
  BY DEF Hold
<1>2. SumFunctionOnSet(f, holds \cup {hold}) = SumFunctionOnSet(f, holds) + f[hold]
  BY <1>1, SumAdd
<1>3. SumFunctionOnSet(f, holds) = SumFunctionOnSet(g, holds)
  BY SumSame
<1>4. f[hold] = hold.rcc
  OBVIOUS
<1>5. Total(holds \cup {hold}) = SumFunctionOnSet(f, holds \cup {hold})
  BY DEF Total, SumFunction
<1>6. Total(holds) = SumFunctionOnSet(g, holds)
  BY DEF Total, SumFunction
<1>. QED
  BY <1>2, <1>3, <1>4, <1>5, <1>6

(* ... and one that goes gives it back.                                    *)
LEMMA TotalWithout ==
  ASSUME NEW holds \in SUBSET Hold, IsFiniteSet(holds), NEW hold \in holds
  PROVE  Total(holds \ {hold}) = Total(holds) - hold.rcc
<1>1. PICK rest : rest = holds \ {hold}
  OBVIOUS
<1>2. /\ rest \in SUBSET Hold
      /\ IsFiniteSet(rest)
      /\ hold \in Hold
      /\ hold \notin rest
      /\ rest \cup {hold} = holds
  BY <1>1, FS_RemoveElement
<1>3. Total(holds) = Total(rest) + hold.rcc
  BY <1>2, TotalWith
<1>4. hold.rcc \in Int
  BY <1>2 DEF Hold
<1>5. Total(rest) \in Int
  BY <1>2, SumType DEF Total, SumFunction, Hold
<1>. QED
  BY <1>1, <1>3, <1>4, <1>5

(* A run has finitely many holds: they are given one at a time, each a new *)
(* number.                                                                 *)
HoldsNumbered ==
  \A r \in Runs : IsFiniteSet(held[r]) /\ \A hold \in held[r] : hold.id <= next_id

LEMMA NumberedInit == Init => HoldsNumbered
BY FS_EmptySet DEF Init, LedgerInit, HoldsNumbered

LEMMA NumberedStep == TypeOK /\ HoldsNumbered /\ [Next]_vars => HoldsNumbered'
<1> SUFFICES ASSUME TypeOK, HoldsNumbered, [Next]_vars, NEW r \in Runs
             PROVE  IsFiniteSet(held'[r]) /\ \A hold \in held'[r] : hold.id <= next_id'
  BY DEF HoldsNumbered
<1>1. /\ IsFiniteSet(held[r])
      /\ \A hold \in held[r] : hold.id \in Nat /\ hold.id <= next_id
      /\ next_id \in Nat
  BY DEF HoldsNumbered, TypeOK, LedgerTypeOK, Hold
<1>2. CASE held'[r] = {}
  BY <1>2, FS_EmptySet
<1>3. CASE held'[r] \subseteq held[r] /\ next_id' = next_id
  BY <1>1, <1>3, FS_Subset
<1>4. CASE UNCHANGED ledger
  BY <1>3, <1>4 DEF ledger
<1>5. ASSUME NEW s \in Runs, admit(s) PROVE held'[r] \subseteq held[r] /\ next_id' = next_id
  BY <1>5 DEF admit
<1>6. ASSUME NEW s \in Runs, close(s) PROVE held'[r] \subseteq held[r] /\ next_id' = next_id
  BY <1>6 DEF close, TypeOK, LedgerTypeOK
<1>7. ASSUME NEW s \in Runs, NEW estimate \in Nat, NEW kind \in {"llm", "search"},
             reserve(s, estimate, kind)
      PROVE  IsFiniteSet(held'[r]) /\ \A hold \in held'[r] : hold.id <= next_id'
  <2>1. PICK hold : hold = [id |-> next_id + 1, rcc |-> estimate]
    OBVIOUS
  <2>2. hold.id = next_id' /\ next_id' = next_id + 1
    BY <1>7, <2>1 DEF reserve
  <2>3. held'[r] = held[r] \/ held'[r] = held[r] \cup {hold}
    BY <1>7, <2>1, <2>2 DEF reserve, TypeOK, LedgerTypeOK
  <2>4. IsFiniteSet(held'[r])
    BY <1>1, <2>3, FS_AddElement
  <2>. QED
    BY <1>1, <2>2, <2>3, <2>4
<1>8. ASSUME NEW s \in Runs, NEW hold \in Hold, NEW actual \in Nat, settle(s, hold, actual)
      PROVE  held'[r] \subseteq held[r] /\ next_id' = next_id
  BY <1>8 DEF settle, TypeOK, LedgerTypeOK
<1>9. CASE lose
  BY <1>2, <1>9 DEF lose
<1>. QED
  BY <1>3, <1>4, <1>5, <1>6, <1>7, <1>8, <1>9, LedgerSteps

LEMMA SpentIs ==
  ASSUME NEW r \in Runs
  PROVE  /\ spent(r) = settled[r] + Total(held[r])
         /\ spent(r)' = settled'[r] + Total(held'[r])
BY DEF spent, outstanding, Total

LEMMA SpentType ==
  ASSUME TypeOK, HoldsNumbered, NEW r \in Runs
  PROVE  settled[r] \in Nat /\ Total(held[r]) \in Int /\ spent(r) \in Int
<1>1. settled[r] \in Nat /\ IsFiniteSet(held[r]) /\ held[r] \in SUBSET Hold
  BY DEF TypeOK, LedgerTypeOK, HoldsNumbered
<1>2. Total(held[r]) \in Int
  BY <1>1, SumType DEF Total, SumFunction, Hold
<1>. QED
  BY <1>1, <1>2, SpentIs

(* A reservation adds its estimate, to its run and no other; ...           *)
LEMMA ReserveSpends ==
  ASSUME TypeOK, HoldsNumbered, NEW r \in Runs, NEW estimate \in Nat,
         NEW kind \in {"llm", "search"}, reserve(r, estimate, kind), NEW s \in Runs
  PROVE  spent(s)' = IF s = r THEN spent(s) + estimate ELSE spent(s)
<1>1. settled' = settled
  BY DEF reserve
<1>2. CASE s # r
  <2>1. held'[s] = held[s]
    BY <1>2 DEF reserve, TypeOK, LedgerTypeOK
  <2>. QED
    BY <1>1, <1>2, <2>1, SpentIs
<1>3. CASE s = r
  <2>1. PICK hold : hold = [id |-> next_id + 1, rcc |-> estimate]
    OBVIOUS
  <2>2. hold \in Hold /\ hold.rcc = estimate /\ hold.id = next_id + 1 /\ next_id \in Nat
    BY <2>1 DEF Hold, TypeOK, LedgerTypeOK
  <2>3. held'[r] = held[r] \cup {hold}
    BY <2>1 DEF reserve, TypeOK, LedgerTypeOK
  <2>4. held[r] \in SUBSET Hold /\ IsFiniteSet(held[r])
    BY DEF TypeOK, LedgerTypeOK, HoldsNumbered
  <2>5. hold \notin held[r]
    BY <2>2 DEF HoldsNumbered
  <2>6. Total(held'[r]) = Total(held[r]) + estimate
    BY <2>2, <2>3, <2>4, <2>5, TotalWith
  <2>. QED
    BY <1>1, <1>3, <2>6, SpentIs, SpentType
<1>. QED
  BY <1>2, <1>3

(* ... settling puts the charge in the hold's place; ...                   *)
LEMMA SettleSpends ==
  ASSUME TypeOK, HoldsNumbered, NEW r \in Runs, NEW hold \in Hold, NEW actual \in Nat,
         settle(r, hold, actual), NEW s \in Runs
  PROVE  spent(s)' = IF s = r THEN spent(s) + actual - hold.rcc ELSE spent(s)
<1>1. CASE s # r
  <2>1. held'[s] = held[s] /\ settled'[s] = settled[s]
    BY <1>1 DEF settle, TypeOK, LedgerTypeOK
  <2>. QED
    BY <1>1, <2>1, SpentIs
<1>2. CASE s = r
  <2>1. /\ hold \in held[r]
        /\ held'[r] = held[r] \ {hold}
        /\ settled'[r] = settled[r] + actual
    BY DEF settle, IsHeld, TypeOK, LedgerTypeOK
  <2>2. held[r] \in SUBSET Hold /\ IsFiniteSet(held[r])
    BY DEF TypeOK, LedgerTypeOK, HoldsNumbered
  <2>3. Total(held'[r]) = Total(held[r]) - hold.rcc
    BY <2>1, <2>2, TotalWithout
  <2>4. hold.rcc \in Nat
    BY DEF Hold
  <2>5. /\ spent(r) = settled[r] + Total(held[r])
        /\ spent(r)' = settled'[r] + Total(held'[r])
        /\ settled[r] \in Nat /\ Total(held[r]) \in Int
    BY SpentIs, SpentType
  <2>. QED
    BY <1>2, <2>1, <2>3, <2>4, <2>5
<1>. QED
  BY <1>1, <1>2

(* ... and a run that is closed is committed to nothing.                   *)
LEMMA CloseSpends ==
  ASSUME TypeOK, HoldsNumbered, NEW r \in Runs, close(r), NEW s \in Runs
  PROVE  spent(s)' = IF s = r THEN 0 ELSE spent(s)
<1>1. CASE s # r
  <2>1. held'[s] = held[s] /\ settled'[s] = settled[s]
    BY <1>1 DEF close, TypeOK, LedgerTypeOK
  <2>. QED
    BY <1>1, <2>1, SpentIs
<1>2. CASE s = r
  <2>1. held'[s] = {} /\ settled'[s] = 0
    BY <1>2 DEF close, TypeOK, LedgerTypeOK
  <2>. QED
    BY <1>2, <2>1, SpentIs, TotalOfNone
<1>. QED
  BY <1>1, <1>2

LEMMA LoseSpends ==
  ASSUME lose, NEW s \in Runs
  PROVE  spent(s)' = 0
<1>1. held'[s] = {} /\ settled'[s] = 0
  BY DEF lose, Nothing
<1>. QED
  BY <1>1, SpentIs, TotalOfNone

LEMMA NothingSpends ==
  ASSUME UNCHANGED <<held, settled>>, NEW s \in Runs
  PROVE  spent(s)' = spent(s)
BY SpentIs

-----------------------------------------------------------------------------
(* The ceiling *)

LEMMA CeilingInit == Init => CeilingHolds
<1> SUFFICES ASSUME Init, NEW r \in Runs PROVE spent(r) <= MaximumRcc[r] + excess[r]
  BY DEF CeilingHolds
<1>1. MaximumRcc[r] \in Nat
  BY LedgerAssumption DEF LedgerAssumption
<1>2. held[r] = {} /\ settled[r] = 0 /\ excess[r] = 0
  BY DEF Init, LedgerInit, Nothing
<1>3. spent(r) = 0 + Total({})
  BY <1>2, SpentIs
<1>. QED
  BY <1>1, <1>2, <1>3, TotalOfNone

LEMMA CeilingStep ==
  TypeOK /\ HoldsNumbered /\ CeilingHolds /\ [Next]_vars => CeilingHolds'
<1> SUFFICES ASSUME TypeOK, HoldsNumbered, CeilingHolds, [Next]_vars, NEW r \in Runs
             PROVE  spent(r)' <= MaximumRcc[r] + excess'[r]
  BY DEF CeilingHolds
<1>1. /\ spent(r) <= MaximumRcc[r] + excess[r]
      /\ spent(r) \in Int
      /\ MaximumRcc[r] \in Nat
      /\ excess[r] \in Nat
  BY SpentType, LedgerAssumption DEF CeilingHolds, TypeOK, LedgerTypeOK, LedgerAssumption
<1>2. CASE UNCHANGED ledger
  BY <1>1, <1>2, NothingSpends DEF ledger
<1>3. ASSUME NEW s \in Runs, admit(s) PROVE spent(r)' <= MaximumRcc[r] + excess'[r]
  BY <1>1, <1>3, NothingSpends DEF admit
<1>4. ASSUME NEW s \in Runs, close(s) PROVE spent(r)' <= MaximumRcc[r] + excess'[r]
  <2>1. excess'[r] = IF r = s THEN 0 ELSE excess[r]
    BY <1>4 DEF close, TypeOK, LedgerTypeOK
  <2>. QED
    BY <1>1, <1>4, <2>1, CloseSpends
<1>5. ASSUME NEW s \in Runs, NEW estimate \in Nat, NEW kind \in {"llm", "search"},
             reserve(s, estimate, kind)
      PROVE  spent(r)' <= MaximumRcc[r] + excess'[r]
  <2>1. excess' = excess /\ (r = s => spent(r) + estimate <= MaximumRcc[r])
    BY <1>5 DEF reserve, MayReserve
  <2>. QED
    BY <1>1, <1>5, <2>1, ReserveSpends
<1>6. ASSUME NEW s \in Runs, NEW hold \in Hold, NEW actual \in Nat, settle(s, hold, actual)
      PROVE  spent(r)' <= MaximumRcc[r] + excess'[r]
  <2>1. excess'[r] = IF r = s THEN excess[r] + Over(actual, hold.rcc) ELSE excess[r]
    BY <1>6 DEF settle, TypeOK, LedgerTypeOK
  <2>2. hold.rcc \in Nat /\ Over(actual, hold.rcc) \in Nat
        /\ actual - hold.rcc <= Over(actual, hold.rcc)
    BY DEF Hold, Over
  <2>. QED
    BY <1>1, <1>6, <2>1, <2>2, SettleSpends
<1>7. CASE lose
  <2>1. excess'[r] = 0
    BY <1>7 DEF lose, Nothing
  <2>. QED
    BY <1>1, <1>7, <2>1, LoseSpends
<1>. QED
  BY <1>2, <1>3, <1>4, <1>5, <1>6, <1>7, LedgerSteps

(* However many calls a laboratory makes at once, and however they come    *)
(* back, its run is over its ceiling by no more than what calls cost       *)
(* beyond their estimates: metering.py's hold is taken before the await.   *)
THEOREM CeilingCorrect == Spec => []CeilingHolds
BY TypeInit, TypeStep, NumberedInit, NumberedStep, CeilingInit, CeilingStep, PTL
   DEF Spec

-----------------------------------------------------------------------------
(* The ledger's accounts are those of the open runs, and only an open run  *)
(* has holds or charges.                                                   *)

AccountsOpen ==
  \A r \in Runs :
    /\ r \in limits <=> adapters[r] # None
    /\ r \notin limits => held[r] = {} /\ settled[r] = 0

LEMMA AccountsInit == Init => AccountsOpen
BY DEF Init, LedgerInit, AccountsOpen, Nothing, None

LEMMA AccountsStep == TypeOK /\ AccountsOpen /\ [Next]_vars => AccountsOpen'
<1> SUFFICES ASSUME TypeOK, AccountsOpen, [Next]_vars PROVE AccountsOpen'
  OBVIOUS
<1> USE DEF ledger, gateway, execution
<1>1. ASSUME UNCHANGED <<limits, held, settled, adapters>> PROVE AccountsOpen'
  BY <1>1 DEF AccountsOpen
<1>2. ASSUME NEW r \in Runs, Admit(r) PROVE AccountsOpen'
  BY <1>2 DEF Admit, admit, AccountsOpen, TypeOK, None
<1>3. ASSUME NEW r \in Runs, Close(r) PROVE AccountsOpen'
  BY <1>3 DEF Close, close, AccountsOpen, TypeOK, LedgerTypeOK, None
<1>4. ASSUME NEW r \in Runs,
             \/ AdmitRefused(r) \/ AdmitRun(r) \/ AdmitUnanswered(r)
             \/ ContainerEnds(r) \/ SandboxRaises(r)
             \/ CloseRun(r) \/ CloseRefused(r) \/ CloseUnanswered(r)
             \/ OrphanEnds(r)
      PROVE  UNCHANGED <<limits, held, settled, adapters>> \/ Admit(r) \/ Close(r)
  BY <1>4 DEF AdmitRefused, AdmitRun, AdmitUnanswered, ContainerEnds,
              SandboxRaises, CloseRun, CloseRefused, CloseUnanswered, OrphanEnds
<1>5. ASSUME NEW c \in Calls, NEW r \in Runs, NEW kind \in {"llm", "search"},
             NEW estimate, BeginCall(c, r, kind, estimate)
      PROVE  AccountsOpen'
  BY <1>5 DEF BeginCall, reserve, MayReserve, AccountsOpen, TypeOK, LedgerTypeOK
<1>6. ASSUME NEW c \in Calls, Outcome(c) PROVE AccountsOpen'
  <2>1. CASE Retry(c)
    BY <2>1, <1>1 DEF Retry
  <2>2. CASE Sent(c) /\ Charged(c)
    BY <2>2 DEF Charged, Charge, settle, IsHeld, AccountsOpen, TypeOK, LedgerTypeOK
  <2>. QED
    BY <1>6, <2>1, <2>2, OutcomeCharges
<1>7. CASE GatewayDies
  BY <1>7 DEF GatewayDies, lose, AccountsOpen, Nothing, None
<1>8. CASE ValidatorDies
  BY <1>8, <1>1 DEF ValidatorDies
<1>9. CASE UNCHANGED vars
  BY <1>9, <1>1 DEF vars
<1>. QED
  BY <1>1, <1>2, <1>3, <1>4, <1>5, <1>6, <1>7, <1>8, <1>9 DEF Next

-----------------------------------------------------------------------------
(* The gateway implements Budget.                                          *)

LEMMA BudgetInit == Init => RunBudget!BInit
<1> SUFFICES ASSUME Init PROVE RunBudget!BInit
  OBVIOUS
<1>1. ASSUME NEW r \in Runs PROVE spent(r) = 0
  <2>1. held[r] = {} /\ settled[r] = 0
    BY DEF Init, LedgerInit, Nothing
  <2>. QED
    BY <2>1, SpentIs, TotalOfNone
<1>. QED
  BY <1>1 DEF Init, LedgerInit, RunBudget!BInit, Nothing

LEMMA BudgetStep ==
  TypeOK /\ HoldsNumbered /\ AccountsOpen /\ [Next]_vars
    => [RunBudget!BNext]_RunBudget!bvars
<1> SUFFICES ASSUME TypeOK, HoldsNumbered, AccountsOpen, [Next]_vars
             PROVE  [RunBudget!BNext]_RunBudget!bvars
  OBVIOUS
<1> DEFINE committed == [r \in Runs |-> spent(r)]
<1>0. \A r \in Runs : /\ spent(r) \in Int
                      /\ excess[r] \in Nat
                      /\ committed[r] = spent(r)
                      /\ committed'[r] = spent(r)'
  BY SpentType DEF TypeOK, LedgerTypeOK
<1>1. ASSUME UNCHANGED <<held, settled>> PROVE committed' = committed
  BY <1>1, NothingSpends
<1>2. ASSUME NEW r \in Runs, admit(r), adapters[r] = None PROVE RunBudget!BOpen(r)
  <2>1. r \notin limits
    BY <1>2 DEF AccountsOpen
  <2>2. committed' = committed
    BY <1>2, <1>1 DEF admit
  <2>. QED
    BY <1>2, <2>1, <2>2 DEF admit, RunBudget!BOpen
<1>3. ASSUME NEW r \in Runs, close(r) PROVE RunBudget!BClose({r})
  <2>1. limits' = limits \ {r}
    BY <1>3 DEF close
  <2>2. committed' = [s \in Runs |-> IF s \in {r} THEN 0 ELSE committed[s]]
    BY <1>3, CloseSpends
  <2>3. excess' = [s \in Runs |-> IF s \in {r} THEN 0 ELSE excess[s]]
    BY <1>3 DEF close, TypeOK, LedgerTypeOK
  <2>. QED
    BY <2>1, <2>2, <2>3 DEF RunBudget!BClose
<1>4. ASSUME NEW r \in Runs, NEW estimate \in Nat, NEW kind \in {"llm", "search"},
             reserve(r, estimate, kind)
      PROVE  RunBudget!BTake(r)
  <2>1. /\ r \in limits /\ UNCHANGED <<limits, excess>>
        /\ spent(r) + estimate <= MaximumRcc[r]
    BY <1>4 DEF reserve, MayReserve
  <2>2. \A s \in Runs : spent(s)' = IF s = r THEN spent(s) + estimate ELSE spent(s)
    BY <1>4, ReserveSpends
  <2>3. committed' = [committed EXCEPT ![r] = committed'[r]]
    BY <2>2
  <2>4. committed'[r] <= MaximumRcc[r]
    BY <1>0, <2>1, <2>2
  <2>5. committed[r] <= committed'[r]
    BY <1>0, <2>2
  <2>. QED
    BY <2>1, <2>3, <2>4, <2>5 DEF RunBudget!BTake, RunBudget!Only
<1>5. ASSUME NEW r \in Runs, NEW hold \in Hold, NEW actual \in Nat, settle(r, hold, actual)
      PROVE  RunBudget!BGiveBack(r) \/ RunBudget!BOverrun(r)
  <2>1. r \in limits /\ UNCHANGED limits
    BY <1>5 DEF settle, IsHeld, AccountsOpen
  <2>2. hold.rcc \in Nat
    BY DEF Hold
  <2>3. \A s \in Runs :
          spent(s)' = IF s = r THEN spent(s) + actual - hold.rcc ELSE spent(s)
    BY <1>5, SettleSpends
  <2>4. committed' = [committed EXCEPT ![r] = committed'[r]]
    BY <2>3
  <2>5. excess' = [excess EXCEPT ![r] = excess[r] + Over(actual, hold.rcc)]
    BY <1>5 DEF settle
  <2>6. CASE actual <= hold.rcc
    <3>1. Over(actual, hold.rcc) = 0
      BY <2>2, <2>6 DEF Over
    <3>2. excess' = excess
      BY <1>0, <2>5, <3>1 DEF TypeOK, LedgerTypeOK
    <3>3. committed'[r] <= committed[r]
      BY <1>0, <2>2, <2>3, <2>6
    <3>. QED
      BY <2>1, <2>4, <3>2, <3>3 DEF RunBudget!BGiveBack, RunBudget!Only
  <2>7. CASE actual > hold.rcc
    <3>1. Over(actual, hold.rcc) = actual - hold.rcc
      BY <2>2, <2>7 DEF Over
    <3>2. excess[r] + Over(actual, hold.rcc) = excess[r] + committed'[r] - committed[r]
      BY <1>0, <2>2, <2>3, <3>1
    <3>3. committed[r] <= committed'[r]
      BY <1>0, <2>2, <2>3, <2>7
    <3>4. excess' = [excess EXCEPT ![r] = excess[r] + committed'[r] - committed[r]]
      BY <2>5, <3>2
    <3>. QED
      BY <2>1, <2>4, <3>3, <3>4 DEF RunBudget!BOverrun, RunBudget!Only
  <2>. QED
    BY <2>2, <2>6, <2>7
<1>6. CASE lose
  <2>1. limits' = limits \ Runs
    BY <1>6 DEF lose, TypeOK, LedgerTypeOK
  <2>2. committed' = [s \in Runs |-> IF s \in Runs THEN 0 ELSE committed[s]]
    BY <1>6, LoseSpends
  <2>3. excess' = [s \in Runs |-> IF s \in Runs THEN 0 ELSE excess[s]]
    BY <1>6 DEF lose, Nothing
  <2>. QED
    BY <2>1, <2>2, <2>3 DEF RunBudget!BClose, RunBudget!BNext
<1>. QED
  <2>1. ASSUME NEW r \in Runs, RunBudget!BClose({r}) PROVE RunBudget!BNext
    BY <2>1 DEF RunBudget!BNext
  <2>2. CASE UNCHANGED ledger
    BY <1>1, <2>2 DEF ledger, RunBudget!bvars
  <2>. QED
    BY <1>2, <1>3, <1>4, <1>5, <1>6, <2>1, <2>2, LedgerSteps DEF RunBudget!BNext

(* What a run is committed to grows only by calls that fit and by what a   *)
(* call under way cost beyond its estimate, and starts again from nothing  *)
(* when the run is closed: the reserve/settle/close of metering.py, driven *)
(* by the adapter's tasks, is the budget the laboratory was promised.      *)
THEOREM BudgetRefined == Spec => ImplementsBudget
BY TypeInit, TypeStep, NumberedInit, NumberedStep, AccountsInit, AccountsStep,
   BudgetInit, BudgetStep, PTL
   DEF Spec, ImplementsBudget, RunBudget!BSpec

-----------------------------------------------------------------------------
(* Holds and calls *)

(* Calls in flight have ids of their own, none beyond the last given out;  *)
(* and every hold is that of a call begun in the run's present admission.  *)
(* A call whose hold is gone may be in flight all the same: the run was    *)
(* closed under it.                                                        *)
Earlier(c) == Sent(c) => calls[c].hold.id <= next_id

OwnId(c, d) ==
  Sent(c) /\ Sent(d) /\ calls[c].hold.id = calls[d].hold.id => c = d

HoldOf(c, r, hold) ==
  /\ Sent(c)
  /\ calls[c].run = r
  /\ calls[c].hold = hold
  /\ calls[c].receipt = adapters[r]

Owned ==
  /\ \A c \in Calls : Earlier(c)
  /\ \A c, d \in Calls : OwnId(c, d)
  /\ \A r \in Runs : \A hold \in held[r] : \E c \in Calls : HoldOf(c, r, hold)

LEMMA OwnedInit == Init => Owned
BY DEF Init, LedgerInit, Owned, Earlier, OwnId, Sent

(* Steps that leave the calls, the ids and the open runs' holds and        *)
(* adapters alone.                                                         *)
LEMMA OwnedFrame ==
  ASSUME Owned, UNCHANGED <<calls, next_id>>,
         \A r \in Runs : \/ held'[r] = {}
                         \/ held'[r] = held[r] /\ adapters'[r] = adapters[r]
  PROVE  Owned'
<1>1. \A c \in Calls : Sent(c)' <=> Sent(c)
  BY DEF Sent
<1>2. ASSUME NEW r \in Runs, NEW hold \in held'[r]
      PROVE  \E c \in Calls : HoldOf(c, r, hold)'
  <2>1. hold \in held[r] /\ adapters'[r] = adapters[r]
    BY <1>2
  <2>2. PICK c \in Calls : HoldOf(c, r, hold)
    BY <2>1 DEF Owned
  <2>. QED
    BY <1>1, <2>1, <2>2 DEF HoldOf
<1>. QED
  BY <1>1, <1>2 DEF Owned, Earlier, OwnId

LEMMA OwnedBegin ==
  ASSUME TypeOK, Owned, NEW c \in Calls, NEW r \in Runs, NEW kind \in {"llm", "search"},
         NEW estimate, BeginCall(c, r, kind, estimate)
  PROVE  Owned'
<1>1. estimate \in Nat /\ next_id \in Nat /\ next_id' = next_id + 1
  BY PriceType DEF BeginCall, reserve, TypeOK, LedgerTypeOK
<1>2. ~ Sent(c) /\ UNCHANGED adapters
  BY DEF BeginCall, Sent
<1>3. /\ Sent(c)'
      /\ calls'[c].run = r
      /\ calls'[c].receipt = adapters[r]
      /\ calls'[c].hold = [id |-> next_id', rcc |-> estimate]
  BY DEF BeginCall, Sent, Idle, TypeOK
<1>4. \A d \in Calls : d # c => calls'[d] = calls[d]
  BY DEF BeginCall, TypeOK
<1>5. \A d \in Calls : Sent(d) => calls[d].hold.id \in Nat /\ calls[d].hold.id <= next_id
  BY SentType DEF Call, Hold, Owned, Earlier
<1>6. \A d \in Calls : d # c => (Sent(d)' <=> Sent(d))
  BY <1>4 DEF Sent
<1>7. ASSUME NEW d \in Calls PROVE Earlier(d)'
  <2>1. CASE d = c
    BY <1>1, <1>3, <2>1 DEF Earlier
  <2>2. CASE d # c
    BY <1>1, <1>4, <1>5, <1>6, <2>2 DEF Earlier
  <2>. QED
    BY <2>1, <2>2
<1>8. ASSUME NEW d \in Calls, NEW e \in Calls PROVE OwnId(d, e)'
  <2>1. CASE d # c /\ e # c
    BY <1>4, <1>6, <2>1 DEF Owned, OwnId
  <2>2. CASE d = c /\ e # c
    BY <1>1, <1>3, <1>4, <1>5, <1>6, <2>2 DEF OwnId
  <2>3. CASE e = c /\ d # c
    BY <1>1, <1>3, <1>4, <1>5, <1>6, <2>3 DEF OwnId
  <2>4. CASE d = c /\ e = c
    BY <2>4 DEF OwnId
  <2>. QED
    BY <2>1, <2>2, <2>3, <2>4
<1>9. ASSUME NEW s \in Runs, NEW hold \in held'[s]
      PROVE  \E d \in Calls : HoldOf(d, s, hold)'
  <2>1. CASE hold \in held[s]
    <3>1. PICK d \in Calls : HoldOf(d, s, hold)
      BY <2>1 DEF Owned
    <3>2. d # c
      BY <1>2, <3>1 DEF HoldOf
    <3>. QED
      BY <1>2, <1>4, <1>6, <3>1, <3>2 DEF HoldOf
  <2>2. CASE hold \notin held[s]
    <3>1. s = r /\ hold = [id |-> next_id', rcc |-> estimate]
      BY <1>9, <2>2 DEF BeginCall, reserve, TypeOK, LedgerTypeOK
    <3>. QED
      BY <1>2, <1>3, <3>1 DEF HoldOf
  <2>. QED
    BY <2>1, <2>2
<1>. QED
  BY <1>7, <1>8, <1>9 DEF Owned

(* A call comes back: its own hold goes, or it had none.                   *)
LEMMA OwnedCharge ==
  ASSUME TypeOK, Owned, NEW c \in Calls, Sent(c), NEW actual \in Nat,
         NEW recording \in BOOLEAN, Charge(c, actual, recording)
  PROVE  Owned'
<1>1. ~ Sent(c)' /\ UNCHANGED <<adapters, next_id>>
  BY DEF Charge, settle, ledger, Sent, TypeOK
<1>2. \A d \in Calls : d # c => calls'[d] = calls[d]
  BY DEF Charge, TypeOK
<1>3. \A d \in Calls : d # c => (Sent(d)' <=> Sent(d))
  BY <1>2 DEF Sent
<1>4. ASSUME NEW s \in Runs, NEW hold \in held'[s]
      PROVE  \E d \in Calls : HoldOf(d, s, hold)'
  <2>1. hold \in held[s] /\ ~ (s = calls[c].run /\ hold = calls[c].hold)
    <3>1. CASE settle(calls[c].run, calls[c].hold, actual)
      BY <1>4, <3>1 DEF settle, TypeOK, LedgerTypeOK
    <3>2. CASE ~ IsHeld(calls[c].run, calls[c].hold) /\ UNCHANGED ledger
      BY <1>4, <3>2 DEF IsHeld, ledger
    <3>. QED
      BY <3>1, <3>2 DEF Charge
  <2>2. PICK d \in Calls : HoldOf(d, s, hold)
    BY <2>1 DEF Owned
  <2>3. d # c
    BY <2>1, <2>2 DEF HoldOf
  <2>. QED
    BY <1>1, <1>2, <1>3, <2>2, <2>3 DEF HoldOf
<1>5. ASSUME NEW d \in Calls PROVE Earlier(d)'
  BY <1>1, <1>2, <1>3 DEF Owned, Earlier
<1>6. ASSUME NEW d \in Calls, NEW e \in Calls PROVE OwnId(d, e)'
  BY <1>1, <1>2, <1>3 DEF Owned, OwnId
<1>. QED
  BY <1>4, <1>5, <1>6 DEF Owned

LEMMA OwnedRetry ==
  ASSUME TypeOK, Owned, NEW c \in Calls, Retry(c)
  PROVE  Owned'
<1>1. calls[c] \in Call /\ Sent(c)
  BY SentType DEF Retry
<1>2. PICK reached \in BOOLEAN : calls' = [calls EXCEPT ![c] = Again(calls[c], reached)]
  BY DEF Retry
<1>3. /\ calls'[c] = Again(calls[c], reached)
      /\ \A d \in Calls : d # c => calls'[d] = calls[d]
  BY <1>2 DEF TypeOK
<1>4. Again(calls[c], reached) \in Call
  BY <1>1, AgainType
<1>5. Sent(c)'
  BY <1>3, <1>4 DEF Sent, Call, Idle
<1>6. /\ calls'[c].run = calls[c].run
      /\ calls'[c].hold = calls[c].hold
      /\ calls'[c].receipt = calls[c].receipt
  BY <1>1, <1>3 DEF Again, Call
<1>7. \A d \in Calls : /\ Sent(d)' <=> Sent(d)
                       /\ calls'[d].run = calls[d].run
                       /\ calls'[d].hold = calls[d].hold
                       /\ calls'[d].receipt = calls[d].receipt
  BY <1>1, <1>3, <1>5, <1>6 DEF Sent
<1>8. UNCHANGED <<held, next_id, adapters>>
  BY DEF Retry, ledger
<1>9. \A r, hold : \A d \in Calls : HoldOf(d, r, hold)' <=> HoldOf(d, r, hold)
  BY <1>7, <1>8 DEF HoldOf
<1>10. \A d \in Calls : Earlier(d)' <=> Earlier(d)
  BY <1>7, <1>8 DEF Earlier
<1>11. \A d, e \in Calls : OwnId(d, e)' <=> OwnId(d, e)
  BY <1>7 DEF OwnId
<1>. QED
  BY <1>8, <1>9, <1>10, <1>11 DEF Owned

LEMMA OwnedStep == TypeOK /\ AccountsOpen /\ Owned /\ [Next]_vars => Owned'
<1> SUFFICES ASSUME TypeOK, AccountsOpen, Owned, [Next]_vars PROVE Owned'
  OBVIOUS
<1> USE DEF ledger, gateway, execution
<1>1. ASSUME UNCHANGED <<calls, next_id, held, adapters>> PROVE Owned'
  BY <1>1, OwnedFrame
<1>2. ASSUME NEW r \in Runs, Admit(r) PROVE Owned'
  <2>1. held[r] = {} /\ held' = held
    BY <1>2 DEF Admit, admit, AccountsOpen
  <2>2. \A s \in Runs : s # r => adapters'[s] = adapters[s]
    BY <1>2 DEF Admit, TypeOK
  <2>3. UNCHANGED <<calls, next_id>>
    BY <1>2 DEF Admit, admit
  <2>. QED
    BY <2>1, <2>2, <2>3, OwnedFrame
<1>3. ASSUME NEW r \in Runs, Close(r) PROVE Owned'
  <2>1. held'[r] = {} /\ UNCHANGED <<calls, next_id>>
    BY <1>3 DEF Close, close, TypeOK, LedgerTypeOK
  <2>2. \A s \in Runs : s # r => held'[s] = held[s] /\ adapters'[s] = adapters[s]
    BY <1>3 DEF Close, close, TypeOK, LedgerTypeOK
  <2>. QED
    BY <2>1, <2>2, OwnedFrame
<1>4. ASSUME NEW r \in Runs,
             \/ AdmitRefused(r) \/ AdmitRun(r) \/ AdmitUnanswered(r)
             \/ ContainerEnds(r) \/ SandboxRaises(r)
             \/ CloseRun(r) \/ CloseRefused(r) \/ CloseUnanswered(r)
             \/ OrphanEnds(r)
      PROVE  UNCHANGED <<calls, next_id, held, adapters>> \/ Admit(r) \/ Close(r)
  BY <1>4 DEF AdmitRefused, AdmitRun, AdmitUnanswered, ContainerEnds,
              SandboxRaises, CloseRun, CloseRefused, CloseUnanswered, OrphanEnds
<1>5. ASSUME NEW c \in Calls, Outcome(c) PROVE Owned'
  BY <1>5, OutcomeCharges, OwnedCharge, OwnedRetry DEF Charged
<1>6. CASE GatewayDies
  BY <1>6 DEF GatewayDies, lose, Owned, Earlier, OwnId, Sent
<1>7. CASE ValidatorDies
  BY <1>7, <1>1 DEF ValidatorDies
<1>8. CASE UNCHANGED vars
  BY <1>8, <1>1 DEF vars
<1>. QED
  BY <1>1, <1>2, <1>3, <1>4, <1>5, <1>6, <1>7, <1>8, OwnedBegin DEF Next

LEMMA OwnedIsHoldsAreOwned == TypeOK /\ Owned => HoldsAreOwned
<1> SUFFICES ASSUME TypeOK, Owned, NEW r \in Runs, NEW hold \in held[r]
             PROVE  \E c \in Calls :
                      /\ Sent(c)
                      /\ calls[c].receipt = adapters[r]
                      /\ \A d \in Calls :
                           (Sent(d) /\ calls[d].run = r /\ calls[d].hold = hold) <=> d = c
  BY DEF HoldsAreOwned
<1>1. PICK c \in Calls : HoldOf(c, r, hold)
  BY DEF Owned
<1>2. ASSUME NEW d \in Calls, Sent(d), calls[d].hold = hold PROVE d = c
  BY <1>1, <1>2 DEF HoldOf, Owned, OwnId
<1>. QED
  BY <1>1, <1>2 DEF HoldOf

(* A hold belongs to exactly one call in flight, begun in the admission    *)
(* that is open: no call that comes back late settles another's.           *)
THEOREM HoldsCorrect == Spec => []HoldsAreOwned
BY TypeInit, TypeStep, AccountsInit, AccountsStep, OwnedInit, OwnedStep,
   OwnedIsHoldsAreOwned, PTL DEF Spec

-----------------------------------------------------------------------------
(* Tokens and admissions *)

(* A container whose token the gateway in place would accept is in the     *)
(* admission that is open, unless it could not be killed; and no run is    *)
(* closed by its runner while it has another container.                    *)
Current(r) ==
  containers[r] # NoToken =>
    /\ containers[r].secret <= secret
    /\ containers[r].admission # None
    /\ containers[r].secret = secret /\ ~ containers[r].survivor
         => adapters[r] = containers[r].admission

ClosingIsOver(r) ==
  runner[r] = "closing" => containers[r] = NoToken \/ containers[r].survivor

TokensCurrent ==
  /\ \A r \in Runs : Current(r) /\ ClosingIsOver(r)
  /\ TokenSpendsItsOwnAdmission

LEMMA TokensInit == Init => TokensCurrent
BY DEF Init, TokensCurrent, Current, ClosingIsOver, TokenSpendsItsOwnAdmission, Sent

(* Steps of one run's execution, which no call in flight notices.          *)
LEMMA TokensFrame ==
  ASSUME TokensCurrent, NEW r \in Runs, calls' = calls,
         Current(r)', ClosingIsOver(r)', secret' = secret,
         \A s \in Runs : s # r => /\ containers'[s] = containers[s]
                                  /\ adapters'[s] = adapters[s]
                                  /\ runner'[s] = runner[s]
  PROVE  TokensCurrent'
BY DEF TokensCurrent, Current, ClosingIsOver, TokenSpendsItsOwnAdmission, Sent

LEMMA TokensAdmit ==
  ASSUME TypeOK, TokensCurrent, NEW r \in Runs, AdmitRun(r) \/ AdmitUnanswered(r)
  PROVE  TokensCurrent'
<1>1. /\ adapters[r] = None
      /\ adapters'[r] = admissions + 1
      /\ admissions' = admissions + 1
      /\ admissions \in Nat
      /\ runner'[r] # "closing"
      /\ UNCHANGED <<calls, secret>>
      /\ \A s \in Runs : s # r => /\ adapters'[s] = adapters[s]
                                  /\ runner'[s] = runner[s]
  BY DEF AdmitRun, AdmitUnanswered, Admit, Ends, TypeOK
<1>2. ClosingIsOver(r)'
  BY <1>1 DEF ClosingIsOver
<1>3. Current(r)' /\ \A s \in Runs : s # r => containers'[s] = containers[s]
  <2>1. CASE UNCHANGED containers
    BY <1>1, <2>1 DEF TokensCurrent, Current
  <2>2. CASE containers' = [containers EXCEPT ![r] = [admission |-> admissions',
                                                      secret    |-> secret,
                                                      survivor  |-> FALSE]]
    BY <1>1, <2>2 DEF Current, TypeOK, None
  <2>. QED
    BY <2>1, <2>2 DEF AdmitRun, AdmitUnanswered
<1>. QED
  BY <1>1, <1>2, <1>3, TokensFrame

LEMMA TokensEnd ==
  ASSUME TypeOK, TokensCurrent, NEW r \in Runs,
         ContainerEnds(r) \/ SandboxRaises(r) \/ OrphanEnds(r)
  PROVE  TokensCurrent'
<1>1. /\ UNCHANGED <<calls, secret, adapters>>
      /\ \A s \in Runs : s # r => /\ containers'[s] = containers[s]
                                  /\ runner'[s] = runner[s]
  BY DEF ContainerEnds, SandboxRaises, OrphanEnds, Ends, gateway, TypeOK
<1>2. \/ containers'[r] = NoToken
      \/ containers'[r] = NotKilled(containers[r])
  BY DEF ContainerEnds, SandboxRaises, OrphanEnds, TypeOK
<1>3. CASE containers'[r] = NoToken
  BY <1>1, <1>3, TokensFrame DEF Current, ClosingIsOver
<1>4. CASE containers'[r] = NotKilled(containers[r])
  <2>1. CASE containers[r] = NoToken
    <3>1. containers'[r] = NoToken
      BY <1>4, <2>1 DEF NotKilled
    <3>. QED
      BY <1>3, <3>1
  <2>2. CASE containers[r] # NoToken
    <3>1. /\ containers'[r].survivor = TRUE
          /\ containers'[r].secret = containers[r].secret
          /\ containers'[r].admission = containers[r].admission
      BY <1>4, <2>2 DEF NotKilled, TypeOK, Token
    <3>2. Current(r)' /\ ClosingIsOver(r)'
      BY <1>1, <2>2, <3>1 DEF TokensCurrent, Current, ClosingIsOver
    <3>. QED
      BY <1>1, <3>2, TokensFrame
  <2>. QED
    BY <2>1, <2>2
<1>. QED
  BY <1>2, <1>3, <1>4

LEMMA TokensClose ==
  ASSUME TypeOK, TokensCurrent, NEW r \in Runs,
         CloseRun(r) \/ CloseRefused(r) \/ CloseUnanswered(r)
  PROVE  TokensCurrent'
<1>1. /\ UNCHANGED <<calls, secret, containers>>
      /\ runner[r] = "closing"
      /\ runner'[r] # "closing"
      /\ \A s \in Runs : s # r => /\ adapters'[s] = adapters[s]
                                  /\ runner'[s] = runner[s]
  BY DEF CloseRun, CloseRefused, CloseUnanswered, Close, Ends, gateway, TypeOK
<1>2. Current(r)' /\ ClosingIsOver(r)'
  BY <1>1 DEF TokensCurrent, Current, ClosingIsOver
<1>. QED
  BY <1>1, <1>2, TokensFrame

(* Steps that move no execution: what calls they leave in flight were in   *)
(* flight before, but for one begun on a token that is accepted.           *)
LEMMA TokensCalls ==
  ASSUME TypeOK, TokensCurrent, UNCHANGED <<secret, adapters, containers, runner>>,
         \A c \in Calls :
           Sent(c)' => \/ /\ Sent(c)
                          /\ calls'[c].token = calls[c].token
                          /\ calls'[c].receipt = calls[c].receipt
                       \/ \E r \in Runs : /\ Authentic(containers[r])
                                          /\ calls'[c].token = containers[r]
                                          /\ calls'[c].receipt = adapters[r]
  PROVE  TokensCurrent'
<1>1. ASSUME NEW c \in Calls, Sent(c)'
      PROVE  calls'[c].token.admission = calls'[c].receipt \/ calls'[c].token.survivor
  BY <1>1 DEF TokensCurrent, TokenSpendsItsOwnAdmission, Current, Authentic
<1>2. \A r \in Runs : Current(r)' /\ ClosingIsOver(r)'
  BY DEF TokensCurrent, Current, ClosingIsOver
<1>. QED
  BY <1>1, <1>2 DEF TokensCurrent, TokenSpendsItsOwnAdmission

LEMMA TokensStep == TypeOK /\ TokensCurrent /\ [Next]_vars => TokensCurrent'
<1> SUFFICES ASSUME TypeOK, TokensCurrent, [Next]_vars PROVE TokensCurrent'
  OBVIOUS
<1> USE DEF ledger, gateway, execution
<1>1. ASSUME NEW r \in Runs, AdmitRefused(r) PROVE TokensCurrent'
  <2>1. Current(r)' /\ ClosingIsOver(r)'
    BY <1>1 DEF AdmitRefused, Ends, TokensCurrent, Current, ClosingIsOver, TypeOK
  <2>. QED
    BY <1>1, <2>1, TokensFrame DEF AdmitRefused, Ends, TypeOK
<1>2. ASSUME NEW c \in Calls, NEW r \in Runs, NEW kind \in {"llm", "search"},
             NEW estimate, BeginCall(c, r, kind, estimate)
      PROVE  TokensCurrent'
  <2>1. /\ UNCHANGED <<secret, adapters, containers, runner>>
        /\ Authentic(containers[r])
        /\ calls'[c].token = containers[r]
        /\ calls'[c].receipt = adapters[r]
        /\ \A d \in Calls : d # c => calls'[d] = calls[d]
    BY <1>2 DEF BeginCall, TypeOK
  <2>. QED
    BY <2>1, TokensCalls DEF Sent
<1>3. ASSUME NEW c \in Calls, Sent(c), Charged(c) PROVE TokensCurrent'
  <2>1. /\ UNCHANGED <<secret, adapters, containers, runner>>
        /\ calls'[c] = Idle
        /\ \A d \in Calls : d # c => calls'[d] = calls[d]
    BY <1>3 DEF Charged, Charge, TypeOK
  <2>. QED
    BY <2>1, TokensCalls DEF Sent
<1>4. ASSUME NEW c \in Calls, Retry(c) PROVE TokensCurrent'
  <2>1. calls[c] \in Call /\ Sent(c)
    BY <1>4, SentType DEF Retry
  <2>2. PICK reached \in BOOLEAN : calls' = [calls EXCEPT ![c] = Again(calls[c], reached)]
    BY <1>4 DEF Retry
  <2>3. /\ calls'[c].token = calls[c].token
        /\ calls'[c].receipt = calls[c].receipt
        /\ \A d \in Calls : d # c => calls'[d] = calls[d]
    BY <2>1, <2>2 DEF Again, Call, TypeOK
  <2>4. UNCHANGED <<secret, adapters, containers, runner>>
    BY <1>4 DEF Retry
  <2>. QED
    BY <2>1, <2>3, <2>4, TokensCalls DEF Sent
<1>5. CASE GatewayDies
  <2>1. /\ UNCHANGED <<containers, runner>>
        /\ secret' = secret + 1
        /\ \A c \in Calls : ~ Sent(c)'
    BY <1>5 DEF GatewayDies, Sent
  <2>2. ASSUME NEW r \in Runs, containers[r] # NoToken
        PROVE  containers[r].secret <= secret' /\ containers[r].secret # secret'
    <3>1. containers[r].secret \in Nat /\ secret \in Nat
      BY DEF TypeOK, Token
    <3>. QED
      BY <2>1, <2>2, <3>1 DEF TokensCurrent, Current
  <2>. QED
    BY <2>1, <2>2 DEF TokensCurrent, Current, ClosingIsOver, TokenSpendsItsOwnAdmission
<1>6. CASE ValidatorDies
  BY <1>6 DEF ValidatorDies, TokensCurrent, Current, ClosingIsOver,
              TokenSpendsItsOwnAdmission, Sent
<1>7. CASE UNCHANGED vars
  BY <1>7 DEF vars, TokensCurrent, Current, ClosingIsOver,
              TokenSpendsItsOwnAdmission, Sent
<1>. QED
  BY <1>1, <1>2, <1>3, <1>4, <1>5, <1>6, <1>7, TokensAdmit, TokensEnd, TokensClose,
     OutcomeCharges DEF Next

(* What is spent on a token is charged to the admission it was issued in,  *)
(* across restarts of either process, orphaned containers and re-opened    *)
(* runs, but for a container that could not be killed.                     *)
THEOREM TokenCorrect == Spec => []TokenSpendsItsOwnAdmission
<1>1. TokensCurrent => TokenSpendsItsOwnAdmission
  BY DEF TokensCurrent
<1>. QED
  BY <1>1, TypeInit, TypeStep, TokensInit, TokensStep, PTL DEF Spec

-----------------------------------------------------------------------------
(* Receipts *)

(* Open runs have admissions, and so receipts, of their own, and one not   *)
(* yet given out is blank.                                                 *)
ReceiptsFit ==
  /\ admissions <= MaxAdmissions
  /\ \A a \in Admissions : a > admissions => recorded[a] = 0 /\ unread[a] = 0
  /\ \A r \in Runs : adapters[r] <= admissions
  /\ \A r, s \in Runs : adapters[r] = adapters[s] /\ adapters[r] # None => r = s
  /\ ReceiptAccountsForCharges

LEMMA ReceiptsInit == Init => ReceiptsFit
BY GatewayAssumption DEF Init, LedgerInit, ReceiptsFit, ReceiptAccountsForCharges,
   GatewayAssumption, None

LEMMA OpenReceipt ==
  ASSUME TypeOK, ReceiptsFit, NEW r \in Runs, adapters[r] # None
  PROVE  /\ adapters[r] \in Admissions
         /\ recorded[adapters[r]] \in Nat
         /\ unread[adapters[r]] \in Nat
BY GatewayAssumption DEF TypeOK, ReceiptsFit, Admissions, None, GatewayAssumption

LEMMA ReceiptsAdmit ==
  ASSUME TypeOK, AccountsOpen, ReceiptsFit, NEW r \in Runs, Admit(r)
  PROVE  ReceiptsFit'
<1>1. /\ admissions \in Nat
      /\ admissions' = admissions + 1
      /\ admissions' <= MaxAdmissions
      /\ adapters' = [adapters EXCEPT ![r] = admissions']
      /\ UNCHANGED <<recorded, unread, settled>>
  BY GatewayAssumption DEF Admit, admit, TypeOK, GatewayAssumption
<1>2. \A s \in Runs : adapters[s] \in Nat /\ adapters[s] <= admissions
  BY DEF TypeOK, ReceiptsFit
<1>3. adapters'[r] = admissions' /\ \A s \in Runs : s # r => adapters'[s] = adapters[s]
  BY <1>1 DEF TypeOK
<1>4. \A s \in Runs : adapters'[s] <= admissions'
  BY <1>1, <1>2, <1>3
<1>5. \A s, t \in Runs : adapters'[s] = adapters'[t] /\ adapters'[s] # None => s = t
  BY <1>1, <1>2, <1>3 DEF ReceiptsFit
<1>6. \A a \in Admissions : a > admissions' => recorded'[a] = 0 /\ unread'[a] = 0
  BY <1>1 DEF ReceiptsFit, Admissions
<1>7. recorded'[admissions'] = 0 /\ unread'[admissions'] = 0
  BY <1>1 DEF ReceiptsFit, Admissions
<1>8. settled[r] = 0
  BY DEF Admit, AccountsOpen
<1>9. \A s \in Runs :
        adapters'[s] # None
          => settled'[s] = recorded'[adapters'[s]] + unread'[adapters'[s]]
  BY <1>1, <1>3, <1>7, <1>8 DEF ReceiptsFit, ReceiptAccountsForCharges
<1>. QED
  BY <1>1, <1>4, <1>5, <1>6, <1>9 DEF ReceiptsFit, ReceiptAccountsForCharges

LEMMA ReceiptsClose ==
  ASSUME TypeOK, ReceiptsFit, NEW r \in Runs, Close(r)
  PROVE  ReceiptsFit'
<1>1. /\ adapters'[r] = None
      /\ \A s \in Runs : s # r => adapters'[s] = adapters[s] /\ settled'[s] = settled[s]
      /\ UNCHANGED admissions
  BY DEF Close, close, TypeOK, LedgerTypeOK
<1>2. \A a \in Admissions :
        /\ recorded'[a] = IF a = adapters[r] THEN 0 ELSE recorded[a]
        /\ unread'[a] = IF a = adapters[r] THEN 0 ELSE unread[a]
  BY DEF Close
<1>3. admissions \in Nat /\ adapters'[r] <= admissions
  BY <1>1 DEF TypeOK, None
<1>4. ASSUME NEW s \in Runs, adapters'[s] # None
      PROVE  settled'[s] = recorded'[adapters'[s]] + unread'[adapters'[s]]
  <2>1. s # r /\ adapters'[s] = adapters[s] /\ adapters[s] \in Admissions
    BY <1>1, <1>4, OpenReceipt
  <2>2. adapters[s] # adapters[r]
    BY <1>4, <2>1 DEF ReceiptsFit
  <2>. QED
    BY <1>1, <1>2, <1>4, <2>1, <2>2 DEF ReceiptsFit, ReceiptAccountsForCharges
<1>5. \A a \in Admissions : a > admissions' => recorded'[a] = 0 /\ unread'[a] = 0
  BY <1>1, <1>2 DEF ReceiptsFit
<1>6. \A s \in Runs : adapters'[s] <= admissions'
  BY <1>1, <1>3 DEF ReceiptsFit
<1>7. \A s, t \in Runs : adapters'[s] = adapters'[t] /\ adapters'[s] # None => s = t
  BY <1>1 DEF ReceiptsFit
<1>. QED
  BY <1>1, <1>4, <1>5, <1>6, <1>7 DEF ReceiptsFit, ReceiptAccountsForCharges

(* A charge goes on the receipt of the run's present admission, the one    *)
(* whose hold is settled.                                                  *)
LEMMA ReceiptsCharge ==
  ASSUME TypeOK, Owned, ReceiptsFit, NEW c \in Calls, Sent(c), NEW actual \in Nat,
         NEW recording \in BOOLEAN, Charge(c, actual, recording)
  PROVE  ReceiptsFit'
<1>1. UNCHANGED <<admissions, adapters>>
  BY DEF Charge
<1>2. CASE UNCHANGED <<settled, recorded, unread>>
  BY <1>1, <1>2 DEF ReceiptsFit, ReceiptAccountsForCharges
<1>3. CASE settle(calls[c].run, calls[c].hold, actual)
  <2> DEFINE r == calls[c].run
             a == calls[c].receipt
  <2>1. r \in Runs /\ calls[c].hold \in held[r]
    BY <1>3, SentType DEF Call, settle, IsHeld
  <2>2. PICK d \in Calls : HoldOf(d, r, calls[c].hold)
    BY <2>1 DEF Owned
  <2>3. d = c
    BY <2>2 DEF HoldOf, Owned, OwnId
  <2>4. a = adapters[r]
    BY <2>2, <2>3 DEF HoldOf
  <2>5. settled'[r] = settled[r] + actual /\ \A s \in Runs : s # r => settled'[s] = settled[s]
    BY <1>3, <2>1 DEF settle, TypeOK, LedgerTypeOK
  <2>6. \/ /\ recorded' = [recorded EXCEPT ![a] = recorded[a] + actual]
           /\ unread' = unread
        \/ /\ unread' = [unread EXCEPT ![a] = unread[a] + actual]
           /\ recorded' = recorded
    BY <1>3 DEF Charge, settle
  <2>7. ASSUME NEW s \in Runs, adapters[s] # None
        PROVE  settled'[s] = recorded'[adapters[s]] + unread'[adapters[s]]
    <3>1. /\ settled[s] = recorded[adapters[s]] + unread[adapters[s]]
          /\ recorded[adapters[s]] \in Nat
          /\ unread[adapters[s]] \in Nat
          /\ adapters[s] \in Admissions
          /\ settled[s] \in Nat
      BY <2>7, OpenReceipt DEF ReceiptsFit, ReceiptAccountsForCharges, TypeOK, LedgerTypeOK
    <3>2. CASE s = r
      BY <2>4, <2>5, <2>6, <3>1, <3>2 DEF TypeOK
    <3>3. CASE s # r
      <4>1. adapters[s] # a
        BY <2>1, <2>4, <2>7, <3>3 DEF ReceiptsFit
      <4>. QED
        BY <2>5, <2>6, <3>1, <3>3, <4>1 DEF TypeOK
    <3>. QED
      BY <3>2, <3>3
  <2>8. \A b \in Admissions : b > admissions => recorded'[b] = 0 /\ unread'[b] = 0
    <3> SUFFICES ASSUME NEW b \in Admissions, b > admissions PROVE recorded'[b] = 0 /\ unread'[b] = 0
      OBVIOUS
    <3>1. adapters[r] <= admissions /\ adapters[r] \in Nat /\ admissions \in Nat
      BY <2>1 DEF ReceiptsFit, TypeOK
    <3>2. b # a
      BY <2>4, <3>1 DEF Admissions
    <3>3. recorded[b] = 0 /\ unread[b] = 0
      BY DEF ReceiptsFit
    <3>. QED
      BY <2>6, <3>2, <3>3 DEF TypeOK
  <2>. QED
    BY <1>1, <2>7, <2>8 DEF ReceiptsFit, ReceiptAccountsForCharges
<1>. QED
  BY <1>2, <1>3 DEF Charge, ledger

LEMMA ReceiptsStep ==
  TypeOK /\ AccountsOpen /\ Owned /\ ReceiptsFit /\ [Next]_vars => ReceiptsFit'
<1> SUFFICES ASSUME TypeOK, AccountsOpen, Owned, ReceiptsFit, [Next]_vars
             PROVE  ReceiptsFit'
  OBVIOUS
<1> USE DEF ledger, gateway, execution
<1>1. ASSUME UNCHANGED <<admissions, adapters, recorded, unread, settled>> PROVE ReceiptsFit'
  BY <1>1 DEF ReceiptsFit, ReceiptAccountsForCharges
<1>2. ASSUME NEW r \in Runs,
             \/ AdmitRefused(r) \/ AdmitRun(r) \/ AdmitUnanswered(r)
             \/ ContainerEnds(r) \/ SandboxRaises(r)
             \/ CloseRun(r) \/ CloseRefused(r) \/ CloseUnanswered(r)
             \/ OrphanEnds(r)
      PROVE  \/ UNCHANGED <<admissions, adapters, recorded, unread, settled>>
             \/ Admit(r)
             \/ Close(r)
  BY <1>2 DEF AdmitRefused, AdmitRun, AdmitUnanswered, ContainerEnds,
              SandboxRaises, CloseRun, CloseRefused, CloseUnanswered, OrphanEnds
<1>3. ASSUME NEW c \in Calls, NEW r \in Runs, NEW kind \in {"llm", "search"},
             NEW estimate, BeginCall(c, r, kind, estimate)
      PROVE  UNCHANGED <<admissions, adapters, recorded, unread, settled>>
  BY <1>3 DEF BeginCall, reserve
<1>4. ASSUME NEW c \in Calls, Retry(c)
      PROVE  UNCHANGED <<admissions, adapters, recorded, unread, settled>>
  BY <1>4 DEF Retry
<1>5. CASE GatewayDies
  BY <1>5 DEF GatewayDies, lose, ReceiptsFit, ReceiptAccountsForCharges, TypeOK, None
<1>6. CASE ValidatorDies
  BY <1>6, <1>1 DEF ValidatorDies
<1>7. CASE UNCHANGED vars
  BY <1>7, <1>1 DEF vars
<1>. QED
  BY <1>1, <1>2, <1>3, <1>4, <1>5, <1>6, <1>7, OutcomeCharges, ReceiptsAdmit,
     ReceiptsClose, ReceiptsCharge DEF Next, Charged

(* What an open run has been charged is on its receipt or was paid for     *)
(* answers that could not be read, though calls answer in any order,       *)
(* before and after the run is closed and opened again, and either process *)
(* may die: ledger and receipt part company nowhere else.                  *)
THEOREM ReceiptCorrect == Spec => []ReceiptAccountsForCharges
<1>1. ReceiptsFit => ReceiptAccountsForCharges
  BY DEF ReceiptsFit
<1>. QED
  BY <1>1, TypeInit, TypeStep, AccountsInit, AccountsStep, OwnedInit, OwnedStep,
     ReceiptsInit, ReceiptsStep, PTL DEF Spec

=============================================================================
