------------------------------ MODULE Gateway ------------------------------
(***************************************************************************)
(* A laboratory's run, end to end: the runner that admits it, contains it  *)
(* and closes it (validator/sandbox), the gateway's routes (gateway/api),  *)
(* the provider adapter (gateway/adapters/openrouter), session tokens and  *)
(* the receipt.                                                            *)
(*                                                                         *)
(* A route's handler runs on one event loop and gives it up only while it  *)
(* awaits the provider.  So a call is two kinds of step: the one that      *)
(* reserves and sends, and the ones in which an attempt's outcome comes    *)
(* back.  In between a container may end, a run may be closed and opened   *)
(* again, and either process may die.                                      *)
(***************************************************************************)
EXTENDS Ledger

CONSTANTS
  Calls,            \* requests the gateway may be serving at once
  Estimates,        \* what a completion is estimated at
  Charges,          \* what its answer turns out to cost
  rcc_per_search,
  max_attempts,
  MaxAdmissions,    \* bound: how many runs are opened, counting re-openings
  MaxDeaths         \* bound: how often either process dies

ASSUME GatewayAssumption ==
  /\ Estimates \subseteq Nat
  /\ Charges \subseteq Nat
  /\ rcc_per_search \in Nat
  /\ max_attempts \in Nat \ {0}
  /\ MaxAdmissions \in Nat
  /\ MaxDeaths \in Nat

VARIABLES
  admissions,   \* runs opened so far; the last one's number
  secret,       \* the process's token secret: which process it is
  adapters,     \* per run, the admission its adapter and receipt belong to
  recorded,     \* per admission, the RCC on its receipt while it is open
  unread,       \* history: per admission, charges for answers not readable
  calls,        \* per slot, the call being served
  runner,       \* per run, where Runner.execute is
  containers,   \* per run, the token in the container of that name
  outcome,      \* per run, how its execution ended
  deaths

gateway   == <<admissions, secret, adapters, recorded, unread, calls>>
execution == <<runner, containers, outcome>>
vars      == <<ledger, gateway, execution, deaths>>

-----------------------------------------------------------------------------
(* Data.  An admission stands for the adapter and the receipt built for it *)
(* and 0 is none.  A token is its run (the container's), the process that  *)
(* signed it, and, for the properties only, the admission it was issued in *)
(* and whether a kill meant for its container has failed.  Expiry is left  *)
(* out: to the gateway a container whose token has expired is one that     *)
(* makes no more calls, which any container may do.                        *)

None == 0

Admissions == 1 .. MaxAdmissions

NoToken == [admission |-> None, secret |-> 0, survivor |-> FALSE]

Token == [admission : Nat, secret : Nat, survivor : BOOLEAN]

Idle == [stage |-> "idle"]

(* `reached`: the provider has seen an attempt, decided as it is sent.     *)
Call == [stage     : {"sent"},
         run       : Runs,
         receipt   : Nat,
         token     : Token,
         kind      : {"llm", "search"},
         hold      : Hold,
         attempts  : Nat,
         reached   : BOOLEAN]

TypeOK ==
  /\ LedgerTypeOK
  /\ admissions \in Nat
  /\ secret \in Nat
  /\ adapters \in [Runs -> Nat]
  /\ recorded \in [Admissions -> Nat]
  /\ unread \in [Admissions -> Nat]
  /\ calls \in [Calls -> Call \cup {Idle}]
  /\ runner \in [Runs -> {"ready", "running", "closing", "over"}]
  /\ containers \in [Runs -> Token]
  /\ outcome \in [Runs -> {"none", "refused", "unreached", "raised", "measured"}]
  /\ deaths \in Nat

Init ==
  /\ LedgerInit
  /\ admissions = 0
  /\ secret = 1
  /\ adapters = [r \in Runs |-> None]
  /\ recorded = [a \in Admissions |-> 0]
  /\ unread = recorded
  /\ calls = [c \in Calls |-> Idle]
  /\ runner = [r \in Runs |-> "ready"]
  /\ containers = [r \in Runs |-> NoToken]
  /\ outcome = [r \in Runs |-> "none"]
  /\ deaths = 0

-----------------------------------------------------------------------------
(* Runner.execute, first half: admit the run and start its container.  The *)
(* runner asks for a token that expires with the episode, which is what    *)
(* TokenIssuer.issue allows, so the 400s of the route do not arise.        *)

Ends(r, how) == /\ runner' = [runner EXCEPT ![r] = "over"]
                /\ outcome' = [outcome EXCEPT ![r] = how]

(* 409: a run that is open is not admitted again.                          *)
AdmitRefused(r) ==
  /\ runner[r] = "ready"
  /\ adapters[r] # None
  /\ Ends(r, "refused")
  /\ UNCHANGED <<ledger, gateway, containers, deaths>>

Admit(r) ==
  /\ runner[r] = "ready"
  /\ adapters[r] = None
  /\ admissions < MaxAdmissions
  /\ admissions' = admissions + 1
  /\ admit(r)
  /\ adapters' = [adapters EXCEPT ![r] = admissions']
  /\ UNCHANGED <<secret, recorded, unread, calls>>

(* The token arrives and the container is started with it.  docker refuses *)
(* a name in use, which the runner sees as a container that exited.        *)
AdmitRun(r) ==
  /\ Admit(r)
  /\ runner' = [runner EXCEPT ![r] = "running"]
  /\ containers' = IF containers[r] # NoToken THEN containers
                   ELSE [containers EXCEPT ![r] = [admission |-> admissions',
                                                   secret    |-> secret,
                                                   survivor  |-> FALSE]]
  /\ UNCHANGED <<outcome, deaths>>

(* The answer is lost on its way back: the runner gives the run up.        *)
AdmitUnanswered(r) ==
  /\ Admit(r)
  /\ Ends(r, "unreached")
  /\ UNCHANGED <<containers, deaths>>

-----------------------------------------------------------------------------
(* A call from a container: authenticate, find the adapter, reserve, send. *)

Price(kind) == IF kind = "search" THEN {rcc_per_search} ELSE Estimates

(* Slip: any process's signature accepted.                                 *)
Authentic_AnySecret(token) == token # NoToken

Authentic(token) == token # NoToken /\ token.secret = secret

BeginCall(c, r, kind, estimate) ==
  /\ calls[c] = Idle
  /\ Authentic(containers[r])
  /\ adapters[r] # None
  /\ estimate \in Price(kind)
  /\ reserve(r, estimate, kind)
  /\ \E reached \in BOOLEAN :
       calls' = [calls EXCEPT ![c] =
                   [stage    |-> "sent",
                    run      |-> r,
                    receipt  |-> adapters[r],
                    token    |-> containers[r],
                    kind     |-> kind,
                    hold     |-> [id |-> next_id', rcc |-> estimate],
                    attempts |-> 1,
                    reached  |-> reached]]
  /\ UNCHANGED <<admissions, secret, adapters, recorded, unread, execution, deaths>>

Sent(c) == calls[c] # Idle

(* Slip: a settle that raises taken for one that succeeded, and the receipt *)
(* looked up anew.                                                         *)
Charge_RecordsAnyway(c, actual, recording) ==
  /\ \/ settle(calls[c].run, calls[c].hold, actual)
     \/ ~ IsHeld(calls[c].run, calls[c].hold) /\ UNCHANGED ledger
  /\ recorded' = IF recording /\ adapters[calls[c].run] # None
                 THEN [recorded EXCEPT ![adapters[calls[c].run]] = @ + actual]
                 ELSE recorded
  /\ calls' = [calls EXCEPT ![c] = Idle]
  /\ UNCHANGED <<admissions, secret, adapters, unread, execution, deaths>>

(* The call is over: its hold is settled at `actual`, which goes on the    *)
(* receipt the call was begun with unless the answer cannot be read; or    *)
(* the hold is gone, settle raises and nothing is recorded.                *)
Charge(c, actual, recording) ==
  /\ \/ /\ settle(calls[c].run, calls[c].hold, actual)
        /\ IF recording
           THEN /\ recorded' = [recorded EXCEPT ![calls[c].receipt] = @ + actual]
                /\ unread' = unread
           ELSE /\ unread' = [unread EXCEPT ![calls[c].receipt] = @ + actual]
                /\ recorded' = recorded
     \/ /\ ~ IsHeld(calls[c].run, calls[c].hold)
        /\ UNCHANGED <<ledger, recorded, unread>>
  /\ calls' = [calls EXCEPT ![c] = Idle]
  /\ UNCHANGED <<admissions, secret, adapters, execution, deaths>>

(* An answer to a completion costs what the provider counted; a search has *)
(* one price.  A body that cannot be read fails the call after settling    *)
(* and before recording.                                                   *)
Answered(c) ==
  /\ Sent(c)
  /\ calls[c].reached
  /\ \E actual \in IF calls[c].kind = "search" THEN {rcc_per_search} ELSE Charges,
        readable \in BOOLEAN :
       Charge(c, actual, readable)

(* A completion the provider refuses (4xx, not 429) costs nothing.         *)
Refused(c) ==
  /\ Sent(c)
  /\ calls[c].reached
  /\ calls[c].kind = "llm"
  /\ Charge(c, 0, TRUE)

(* A failed search is charged at once.                                     *)
SearchFailed(c) ==
  /\ Sent(c)
  /\ calls[c].kind = "search"
  /\ Charge(c, rcc_per_search, TRUE)

Again(call, reached) ==
  [call EXCEPT !.attempts = @ + 1, !.reached = @ \/ reached]

(* Slip: every attempt begun as if it were the call's first.               *)
Retry_CountsAfresh(c) ==
  /\ Sent(c)
  /\ calls[c].kind = "llm"
  /\ calls[c].attempts < max_attempts
  /\ \E reached \in BOOLEAN :
       calls' = [calls EXCEPT ![c].attempts = 1, ![c].reached = reached]
  /\ UNCHANGED <<ledger, admissions, secret, adapters, recorded, unread, execution,
                 deaths>>

(* Any other failure of a completion, a connection that was never made     *)
(* among them, is tried again ...                                          *)
Retry(c) ==
  /\ Sent(c)
  /\ calls[c].kind = "llm"
  /\ calls[c].attempts < max_attempts
  /\ \E reached \in BOOLEAN :
       calls' = [calls EXCEPT ![c] = Again(calls[c], reached)]
  /\ UNCHANGED <<ledger, admissions, secret, adapters, recorded, unread, execution,
                 deaths>>

(* ... and after the last attempt charged for every one of them.           *)
Exhausted(c) ==
  /\ Sent(c)
  /\ calls[c].kind = "llm"
  /\ calls[c].attempts = max_attempts
  /\ Charge(c, calls[c].hold.rcc * calls[c].attempts, TRUE)

Outcome(c) ==
  Answered(c) \/ Refused(c) \/ SearchFailed(c) \/ Retry(c) \/ Exhausted(c)

-----------------------------------------------------------------------------
(* Runner.execute, second half *)

NotKilled(token) ==
  IF token = NoToken THEN token ELSE [token EXCEPT !.survivor = TRUE]

(* The container exits, or is killed at its wall clock; a kill that docker *)
(* refuses is logged and passed over.                                      *)
ContainerEnds(r) ==
  /\ runner[r] = "running"
  /\ containers' \in {[containers EXCEPT ![r] = NoToken],
                      [containers EXCEPT ![r] = NotKilled(@)]}
  /\ runner' = [runner EXCEPT ![r] = "closing"]
  /\ UNCHANGED <<ledger, gateway, outcome, deaths>>

(* Something that is not a ContainerError (the kill command itself timing  *)
(* out, a docker that is gone) leaves `execute` without closing the run.   *)
SandboxRaises(r) ==
  /\ runner[r] = "running"
  /\ containers' = [containers EXCEPT ![r] = NotKilled(@)]
  /\ Ends(r, "raised")
  /\ UNCHANGED <<ledger, gateway, deaths>>

(* The gateway's close: adapter and receipt go, and the ledger's account.  *)
Close(r) ==
  /\ close(r)
  /\ adapters' = [adapters EXCEPT ![r] = None]
  /\ recorded' = [a \in Admissions |-> IF a = adapters[r] THEN 0 ELSE recorded[a]]
  /\ unread' = [a \in Admissions |-> IF a = adapters[r] THEN 0 ELSE unread[a]]
  /\ UNCHANGED <<admissions, secret, calls>>

CloseRun(r) ==
  /\ runner[r] = "closing"
  /\ adapters[r] # None
  /\ Close(r)
  /\ Ends(r, "measured")
  /\ UNCHANGED <<containers, deaths>>

(* The gateway knows no such run: it has been restarted.                   *)
CloseRefused(r) ==
  /\ runner[r] = "closing"
  /\ adapters[r] = None
  /\ Ends(r, "refused")
  /\ UNCHANGED <<ledger, gateway, containers, deaths>>

(* The request or its answer is lost.                                      *)
CloseUnanswered(r) ==
  /\ runner[r] = "closing"
  /\ \/ Close(r)
     \/ UNCHANGED <<ledger, gateway>>
  /\ Ends(r, "unreached")
  /\ UNCHANGED <<containers, deaths>>

-----------------------------------------------------------------------------
(* Deaths *)

(* The gateway: ledger, adapters, receipts and calls are gone, and the     *)
(* next process signs with a secret of its own.                            *)
GatewayDies ==
  /\ deaths < MaxDeaths
  /\ deaths' = deaths + 1
  /\ lose
  /\ secret' = secret + 1
  /\ adapters' = [r \in Runs |-> None]
  /\ recorded' = [a \in Admissions |-> 0]
  /\ unread' = recorded'
  /\ calls' = [c \in Calls |-> Idle]
  /\ UNCHANGED <<admissions, execution>>

(* The validator: EXECUTE, not recorded as done, runs again with the same  *)
(* run ids, and the containers stay with docker.                           *)
ValidatorDies ==
  /\ deaths < MaxDeaths
  /\ deaths' = deaths + 1
  /\ runner' = [r \in Runs |-> "ready"]
  /\ outcome' = [r \in Runs |-> "none"]
  /\ UNCHANGED <<ledger, gateway, containers>>

(* A container that outlived its execution ends on its own.                *)
OrphanEnds(r) ==
  /\ runner[r] # "running"
  /\ containers[r] # NoToken
  /\ containers' = [containers EXCEPT ![r] = NoToken]
  /\ UNCHANGED <<ledger, gateway, runner, outcome, deaths>>

-----------------------------------------------------------------------------
Next ==
  \/ \E r \in Runs :
       \/ AdmitRefused(r) \/ AdmitRun(r) \/ AdmitUnanswered(r)
       \/ ContainerEnds(r) \/ SandboxRaises(r)
       \/ CloseRun(r) \/ CloseRefused(r) \/ CloseUnanswered(r)
       \/ OrphanEnds(r)
  \/ \E c \in Calls, r \in Runs, kind \in {"llm", "search"},
        estimate \in Estimates \cup {rcc_per_search} :
       BeginCall(c, r, kind, estimate)
  \/ \E c \in Calls : Outcome(c)
  \/ GatewayDies
  \/ ValidatorDies

Spec == Init /\ [][Next]_vars

(* The provider answers or its client times out, so every attempt comes to *)
(* an outcome.                                                             *)
FairSpec == Spec /\ \A c \in Calls : WF_vars(Outcome(c))

-----------------------------------------------------------------------------
(* Safety *)

(* A run never commits more than its ceiling, but for what calls already   *)
(* under way cost beyond their estimates: however many of them the         *)
(* laboratory makes at once, none is taken on that does not fit.           *)
CeilingHolds ==
  \A r \in Runs : spent(r) <= MaximumRcc[r] + excess[r]

(* The ledger's holds are the reservations of the calls in flight: a hold  *)
(* belongs to exactly one call, begun in the run's present admission, and  *)
(* a call that comes back after its run was closed can settle no other's,  *)
(* even when the run has been opened again.                                *)
HoldsAreOwned ==
  \A r \in Runs : \A hold \in held[r] :
    \E c \in Calls :
      /\ Sent(c)
      /\ calls[c].receipt = adapters[r]
      /\ \A d \in Calls :
           (Sent(d) /\ calls[d].run = r /\ calls[d].hold = hold) <=> d = c

(* What a laboratory spends is charged to the admission its token was      *)
(* issued in: neither a restart of either process nor an orphaned          *)
(* container lets one execution spend another's budget, unless its runner  *)
(* went on although the container could not be killed.                     *)
TokenSpendsItsOwnAdmission ==
  \A c \in Calls :
    Sent(c) => \/ calls[c].token.admission = calls[c].receipt
               \/ calls[c].token.survivor

(* What the ledger has charged an open run is what its receipt shows and   *)
(* what was paid for answers that could not be read, to the last unit: no  *)
(* answer that comes back late, after a close, a re-opening or a death,    *)
(* puts its cost on one of the two and not on the other.                   *)
ReceiptAccountsForCharges ==
  \A r \in Runs :
    adapters[r] # None
      => settled[r] = recorded[adapters[r]] + unread[adapters[r]]

(* The gateway keeps the promise of Budget.                                *)
RunBudget == INSTANCE Budget WITH
  active    <- limits,
  committed <- [r \in Runs |-> spent(r)],
  overrun   <- excess

ImplementsBudget == RunBudget!BSpec

-----------------------------------------------------------------------------
(* What the code's comments say and the code does not do: see README.md,   *)
(* "Findings".                                                             *)

(* A breach of the ceiling is bounded to a single call.                    *)
BreachIsOneCall == \A r \in Runs : spent(r) <= MaximumRcc[r] + worst[r]

(* A call the provider never saw is not charged.                           *)
NeverSentIsFree ==
  [][\A c \in Calls :
       Sent(c) /\ ~ calls[c].reached /\ ~ Sent(c)'
         => settled'[calls[c].run] <= settled[calls[c].run]]_vars

-----------------------------------------------------------------------------
(* Liveness *)

(* Every call that was begun ends, and its hold with it.                   *)
EveryCallEnds == \A c \in Calls : Sent(c) ~> ~ Sent(c)
=============================================================================
