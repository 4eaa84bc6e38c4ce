-------------------------------- MODULE Gates --------------------------------
(***************************************************************************)
(* validator/scoring/gates.py: the thirteen gates, as a predicate on what  *)
(* was measured of one execution.  The measurements are made elsewhere:    *)
(* the ledger's spend, the runner's wall clock, the receipt's calls.       *)
(*                                                                         *)
(* A run is [readable, complete, ideas, calls, rcc, searches, wall,        *)
(* timed_out, directive, admission, excluded]; a call is [model, revision, *)
(* provider, tool], its model "" when the receipt names none; a problem is *)
(* [size, rcc, searches, wall], 0 for a ceiling it does not declare.       *)
(***************************************************************************)
EXTENDS Integers, FiniteSets

Gate == {"SCHEMA", "FIELDS", "UNDECLARED_MODEL", "REVISION_MISMATCH",
         "UNAUTHORIZED_ENDPOINT", "BUDGET", "TIME", "CITATION", "INJECTION",
         "COPYING", "HUMAN", "PROHIBITED", "ENVIRONMENT"}

(* A ceiling that is absent or not positive is unverifiable, not unlimited *)
Ceiling(limit) == limit > 0

CheckFields(run, problem) ==
  run.complete /\ Ceiling(problem.size) /\ run.ideas = problem.size

(* An unrecorded model, "", is in no manifest *)
CheckDeclared(run, declared) ==
  \A call \in run.calls : call.model \in DOMAIN declared

CheckRevisions(run, declared) ==
  \A call \in run.calls :
    \/ call.model \notin DOMAIN declared
    \/ declared[call.model] \in {"", call.revision}

CheckEndpoints(run) == \A call \in run.calls : call.provider = "openrouter"

CheckBudget(run, problem) ==
  /\ Ceiling(problem.rcc) /\ run.rcc <= problem.rcc
  /\ Ceiling(problem.searches) /\ run.searches <= problem.searches

CheckTime(run, problem) ==
  ~run.timed_out /\ Ceiling(problem.wall) /\ run.wall <= problem.wall

CheckInjection(run) == ~run.directive

CheckHuman(run) ==
  /\ ~run.admission
  /\ run.ideas > 0 => \E call \in run.calls : call.tool = "llm"

CheckProhibited(run) == ~run.excluded

(* The failed gates.  execute_one hands check_all no schema errors, no     *)
(* citation, copying or environment failures, so on a readable portfolio   *)
(* these four gates always pass.                                           *)
CheckAll(run, problem, declared) ==
  IF ~run.readable THEN Gate
  ELSE {g \in Gate :
          \/ g = "FIELDS" /\ ~CheckFields(run, problem)
          \/ g = "UNDECLARED_MODEL" /\ ~CheckDeclared(run, declared)
          \/ g = "REVISION_MISMATCH" /\ ~CheckRevisions(run, declared)
          \/ g = "UNAUTHORIZED_ENDPOINT" /\ ~CheckEndpoints(run)
          \/ g = "BUDGET" /\ ~CheckBudget(run, problem)
          \/ g = "TIME" /\ ~CheckTime(run, problem)
          \/ g = "INJECTION" /\ ~CheckInjection(run)
          \/ g = "HUMAN" /\ ~CheckHuman(run)
          \/ g = "PROHIBITED" /\ ~CheckProhibited(run)}
=============================================================================
