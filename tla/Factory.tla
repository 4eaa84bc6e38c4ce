------------------------------- MODULE Factory -------------------------------
(***************************************************************************)
(* The challenge factory, day after day: generate_step of                  *)
(* validator/__main__.py with everything it calls in                       *)
(* validator/challenge_factory (taxonomy, generator, pipeline, store), and *)
(* the start of the validator it runs in.                                  *)
(*                                                                         *)
(* A challenge is [text, domain, family, critic]: its identifier and a     *)
(* pack's hash are digests of contents, so equal challenges are the same   *)
(* one.  What a text says is Content; which slots the day's seed deals,    *)
(* what the generators write and what the critics answer is any choice.    *)
(***************************************************************************)
EXTENDS Season, Filters

CONSTANTS
  Launches,        \* a sequence of [season, args]: what may be started
  Content,         \* text -> its content; also the domain it declares
  CriticReplies,
  Outcomes,        \* of the discrimination probe
  MaxDay,          \* bound: the days looked at
  MaxCrashes       \* bound: how often the process dies

ASSUME FactoryAssumption ==
  /\ \A l \in DOMAIN Launches :
       LET declared == Launches[l].season.challenge_generation
       IN  /\ declared.dedup_lookback_days \in Int
           /\ declared.generators \in Seq(Range(declared.generators))
  /\ MaxDay \in Nat \ {0} /\ MaxCrashes \in Nat

VARIABLES
  launch,      \* which of the launches
  phase,       \* how far the day's generate_step has come
  why,         \* the reason the day's round was given up for, or ""
  day,
  slots,       \* the plan
  left,        \* candidates of the slot at hand that are still to be looked at
  history,     \* fingerprints a candidate is compared with
  challenges,  \* accepted so far, one per slot
  unfilled,    \* slots every candidate of which was rejected
  published,   \* packs whose hash the chain holds under the day
  stored,      \* the challenge store: {} or {the day's pack}
  prints,      \* the challenge store: fingerprint -> the day the last of its keys expires
  used,        \* day -> the fingerprints of the pack its round went on with
  crashes

build == <<slots, left, history, challenges, unfilled>>

store == <<stored, prints>>

vars == <<launch, phase, why, day, build, published, store, used, crashes>>

season == Launches[launch].season

args == Launches[launch].args

Generation == season.challenge_generation

Durable == args.redis # "none"

(* Under which launch a family can be called: it has a pin                 *)
Pinned ==
  {call \in
     (DOMAIN Launches) \X (UNION {CriticsOf(Launches[l].season) : l \in DOMAIN Launches}) :
     call[2] \in DOMAIN Pins(Launches[call[1]].season)}

Phase == {"off", "refused", "idle", "generating", "built", "published", "written",
          "recorded", "done", "lost"}

Reasons == {"", "plan", "unfilled", "counts", "unprobed", "another pack", "failure", "restart"}

Nothing == [key \in {} |-> 0]

NothingBuilt ==
  /\ slots = <<>>
  /\ left = 0
  /\ history = {}
  /\ challenges = <<>>
  /\ unfilled = 0

ForgetBuild ==
  /\ slots' = <<>>
  /\ left' = 0
  /\ history' = {}
  /\ challenges' = <<>>
  /\ unfilled' = 0

Init ==
  /\ launch \in DOMAIN Launches
  /\ phase = "off"
  /\ why = ""
  /\ day = 1
  /\ NothingBuilt
  /\ published = {}
  /\ stored = {}
  /\ prints = Nothing
  /\ used = Nothing
  /\ crashes = 0

(* A step that raises ends the round; the driver never comes back to it    *)
Lose(reason) ==
  /\ phase' = "lost"
  /\ why' = reason
  /\ ForgetBuild
  /\ UNCHANGED <<launch, day, published, store, used, crashes>>

-----------------------------------------------------------------------------
(* main *)

Launch ==
  /\ phase = "off"
  /\ phase' = IF ~Starts(season, args) THEN "refused"
              ELSE IF why # "" THEN "lost" ELSE "idle"
  /\ UNCHANGED <<launch, why, day, build, published, store, used, crashes>>

-----------------------------------------------------------------------------
(* plan: both pools are dealt out by the day's seed, in any order          *)
Deals(pool) ==
  {deal \in [1 .. SumFunction(pool) -> DOMAIN pool] :
     \A k \in DOMAIN pool : Cardinality({i \in DOMAIN deal : deal[i] = k}) = pool[k]}

PrintOf(challenge) == Fingerprint(Content[challenge.text], challenge.domain)

(* A day's print is kept dedup_lookback_days; on the day it runs out it    *)
(* may be there or be gone.  Without Redis nothing runs out.               *)
Fingerprints(expired) == DOMAIN prints \ expired

Expiring == IF Durable THEN {p \in DOMAIN prints : prints[p] <= day} ELSE {}

PrintsOf(pack) == {PrintOf(pack[i]) : i \in DOMAIN pack}

Plan ==
  /\ phase = "idle"
  /\ Planned(season)
  /\ \E families \in Deals(FamilyPool(season)),
        domains \in Deals(season.taxonomy.stratification) :
       slots' = [i \in DOMAIN families |->
                   [domain |-> domains[i], family |-> families[i],
                    critic |-> CriticFamilies(season)[families[i]]]]
  /\ \E expired \in SUBSET Expiring : history' = Fingerprints(expired)
  /\ left' = Generation.candidates_per_slot
  /\ phase' = "generating"
  /\ UNCHANGED <<launch, why, day, challenges, unfilled, published, store, used, crashes>>

-----------------------------------------------------------------------------
(* build_pack *)

At == Len(challenges) + unfilled + 1

Slot == slots[At]

(* Slip: the generator is taken at its word about the domain.              *)
X_AsBody(text) ==
  [text |-> text, domain |-> Content[text].domain, family |-> Slot.family,
   critic |-> Slot.critic]

(* What the reply says of domain, family and critic is overwritten         *)
AsBody(text) ==
  [text |-> text, domain |-> Slot.domain, family |-> Slot.family, critic |-> Slot.critic]

(* Under which launch a text passes the linter and the safety filter as a  *)
(* problem of a domain                                                     *)
Sound ==
  {use \in
     (DOMAIN Launches) \X (DOMAIN Content)
       \X (UNION {Launches[l].season.taxonomy.domains : l \in DOMAIN Launches}) :
     LET excluded == ExcludedDomains(Launches[use[1]].season.taxonomy)
     IN  /\ Lint(Content[use[2]], use[3], excluded) = {}
         /\ Screen(Content[use[2]], use[3], excluded)}

Discriminates(outcome) ==
  \A spread \in Generation.minimum_reference_spread_ppm :
    Assess(outcome, spread, Generation.minimum_degradation_gap_ppm,
           Generation.maximum_judge_instability_ppm)

(* _accept_first: the filters in their order, the probe only if one is     *)
(* wired                                                                   *)
Passes(body) ==
  /\ <<launch, body.text, body.domain>> \in Sound
  /\ ~IsDuplicate(PrintOf(body), history, Generation.duplicate_threshold_ppm)
  /\ \E reply \in CriticReplies : Review(<<launch, body.critic>> \in Pinned, reply)
  /\ args.probe => \E outcome \in Outcomes : Discriminates(outcome)

(* Slip: one candidate too many is asked for.                              *)
X_Candidate == phase = "generating" /\ At <= Len(slots) /\ left >= 0

Candidate == phase = "generating" /\ At <= Len(slots) /\ left > 0

(* Slip: an accepted problem is not compared with the rest of the pack.    *)
X_Accept ==
  /\ Candidate
  /\ \E text \in DOMAIN Content :
       /\ Passes(AsBody(text))
       /\ challenges' = Append(challenges, AsBody(text))
  /\ left' = Generation.candidates_per_slot
  /\ UNCHANGED <<launch, phase, why, day, slots, history, unfilled, published, store, used,
                 crashes>>

(* The first candidate that passes fills the slot *)
Accept ==
  /\ Candidate
  /\ \E text \in DOMAIN Content :
       /\ Passes(AsBody(text))
       /\ challenges' = Append(challenges, AsBody(text))
       /\ history' = history \cup {PrintOf(AsBody(text))}
  /\ left' = Generation.candidates_per_slot
  /\ UNCHANGED <<launch, phase, why, day, slots, unfilled, published, store, used, crashes>>

(* A filter rejects one; or the call for it failed, or its reply is not an *)
(* object                                                                  *)
Reject ==
  /\ Candidate
  /\ left' = left - 1
  /\ UNCHANGED <<launch, phase, why, day, slots, history, challenges, unfilled, published,
                 store, used, crashes>>

(* The other slots are generated all the same *)
LeaveUnfilled ==
  /\ phase = "generating" /\ At <= Len(slots) /\ left = 0
  /\ unfilled' = unfilled + 1
  /\ left' = Generation.candidates_per_slot
  /\ UNCHANGED <<launch, phase, why, day, slots, history, challenges, published, store, used,
                 crashes>>

PerGenerator(pack) ==
  [family \in {c.family : c \in Range(pack)} |->
     Cardinality({i \in DOMAIN pack : pack[i].family = family})]

AllTried == phase = "generating" /\ At > Len(slots)

Built ==
  /\ AllTried
  /\ unfilled = 0
  /\ PerGenerator(challenges) = DeclaredSlots(season)
  /\ phase' = "built"
  /\ UNCHANGED <<launch, why, day, build, published, store, used, crashes>>

(* A short pack is not shipped, nor one with other counts than declared    *)
NotShipped ==
  /\ AllTried
  /\ unfilled > 0 \/ PerGenerator(challenges) # DeclaredSlots(season)
  /\ Lose(IF unfilled > 0 THEN "unfilled" ELSE "counts")

-----------------------------------------------------------------------------
(* commit_and_store *)

Probed == args.probe \/ Generation.allow_unprobed_packs

Publish ==
  /\ phase = "built"
  /\ Probed
  /\ published' = published \cup {challenges}
  /\ phase' = "published"
  /\ UNCHANGED <<launch, why, day, build, store, used, crashes>>

(* Redis keeps the first pack of a day; the in-memory store the last       *)
WritePack ==
  /\ phase = "published"
  /\ Durable => stored \subseteq {challenges}
  /\ stored' = {challenges}
  /\ phase' = "written"
  /\ UNCHANGED <<launch, why, day, build, published, prints, used, crashes>>

AnotherPackStored ==
  /\ phase = "published"
  /\ Durable /\ ~(stored \subseteq {challenges})
  /\ Lose("another pack")

RecordFingerprints ==
  /\ phase = "written"
  /\ prints' = [p \in PrintsOf(challenges) \cup DOMAIN prints |->
                  IF p \in PrintsOf(challenges) THEN day + Generation.dedup_lookback_days
                  ELSE prints[p]]
  /\ phase' = "recorded"
  /\ UNCHANGED <<launch, why, day, build, published, stored, used, crashes>>

(* generate_step reads the pack back and the driver records the step       *)
Return ==
  /\ phase = "recorded"
  /\ \E pack \in stored :
       used' = [d \in DOMAIN used \cup {day} |-> IF d = day THEN PrintsOf(pack) ELSE used[d]]
  /\ phase' = "done"
  /\ ForgetBuild
  /\ UNCHANGED <<launch, why, day, published, store, crashes>>

-----------------------------------------------------------------------------
(* plan or commit_and_store refuses; or the chain, the store or the        *)
(* credential fails, or the window closes                                  *)
Fail ==
  /\ phase \in {"idle", "generating", "built", "published", "written", "recorded"}
  /\ Lose(CASE phase = "idle" /\ ~Planned(season) -> "plan"
            [] phase = "built" /\ ~Probed -> "unprobed"
            [] OTHER -> "failure")

(* The process dies.  A round in the round store starts its step again;    *)
(* without Redis both stores are gone and the round is given up.           *)
Crash ==
  /\ phase \in {"idle", "generating", "built", "published", "written", "recorded"}
  /\ crashes < MaxCrashes
  /\ crashes' = crashes + 1
  /\ phase' = "off"
  /\ ForgetBuild
  /\ why' = IF Durable THEN "" ELSE "restart"
  /\ stored' = IF Durable THEN stored ELSE {}
  /\ prints' = IF Durable THEN prints ELSE Nothing
  /\ UNCHANGED <<launch, day, published, used>>

(* A later day: prints that have run out are gone.  Yesterday's pack is    *)
(* not written again; packs a lookback ago or more are not looked at.      *)
NextDay ==
  /\ phase \in {"done", "lost"}
  /\ \E d \in day + 1 .. MaxDay :
       /\ day' = d
       /\ prints' = [p \in {q \in DOMAIN prints : Durable => prints[q] >= d} |-> prints[p]]
       /\ used' = [k \in {e \in DOMAIN used : d - e < Generation.dedup_lookback_days} |-> used[k]]
  /\ phase' = "idle"
  /\ why' = ""
  /\ stored' = {}
  /\ published' = {}
  /\ UNCHANGED <<launch, build, crashes>>

Next ==
  \/ Launch
  \/ Plan \/ Accept \/ Reject \/ LeaveUnfilled \/ Built \/ NotShipped
  \/ Publish \/ WritePack \/ AnotherPackStored \/ RecordFingerprints \/ Return
  \/ Fail \/ Crash \/ NextDay

Spec == Init /\ [][Next]_vars

-----------------------------------------------------------------------------
Challenge ==
  [text : DOMAIN Content, domain : season.taxonomy.domains,
   family : GeneratorFamilies(season), critic : CriticsOf(season)]

Prints ==
  [domain : season.taxonomy.domains,
   shingles : {Content[text].shingles : text \in DOMAIN Content}]

TypeOK ==
  /\ launch \in DOMAIN Launches
  /\ phase \in Phase
  /\ why \in Reasons
  /\ day \in 1 .. MaxDay
  /\ Len(challenges) + unfilled <= Len(slots)
  /\ left \in {0} \cup 1 .. Generation.candidates_per_slot
  /\ Range(challenges) \subseteq Challenge
  /\ \A pack \in published \cup stored : Range(pack) \subseteq Challenge
  /\ DOMAIN prints \subseteq Prints
  /\ \A d \in DOMAIN used : d \in 1 .. day /\ used[d] \subseteq Prints
  /\ crashes \in 0 .. MaxCrashes

Alike(one, other, threshold) == Similarity(one, other) >= threshold

(* Laboratories are never given a problem again: no pack holds two that    *)
(* are alike, nor do the packs of two rounds less than the lookback apart, *)
(* however often the process died in between; without Redis as long as it  *)
(* did not.                                                                *)
NoRepeats ==
  /\ \A pack \in stored : \A i, j \in DOMAIN pack :
       i # j =>
         ~Alike(PrintOf(pack[i]), PrintOf(pack[j]), Generation.duplicate_threshold_ppm)
  /\ Durable \/ crashes = 0 =>
       \A d, e \in DOMAIN used :
         d < e /\ e - d < Generation.dedup_lookback_days =>
           \A p \in used[d], q \in used[e] :
             ~Alike(p, q, Generation.duplicate_threshold_ppm)

(* Whatever is in the store can be executed and vouched for: the season's  *)
(* domains, generators and critics in the numbers it declares, every       *)
(* problem past the linter and the safety filter, its hash on the chain,   *)
(* and unprobed only where the season says so.                             *)
StoredPackAsDeclared ==
  \A pack \in stored :
    /\ pack \in published
    /\ Len(pack) = season.taxonomy.challenges_per_day
    /\ \A d \in DOMAIN season.taxonomy.stratification :
         Cardinality({i \in DOMAIN pack : pack[i].domain = d}) = season.taxonomy.stratification[d]
    /\ PerGenerator(pack) = DeclaredSlots(season)
    /\ \A i \in DOMAIN pack :
         /\ pack[i].critic = CriticFamilies(season)[pack[i].family]
         /\ <<launch, pack[i].text, pack[i].domain>> \in Sound
    /\ Probed

(* What a validator starts with never costs it a round: whatever the plan, *)
(* the counts or the probe could refuse, the start has refused.            *)
SeasonNeverFailsADay == why \notin {"plan", "counts", "unprobed"}
=============================================================================
