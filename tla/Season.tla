------------------------------- MODULE Season -------------------------------
(***************************************************************************)
(* The season a validator runs, and everything that is checked of it       *)
(* before a round begins: the schema (protocol/models/season_config.py,    *)
(* protocol/season.py), what Validator.__init__ builds from it, and        *)
(* Validator.validate.                                                     *)
(*                                                                         *)
(* A season is a record of the schema's blocks.  A field the schema makes  *)
(* optional is a set of at most one value.  A pin is [slug, snapshot];     *)
(* texts, lengths of names and blocks nothing is computed from are left    *)
(* out.  What the validator is started with is [redis, publish, probe]:    *)
(* where its store listens, where its documents are published, and whether *)
(* a discrimination probe is wired.                                        *)
(***************************************************************************)
EXTENDS FamilyCap, SequencesExt

CONSTANTS
  EXCLUDED_DOMAINS,
  JUDGE_ROLES,          \* the criteria that have a rubric
  VARIATIONS,           \* prompts the generator has: 5 in the code
  ONE_CALL_RCC

Positive(n) == n >= 1

Offset(n) == n \in Int

-----------------------------------------------------------------------------
(* The schema *)

ParsesTaxonomy(t) ==
  /\ Cardinality(t.domains) \in 1 .. 32
  /\ t.challenges_per_day \in 1 .. 64
  /\ \A d \in DOMAIN t.stratification : t.stratification[d] >= 0
  /\ \A excluded \in t.excluded_domains : Cardinality(excluded) <= 32

ParsesResources(classes) ==
  /\ classes # <<>>
  /\ \A c \in Range(classes) :
       /\ Positive(c.memory_bytes) /\ Positive(c.cpu_shares) /\ Positive(c.pids_limit)
       /\ \A bytes \in c.workspace_bytes : bytes >= 0

ParsesGenerator(g) == Positive(g.slots)

ParsesStore(store) == ~store.sandbox_reachable

ParsesGeneration(g) ==
  /\ g.candidates_per_slot \in 1 .. 10
  /\ Positive(g.dedup_lookback_days)
  /\ g.duplicate_threshold_ppm \in Shares
  /\ g.minimum_reference_spread_ppm \subseteq Shares
  /\ Len(g.generators) >= 2 /\ \A e \in Range(g.generators) : ParsesGenerator(e)
  /\ ParsesStore(g.store)
  /\ g.minimum_degradation_gap_ppm \in Shares \ {0}
  /\ g.maximum_judge_instability_ppm \in Shares \ {0}

ParsesFunnel(f) ==
  /\ f.cohort_top >= 2 /\ f.cohort_random >= 0 /\ f.cohort_new >= 0
  /\ Positive(f.swiss_rounds)
  /\ f.prior_art_ideas_per_portfolio >= 0

ParsesCycle(c) ==
  /\ Positive(c.blocks_per_day)
  /\ \A n \in {c.submission_close_offset, c.salt_commit_offset, c.randomness_offset,
               c.pack_commit_offset, c.reveal_offset, c.execution_close_offset,
               c.weights_offset} : Offset(n)
  /\ c.anchor_block >= 0

ParsesPricing(p) ==
  /\ p.rcc_per_1k_in >= 0 /\ p.rcc_per_1k_out >= 0 /\ p.rcc_per_search >= 0
  /\ Positive(p.maximum_rcc)
  /\ p.maximum_search_calls >= 0
  /\ Positive(p.maximum_wall_time_seconds)

ParsesProviders(p) == ParsesPricing(p.miner_pricing) /\ p.validator_purposes # {}

ParsesCriteria(weights) ==
  /\ DOMAIN weights = JUDGE_ROLES
  /\ \A c \in JUDGE_ROLES : weights[c] \in Shares

ParsesScoring(s) ==
  /\ {s.pairwise_weight_ppm, s.pointwise_weight_ppm, s.mechanism_floor_ppm,
      s.capped_on_weak_mechanism_ppm, s.daily_mean_weight_ppm, s.daily_q25_weight_ppm,
      s.rolling_short_weight_ppm, s.rolling_long_weight_ppm} \subseteq Shares
  /\ Positive(s.rolling_short_days) /\ Positive(s.rolling_long_days)
  /\ Positive(s.minimum_days_for_median)

ParsesPanel(p) ==
  /\ Cardinality(p.judges) >= 3
  /\ p.reliability_floor_ppm \subseteq Shares

ParsesJudging(j) ==
  /\ j.minimum_families >= 3
  /\ j.family_cap_ppm \in Shares
  /\ j.panels # <<>> /\ \A p \in Range(j.panels) : ParsesPanel(p)
  /\ {j.degradation_accuracy_floor_ppm, j.order_swap_inconsistency_ceiling_ppm,
      j.schema_validity_floor_ppm} \subseteq Shares
  /\ Positive(j.circuit_breaker_consecutive_failures)

ParsesAllocation(a) ==
  /\ a.temperature_ppm \in Shares /\ a.maximum_weight_ppm \in Shares
  /\ Positive(a.minimum_valid_challenges)
  /\ a.burn_uid >= 0

ParsesReferences(labs) ==
  /\ Cardinality(labs) >= 2
  /\ \A lab \in labs : lab.temperature_ppm \subseteq 0 .. 2 * PPM

(* load_season: any other document is refused before anything is built     *)
ParsesSeason(s) ==
  /\ Positive(s.weights_version) /\ s.mechid >= 0
  /\ ParsesTaxonomy(s.taxonomy)
  /\ ParsesResources(s.resource_classes)
  /\ ParsesGeneration(s.challenge_generation)
  /\ ParsesCriteria(s.criterion_weights_ppm)
  /\ Len(s.rank_weights_ppm) \in 1 .. 10 /\ Range(s.rank_weights_ppm) \subseteq Shares
  /\ ParsesScoring(s.scoring)
  /\ ParsesFunnel(s.funnel)
  /\ ParsesJudging(s.judging)
  /\ ParsesAllocation(s.weight_allocation)
  /\ ParsesCycle(s.cycle)
  /\ ParsesReferences(s.reference_labs)
  /\ \A p \in s.providers : ParsesProviders(p)
  /\ Range(s.ineligible_uids) \subseteq Nat

-----------------------------------------------------------------------------
(* What is built from it, and refuses to be built *)

AssertOrdering(c) ==
  /\ c.salt_commit_offset < c.randomness_offset
  /\ c.randomness_offset + 1 < c.pack_commit_offset
  /\ c.pack_commit_offset < c.reveal_offset
  /\ c.submission_close_offset < c.salt_commit_offset
  /\ c.reveal_offset < c.execution_close_offset
  /\ c.execution_close_offset < c.weights_offset
  /\ c.weights_offset < c.blocks_per_day + c.reveal_offset

AssertAnchor(c) == c.anchor_block % c.blocks_per_day = 0

ExcludedDomains(t) == EXCLUDED_DOMAINS \cup UNION t.excluded_domains

ValidTaxonomy(t) ==
  /\ Positive(t.challenges_per_day)
  /\ SumFunction(t.stratification) = t.challenges_per_day
  /\ DOMAIN t.stratification \subseteq t.domains
  /\ (t.domains \cup DOMAIN t.stratification) \cap ExcludedDomains(t) = {}
  /\ \A d \in DOMAIN t.stratification : Positive(t.stratification[d])

(* candidates_per_slot prompts, a ceiling that pays for one call, and the  *)
(* optional blocks and fields that are read all the same                   *)
BuildsGeneration(s) ==
  /\ s.challenge_generation.candidates_per_slot \in 1 .. VARIATIONS
  /\ s.challenge_generation.minimum_reference_spread_ppm # {}
  /\ \E p \in s.providers : p.miner_pricing.maximum_rcc >= ONE_CALL_RCC

BuildsPrices(s) == \E p \in s.providers : p.miner_pricing.allowed_model_slugs # {}

(* Of two panels for one criterion the later is kept *)
PanelsFromSeason(j) ==
  [c \in {p.criterion : p \in Range(j.panels)} |->
     j.panels[Max({i \in DOMAIN j.panels : j.panels[i].criterion = c})].judges]

JudgesOf(s) == UNION Range(PanelsFromSeason(s.judging))

BuildsPanels(j) ==
  \A p \in Range(j.panels) :
    /\ p.reliability_floor_ppm # {}
    /\ p.criterion \in JUDGE_ROLES
    /\ "" \notin Families(p.judges)
    /\ AssertValid(p.judges, j.minimum_families, j.family_cap_ppm)

OnePinEach(s) ==
  \A j, k \in JudgesOf(s) : j.family = k.family => j.pin = k.pin

BuildsScoring(s) ==
  /\ SumsToOne(s.criterion_weights_ppm)
  /\ SumsToOne(s.rank_weights_ppm)
  /\ s.scoring.pairwise_weight_ppm + s.scoring.pointwise_weight_ppm = PPM
  /\ s.scoring.pairwise_weight_ppm >= s.scoring.pointwise_weight_ppm

BuildsDaily(s) ==
  /\ s.daily_mean_weight_ppm + s.daily_q25_weight_ppm = PPM
  /\ s.rolling_short_weight_ppm + s.rolling_long_weight_ppm = PPM
  /\ s.rolling_short_days < s.rolling_long_days

BuildsWeights(a) == a.temperature_ppm > 0 /\ a.maximum_weight_ppm \in 1 .. PPM

(* The first class of that name is the one every laboratory runs under     *)
BuildsLimits(classes) ==
  LET standard == {i \in DOMAIN classes : classes[i].name = "standard"}
  IN  standard # {} /\ classes[Min(standard)].workspace_bytes # {}

AssertNotSandboxReachable(redis, store) == ~store.sandbox_reachable /\ redis # "any"

BuildsStores(s, args) ==
  args.redis # "none" =>
    /\ AssertNotSandboxReachable(args.redis, s.challenge_generation.store)
    /\ args.publish # "same"

Builds(s, args) ==
  /\ AssertOrdering(s.cycle) /\ AssertAnchor(s.cycle)
  /\ ValidTaxonomy(s.taxonomy)
  /\ BuildsGeneration(s) /\ BuildsPrices(s)
  /\ BuildsPanels(s.judging) /\ OnePinEach(s)
  /\ BuildsScoring(s) /\ BuildsDaily(s.scoring) /\ BuildsWeights(s.weight_allocation)
  /\ BuildsLimits(s.resource_classes)
  /\ BuildsStores(s, args)

-----------------------------------------------------------------------------
(* The plan, as far as the season decides it *)

Generators(s) == Range(s.challenge_generation.generators)

GeneratorFamilies(s) == {g.family : g \in Generators(s)}

(* Of two generators of one family a lookup by family finds the last ...   *)
GeneratorOf(s, family) ==
  LET all == s.challenge_generation.generators
  IN  all[Max({i \in DOMAIN all : all[i].family = family})]

DeclaredSlots(s) == [family \in GeneratorFamilies(s) |-> GeneratorOf(s, family).slots]

CriticFamilies(s) == [family \in GeneratorFamilies(s) |-> GeneratorOf(s, family).critic_family]

CriticsOf(s) == {g.critic_family : g \in Generators(s)}

(* ... and the pool the slots are dealt from holds the slots of both       *)
FamilyPool(s) ==
  LET all == s.challenge_generation.generators
  IN  [family \in GeneratorFamilies(s) |->
         SumFunctionOnSet([i \in DOMAIN all |-> all[i].slots],
                          {i \in DOMAIN all : all[i].family = family})]

Planned(s) ==
  /\ SumFunction(FamilyPool(s)) = s.taxonomy.challenges_per_day
  /\ "" \notin Range(CriticFamilies(s))

(* Every judge's pin, and a generator's own when no judge has its family   *)
Pins(s) ==
  LET all == s.challenge_generation.generators
  IN  [family \in Families(JudgesOf(s)) \cup GeneratorFamilies(s) |->
         IF family \in Families(JudgesOf(s))
         THEN (CHOOSE j \in JudgesOf(s) : j.family = family).pin
         ELSE all[Min({i \in DOMAIN all : all[i].family = family})].pin]

AssertPinned(pin) == pin.snapshot # ""

(* Slip: the slots are only counted together.                              *)
X_Validates(s, args) ==
  /\ Planned(s)
  /\ \A family \in DOMAIN Pins(s) : AssertPinned(Pins(s)[family])
  /\ args.probe \/ s.challenge_generation.allow_unprobed_packs

(* The cycle, the taxonomy and the limits are checked a second time        *)
Validates(s, args) ==
  /\ Planned(s) /\ FamilyPool(s) = DeclaredSlots(s)
  /\ \A family \in DOMAIN Pins(s) : AssertPinned(Pins(s)[family])
  /\ args.probe \/ s.challenge_generation.allow_unprobed_packs

(* What main starts with *)
Starts(s, args) == ParsesSeason(s) /\ Builds(s, args) /\ Validates(s, args)
=============================================================================
