------------------------------ MODULE MCFactory ------------------------------
(***************************************************************************)
(* A factory for TLC: a season like config/season.542.json with two        *)
(* challenges a day, the seasons one slip away from it, and texts of which *)
(* some are alike, some sound and each of the others at one fault.         *)
(***************************************************************************)
EXTENDS Factory

MCExcluded == {"clinical", "weapons", "horizon"}

MCRoles == {"originality", "value", "mechanism", "constraint_fit", "diversity",
            "self_selection", "falsifiability", "cost_reliability"}

Pin(slug) == [slug |-> slug, snapshot |-> slug]

Judge(family) == [family |-> family, pin |-> Pin(family), seat |-> 1]

Panel(criterion) ==
  [criterion |-> criterion, judges |-> {Judge(f) : f \in {"anthropic", "openai", "google"}},
   reliability_floor_ppm |-> {900000}]

Generator(family, critic, n) ==
  [family |-> family, critic_family |-> critic, slots |-> n, pin |-> Pin(family)]

Base ==
  [weights_version |-> 1, mechid |-> 0, ineligible_uids |-> <<>>,
   taxonomy |-> [domains |-> {"agents", "algorithms"}, challenges_per_day |-> 2,
                 stratification |-> "agents" :> 2, excluded_domains |-> {MCExcluded}],
   resource_classes |-> <<[name |-> "standard", memory_bytes |-> 1, cpu_shares |-> 1,
                           pids_limit |-> 1, workspace_bytes |-> {1}]>>,
   challenge_generation |->
     [candidates_per_slot |-> 1, dedup_lookback_days |-> 2, duplicate_threshold_ppm |-> 500000,
      minimum_reference_spread_ppm |-> {120000}, minimum_degradation_gap_ppm |-> 100000,
      maximum_judge_instability_ppm |-> 150000, allow_unprobed_packs |-> TRUE,
      generators |-> <<Generator("gpt", "gpt", 1), Generator("claude", "claude", 1)>>,
      store |-> [sandbox_reachable |-> FALSE]],
   criterion_weights_ppm |-> "originality" :> 250000 @@ "value" :> 200000
     @@ "mechanism" :> 150000 @@ "constraint_fit" :> 120000 @@ "diversity" :> 100000
     @@ "self_selection" :> 80000 @@ "falsifiability" :> 70000 @@ "cost_reliability" :> 30000,
   rank_weights_ppm |-> <<400000, 250000, 150000, 120000, 80000>>,
   scoring |-> [pairwise_weight_ppm |-> 750000, pointwise_weight_ppm |-> 250000,
                mechanism_floor_ppm |-> 400000, capped_on_weak_mechanism_ppm |-> 500000,
                daily_mean_weight_ppm |-> 700000, daily_q25_weight_ppm |-> 300000,
                rolling_short_days |-> 7, rolling_long_days |-> 30,
                rolling_short_weight_ppm |-> 600000, rolling_long_weight_ppm |-> 400000,
                minimum_days_for_median |-> 7],
   funnel |-> [cohort_top |-> 4, cohort_random |-> 1, cohort_new |-> 1, swiss_rounds |-> 2,
               prior_art_ideas_per_portfolio |-> 2],
   judging |-> [minimum_families |-> 3, family_cap_ppm |-> 400000,
                panels |-> <<Panel("value"), Panel("mechanism")>>,
                degradation_accuracy_floor_ppm |-> 950000,
                order_swap_inconsistency_ceiling_ppm |-> 75000,
                schema_validity_floor_ppm |-> 990000,
                circuit_breaker_consecutive_failures |-> 3],
   weight_allocation |-> [temperature_ppm |-> 100000, maximum_weight_ppm |-> 175000,
                          minimum_valid_challenges |-> 3, burn_uid |-> 0],
   cycle |-> [blocks_per_day |-> 3600, submission_close_offset |-> -300,
              salt_commit_offset |-> -240, randomness_offset |-> -180,
              pack_commit_offset |-> -60, reveal_offset |-> 0, execution_close_offset |-> 1800,
              weights_offset |-> 3400, anchor_block |-> 7711200],
   reference_labs |-> {[name |-> "sonnet", temperature_ppm |-> {700000}],
                       [name |-> "gpt", temperature_ppm |-> {}]},
   providers |->
     {[validator_purposes |-> {"judging"},
       miner_pricing |-> [rcc_per_1k_in |-> 1000, rcc_per_1k_out |-> 5000,
                          rcc_per_search |-> 5000, allowed_model_slugs |-> {{"sonnet"}},
                          maximum_rcc |-> 1000000, maximum_search_calls |-> 100,
                          maximum_wall_time_seconds |-> 900]]}]

With(generators) == [Base EXCEPT !.challenge_generation.generators = generators]

(* Both domains: a second day's problems can be unlike the first day's     *)
Both == [Base EXCEPT !.taxonomy.stratification = "agents" :> 1 @@ "algorithms" :> 1]

(* Seasons a round can be run with; in the last a critic cannot be called  *)
Runnable ==
  <<Base,
   [Both EXCEPT !.challenge_generation.dedup_lookback_days = 3],
   With(<<Generator("gpt", "nobody", 1), Generator("claude", "claude", 1)>>)>>

(* One slip away: some are refused by the schema, some when the validator  *)
(* is built, some by validate                                              *)
Slips ==
  <<[Base EXCEPT !.taxonomy.challenges_per_day = 65],
   [Base EXCEPT !.taxonomy.challenges_per_day = 3],
   [Base EXCEPT !.taxonomy.stratification = "agents" :> 2 @@ "algorithms" :> 0],
   [Base EXCEPT !.taxonomy.stratification = "weapons" :> 2],
   [Base EXCEPT !.resource_classes[1].name = "large"],
   [Base EXCEPT !.resource_classes[1].workspace_bytes = {}],
   [Base EXCEPT !.challenge_generation.candidates_per_slot = 6],
   [Base EXCEPT !.challenge_generation.minimum_reference_spread_ppm = {}],
   [Base EXCEPT !.challenge_generation.store.sandbox_reachable = TRUE],
   [Base EXCEPT !.challenge_generation.allow_unprobed_packs = FALSE],
   With(<<Generator("gpt", "gpt", 2)>>),
   With(<<Generator("gpt", "claude", 1), Generator("gpt", "gpt", 1)>>),
   With(<<Generator("gpt", "gpt", 2), Generator("claude", "claude", 1)>>),
   With(<<Generator("gpt", "", 1), Generator("claude", "claude", 1)>>),
   With(<<[Generator("gpt", "gpt", 1) EXCEPT !.pin.snapshot = ""],
          Generator("claude", "claude", 1)>>),
   [Base EXCEPT !.criterion_weights_ppm["value"] = 1],
   [Base EXCEPT !.rank_weights_ppm = <<PPM, 1>>],
   [Base EXCEPT !.scoring.pairwise_weight_ppm = 250000, !.scoring.pointwise_weight_ppm = 750000],
   [Base EXCEPT !.scoring.rolling_short_days = 30],
   [Base EXCEPT !.funnel.cohort_top = 1],
   [Base EXCEPT !.judging.panels[1].judges = {Judge(f) : f \in {"anthropic", "google"}}],
   [Base EXCEPT !.judging.panels[1].judges = @ \cup {[Judge("google") EXCEPT !.seat = 2]}],
   [Base EXCEPT !.judging.panels[1].criterion = "style"],
   [Base EXCEPT !.weight_allocation.temperature_ppm = 0],
   [Base EXCEPT !.cycle.pack_commit_offset = -179],
   [Base EXCEPT !.cycle.anchor_block = 1],
   [Base EXCEPT !.reference_labs = {}],
   [Base EXCEPT !.providers = {}]>>

Args(redis, publish) == [redis |-> redis, publish |-> publish, probe |-> FALSE]

(* main wires no probe; build_pack and its tests take one                  *)
MCLaunches ==
  LET seasons == Runnable \o Slips
  IN  [i \in DOMAIN seasons |-> [season |-> seasons[i], args |-> Args("loopback", "none")]]
        \o <<[season |-> [Both EXCEPT !.challenge_generation.candidates_per_slot = 2],
              args   |-> Args("none", "none")],
             [season |-> Base, args |-> Args("any", "none")],
             [season |-> Base, args |-> Args("loopback", "same")],
             [season |-> [Base EXCEPT !.challenge_generation.allow_unprobed_packs = FALSE],
              args   |-> [Args("loopback", "other") EXCEPT !.probe = TRUE]]>>

-----------------------------------------------------------------------------
Text(shingles) ==
  [title |-> TRUE, statement |-> 400, objective |-> 90, repeats |-> FALSE,
   constraints |-> <<TRUE, FALSE>>, forbidden |-> 1,
   required |-> {[size |-> 5, flags |-> Declarations]}, baseline |-> TRUE,
   limits |-> {[c \in Ceilings |-> 1]}, retrieval |-> FALSE, unevaluable |-> FALSE,
   terms |-> {}, uses |-> {}, shingles |-> shingles, domain |-> "agents"]

(* One is like two and two is like three, one is not like three            *)
MCContent ==
  "one" :> Text({1, 2, 3})
    @@ "two" :> [Text({2, 3, 4}) EXCEPT !.uses = {[rule |-> "malware", nearby |-> TRUE]}]
    @@ "three" :> [Text({3, 4, 5}) EXCEPT !.domain = "algorithms"]
    @@ "short" :> [Text({9}) EXCEPT !.statement = 199]
    @@ "repeated" :> [Text({9}) EXCEPT !.repeats = TRUE]
    @@ "vague" :> [Text({9}) EXCEPT !.constraints = <<FALSE, FALSE>>]
    @@ "shapeless" :> [Text({9}) EXCEPT !.required = {[size |-> 5, flags |-> {"ranked"}]}]
    @@ "rootless" :> [Text({9}) EXCEPT !.baseline = FALSE]
    @@ "private" :> [Text({9}) EXCEPT !.unevaluable = TRUE]
    @@ "unbounded" :> [Text({9}) EXCEPT !.limits = {}]
    @@ "lookup" :> [Text({9}) EXCEPT !.retrieval = TRUE]
    @@ "dosage" :> [Text({9}) EXCEPT !.terms = {"clinical"}]
    @@ "botnet" :> [Text({9}) EXCEPT !.uses = {[rule |-> "malware", nearby |-> TRUE],
                                               [rule |-> "malware", nearby |-> FALSE]}]
    @@ "warhead" :> [Text({9}) EXCEPT !.uses = {[rule |-> "weapon", nearby |-> TRUE]}]

MCReplies ==
  {[object |-> TRUE, faults |-> {{}}, accept |-> TRUE],
   [object |-> TRUE, faults |-> {{"triviality"}}, accept |-> TRUE],
   [object |-> TRUE, faults |-> {}, accept |-> TRUE],
   [object |-> FALSE, faults |-> {}, accept |-> FALSE]}

Outcome ==
  [reference |-> "sonnet" :> 700000 @@ "gpt" :> 500000,
   degraded |-> "sonnet" :> 400000 @@ "gpt" :> 600000,
   retrieval |-> FALSE, mechanism |-> 2, repeats |-> <<600000, 500000>>]

MCOutcomes ==
  {Outcome,
   [Outcome EXCEPT !.reference = "sonnet" :> 700000],
   [Outcome EXCEPT !.reference = "sonnet" :> 700000 @@ "gpt" :> 650000],
   [Outcome EXCEPT !.degraded = << >>],
   [Outcome EXCEPT !.repeats = <<700000, 500000>>]}
=============================================================================
