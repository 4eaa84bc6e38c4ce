SPECIFICATION Spec
CONSTANTS
  PPM = 40
  Labs <- MCLabs
  Pack <- MCPack
  Criteria <- MCCriteria
  Panels <- MCPanels
  minimum_families = 2
  family_cap_ppm = 20
  Fit <- MCFit
  criterion_weights_ppm <- MCWeights
  pairwise_weight_ppm = 30
  pointwise_weight_ppm = 10
  mechanism_floor_ppm = 16
  capped_on_weak_mechanism_ppm = 20
  daily_mean_weight_ppm = 28
  daily_q25_weight_ppm = 12
  rolling_short_days = 1
  rolling_long_days = 2
  rolling_short_weight_ppm = 24
  rolling_long_weight_ppm = 16
  minimum_days_for_median = 2
  maximum_weight_ppm = 16
  minimum_valid_challenges = 1
  burn_uid = 0
  U16_MAX = 60
  Softmax <- MCSoftmax
  Problem <- MCProblem
  Declared <- MCDeclared
  cohort_top = 2
  cohort_new = 1
  cohort_random = 1
  swiss_rounds = 2
  Fields <- MCFields
  Ballots <- MCBallots
  Replies <- MCReplies
  MaxDay = 3
INVARIANTS
  TypeOK
  PaidIsEarned
  AbsenceIsNotZero
  RollingWithinItsDays
  PositionBuysNothing
  CapKeepsRank
  SharesAddUp
CHECK_DEADLOCK FALSE
