SPECIFICATION Spec
CONSTANTS
  PPM = 1000000
  EXCLUDED_DOMAINS <- MCExcluded
  JUDGE_ROLES <- MCRoles
  VARIATIONS = 5
  ONE_CALL_RCC = 200000
  Launches <- MCLaunches
  Content <- MCContent
  CriticReplies <- MCReplies
  Outcomes <- MCOutcomes
  MaxDay = 3
  MaxCrashes = 1
INVARIANTS
  TypeOK
  NoRepeats
  StoredPackAsDeclared
  SeasonNeverFailsADay
CHECK_DEADLOCK FALSE
