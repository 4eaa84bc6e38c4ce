SPECIFICATION Spec
CONSTANTS
  Uids <- MCUids
  bundle_digest <- MCDigest
  management <- MCManagement
  owner_linked <- MCOwner
  Challenges <- MCChallenges
  References <- MCReference
  concurrency = 2
  wall_time_seconds = 1
  kill_grace_seconds = 1
  MaxDeaths = 1
PROPERTIES
  OnlyTheDeadlineEndsTheRound
CHECK_DEADLOCK FALSE
