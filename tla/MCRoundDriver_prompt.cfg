SPECIFICATION PromptSpec
CONSTANTS
  blocks_per_day = 6
  submission_close_offset <- MCSubmissionClose
  salt_commit_offset <- MCSaltCommit
  randomness_offset <- MCRandomness
  pack_commit_offset = 0
  reveal_offset = 1
  execution_close_offset = 3
  weights_offset = 4
  Rounds <- MCTwoRounds
  StartBlocks <- MCStart
  SubmitTries = 2
  Durable = TRUE
  Fanout = FALSE
  Delay = 1
  MaxBlock = 18
  MaxCrashes = 0
INVARIANTS
  OneSaltPerRound
  SaltLateByDelay
  PackBeforeReveal
  StoredPackIsVouchedFor
  NoWindowMissed
PROPERTIES
  EveryRoundSettles
CHECK_DEADLOCK FALSE
