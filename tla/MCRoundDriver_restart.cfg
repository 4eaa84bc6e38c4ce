SPECIFICATION Spec
CONSTANTS
  blocks_per_day = 5
  submission_close_offset <- MCSubmissionClose
  salt_commit_offset <- MCSaltCommit
  randomness_offset <- MCRandomness
  pack_commit_offset = 0
  reveal_offset = 1
  execution_close_offset = 2
  weights_offset = 3
  Rounds <- MCTwoRounds
  StartBlocks <- MCStart
  SubmitTries = 1
  Durable = TRUE
  Fanout = TRUE
  Delay = 0
  MaxBlock = 8
  MaxCrashes = 1
INVARIANTS
  TypeOK
  RecordedSaltIsCommitted
  VectorsTraceToChain
  PaidPackIsVouchedFor
  NoEarlyDisclosure
  LiveRoundsUpToDate
PROPERTIES
  SettledIsFinal
  ImplementsLifecycle
CHECK_DEADLOCK FALSE
