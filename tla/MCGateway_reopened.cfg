SPECIFICATION FairSpec
CONSTANTS
  r1 = r1
  c1 = c1
  c2 = c2
  Runs <- MCOneRun
  Calls <- MCTwoCalls
  MaximumRcc <- MCTightRcc
  MaximumRequests <- MCTwoRequests
  MaximumSearchCalls <- MCMaximumSearchCalls
  Estimates <- MCEstimates
  Charges <- MCDearer
  rcc_per_search = 1
  max_attempts = 2
  MaxAdmissions = 2
  MaxDeaths = 2
INVARIANTS
  TypeOK
  CeilingHolds
  HoldsAreOwned
  TokenSpendsItsOwnAdmission
  ReceiptAccountsForCharges
PROPERTIES
  ImplementsBudget
  EveryCallEnds
CHECK_DEADLOCK FALSE
