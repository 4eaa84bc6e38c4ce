SPECIFICATION Spec
CONSTANTS
  r1 = r1
  c1 = c1
  c2 = c2
  Runs <- MCOneRun
  Calls <- MCOneCall
  MaximumRcc <- MCMaximumRcc
  MaximumRequests <- MCMaximumRequests
  MaximumSearchCalls <- MCMaximumSearchCalls
  Estimates <- MCEstimates
  Charges <- MCCharges
  rcc_per_search = 1
  max_attempts = 3
  MaxAdmissions = 2
  MaxDeaths = 0
PROPERTIES
  NeverSentIsFree
CHECK_DEADLOCK FALSE
