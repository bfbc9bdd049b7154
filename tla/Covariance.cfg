CONSTANTS
  Ids <- MCIds
  Variances <- MCVariances
  Jacobians <- MCJacobians
  Configs <- MCConfigs
  MaxInputs = 2
  MaxOperations = 5
  MaxDoubtful = 1
SPECIFICATION Spec
INVARIANTS BlocksAreTrue ForgottenIsGone
CHECK_DEADLOCK FALSE
