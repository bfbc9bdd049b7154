CONSTANTS
  r1 = r1
  r2 = r2
  one = one
  two = two
  Workers = {w1, w2}
  Requests = {r1, r2}
  RequestOf <- MCRequestOf
  Targets <- MCTargets
  Tokens <- MCTokens
  NoToken = NoToken
  BlankToken = BlankToken
  Unsupported = Unsupported
  Failure = Failure
  Wake = Wake
  Ceiling = 3
SPECIFICATION Spec
INVARIANTS NoRequestIsLost PipelinesAreExecuted
PROPERTIES EveryoneIsAnswered PoolEnds
CHECK_DEADLOCK FALSE
