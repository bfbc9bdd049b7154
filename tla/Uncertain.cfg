SPECIFICATION Spec
CONSTANTS
  MaxId = 12
  Modes <- MCModes
  Measurables <- MCMeasurables
  DefaultShape = "dimidiated"
  Named <- MCNamed
  MaxValues = 4
  MaxRestarts = 1
  MaxNumber = 8
INVARIANTS
  SpreadIsTrue
  TermsNameSources
PROPERTY
  ImplementsSourceIds
CHECK_DEADLOCK FALSE
