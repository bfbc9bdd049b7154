SPECIFICATION Sampling
CONSTANTS
  Alphabet <- MCAlphabet
  Widest <- MCWidest
  MaxExponent <- MCMaxExponent
  Standard <- MCStandard
  Samples <- MCSamples
  Embedded <- MCEmbedded
  Words <- MCWords
  MaxCallDepth = 3
  MaxIterations = 4
  Run <- RunStatement
  Call <- CallFunction
  Interpret <- RunProgram
INVARIANTS
  TextsMeanTheirUnits
  ConversionsAgree
  OperationsAgree
  ExtensionsAreWhole
  CheckIsTrue
  ModulesAreTrue

