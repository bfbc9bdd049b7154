SPECIFICATION Sampling
CONSTANTS
  Alphabet <- MCAlphabet
  Widest <- MCWidest
  MaxExponent <- MCMaxExponent
  Standard <- MCStandard
  Samples <- MCDoubtful
  Embedded <- MCEmbedded
  Words <- MCWords
  MaxCallDepth = 3
  MaxIterations = 4
  Run <- RunStatement
  Call <- CallFunction
  Interpret <- RunProgram
INVARIANTS ErrorsAreCertain
