SPECIFICATION Spec
CONSTANT Samples <- MCSamples
CHECK_DEADLOCK FALSE
PROPERTIES
  RewritingKeepsMeaning
  CalculusIsTrue
  SolutionsSolve
  OperatorsAreTrue
  TextsAndCodeAgree
