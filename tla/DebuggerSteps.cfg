SPECIFICATION Spec
CONSTANTS
  f = f
  main = main
  Functions <- MCFunctions
  Main = main
  Lines <- MCLines
  Breakpoints <- MCBreakpoints
  MaxCallDepth = 3
  MaxSpans = 1
INVARIANTS FramesAreActiveCalls SnapshotIsCurrent StepsStopInTime
