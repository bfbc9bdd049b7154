CONSTANTS
  Lines <- MCLines
  NoId = NoId
  Timeout = 2
  Grace = 1
  KillGrace = 2
  OutputCap = 3
SPECIFICATION Spec
INVARIANTS AnsweredInOrder WatchdogComesFirst ReportTellsTheRun
PROPERTIES EveryLineIsHandled
CHECK_DEADLOCK FALSE
