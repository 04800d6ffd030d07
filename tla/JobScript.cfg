CONSTANTS
  Tty = FALSE
  Repl = FALSE
  Shapes <- Pipelines
  Forms = {"fg", "bg"}
  MaxPids = 3
  MaxLen = 2
SPECIFICATION FairSpec
INVARIANTS
  ReportSound
  NothingOutlives
  ErrorIsOwn
PROPERTIES
  KeepsPromise
  JobReturns
