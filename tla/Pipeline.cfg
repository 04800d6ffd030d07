CONSTANTS
  Lines <- MCLines
  Ttys = {TRUE, FALSE}
  Garbage = {0, 3}
  Cap = 1
  Size = 2
  Text = 1
  MaxFd = 16
  MaxPipes = 8
  MaxPids = 6
SPECIFICATION FairSpec
INVARIANTS OneWriter NothingKept OutputArrives
PROPERTY JobEnds
CHECK_DEADLOCK FALSE
