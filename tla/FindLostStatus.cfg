CONSTANTS
  Tty = FALSE
  Repl = FALSE
  Shapes <- ExtOnly
  Forms = {"fg"}
  MaxPids = 2
  MaxLen = 2
SPECIFICATION Spec
INVARIANT FailureReported
