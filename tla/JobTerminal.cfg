CONSTANTS
  Tty = TRUE
  Repl = TRUE
  Shapes <- ExtPair
  Forms = {"fg", "bg", "andor"}
  MaxPids = 3
  MaxLen = 2
SPECIFICATION Spec
INVARIANTS
  Inductive
  TerminalOwner
