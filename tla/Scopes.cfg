CONSTANTS
  f = f
  u = u
  v = v
  Names <- OneName
  Values <- TwoValues
  Decls <- Functions
  HasParam <- Functions
  Param = "x"
  MaxCalls = 3
  MaxLambdas = 1
  MaxTables = 4
VIEW Live
SYMMETRY ValuesAlike
SPECIFICATION Spec
INVARIANTS
  Inductive
PROPERTIES
  AssignmentsAreLocal
  ReadsItsWrites
  ReturnIsHeard
