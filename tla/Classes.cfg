SPECIFICATION Spec
CONSTANTS
  Sessions <- MCSessions
  Declarations <- MCDeclarations
  Shapes <- MCShapes
INVARIANTS KeepsItsClass InterfacesKept OnlyTheUnguarded
PROPERTY ObjectsKeep
CHECK_DEADLOCK FALSE
