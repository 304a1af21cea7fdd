SPECIFICATION Spec
CONSTANTS
  Tasks <- Three
  Casts <- SomeThree
INVARIANTS
  NoCircle
PROPERTIES
  EveryPathEnds
