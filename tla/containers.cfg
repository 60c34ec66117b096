SPECIFICATION Spec
CONSTANTS
  Element = {d, x}
  Default = d
  Size = 3
  Base = 2
  Name = {a, b}
SYMMETRY Symmetry
INVARIANTS
  EqualIsSameContent
  LookupsAreExact
PROPERTIES
  ImplementsBags
