SPECIFICATION Spec
CONSTANTS
  SizeMax = 15
  x = x
  y = y
  z = z
  Label = {x, y, z}
  MaxCombinations = 10
  Ranges = {1, 2, 3, 4}
  Counts = {1, 2, 5, 13}
  Bounds = {0, 1, 3}
INVARIANTS
  CombinationsIsProduct
  CompareIsNumeric
PROPERTIES
  AdvanceAdds
  ExtendKeepsNumbers
SYMMETRY Symmetry
