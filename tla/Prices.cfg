SPECIFICATION Spec
CONSTANTS
  s1 = s1
  s2 = s2
  None = None
  Suppliers = {s1, s2}
  Names = {n1, n2}
  Creators = {w1, w2}
  SupplierNum <- MCSupplierNum
  Products = {p1}
  MaxBatches = 3
  PriceLists <- MCPriceLists
SYMMETRY Symmetry
INVARIANTS CheapestIsBest SummaryAgrees
PROPERTIES ImplementsRegistry
