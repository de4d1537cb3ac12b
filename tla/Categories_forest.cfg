SPECIFICATION Spec
CONSTANTS
  c1 = c1
  c2 = c2
  c3 = c3
  c4 = c4
  g1 = g1
  r1 = r1
  r2 = r2
  None = None
  NoRow = NoRow
  Nodes = {c1, c2, c3}
  Movers = {w1}
  Goods = {g1}
  Raw = {r1, r2}
  RawOf <- MCRawOfTwo
INVARIANTS LinksAreLive EveryNodeRooted ChoiceIsKept TreeIsWhole TotalsAgree
PROPERTIES ImplementsForest
