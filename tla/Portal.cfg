SPECIFICATION FairSpec
CONSTANTS
  b1 = b1
  b2 = b2
  o1 = o1
  o2 = o2
  p1 = p1
  p2 = p2
  i1 = i1
  i2 = i2
  q0 = q0
  q1 = q1
  r0 = r0
  r1 = r1
  v0 = v0
  v1 = v1
  None = None
  Sent = Sent
  Failed = Failed
  MaxCalls = 2
  Pages = {"matching", "imports", "catalog", "product", "compare", "products", "edit", "photos", "categories", "suppliers", "users", "wipe", "session"}
  Products = {p1, p2}
  Photos <- MCOnePhoto
  PagePhotos <- MCPhotos
  NewPhotos = {i3}
  MaxImages = 2
  MaxFiles = 2
  PriceOffers <- MCPriceOffers
  Cards = {p1}
  NewCard = p2
  Ranking <- MCRanking
  Suppliers = {s1, s2}
  ExcelSuppliers = {s1}
  Files = {f1}
  Batches = {b1, b2}
  OldBatches = {b1}
  Offers = {o1, o2}
  OfferBatch <- MCOfferBatch
  Queries = {q0}
  Prices = {r0, r1}
  Choices = {v0, v1}
  NoQuery = q0
  NoPrice = r0
  Usual = v0
  SupplierChoices = {v1}
  Listing <- MCListing
  Searches = {q0, q1}
  NoSearch = q0
  Total <- MCTotal
  PageSize = 1
  MaxNewCards = 1
  FormFiles = {1}
  Nodes = {n1}
  Raw = {w1}
  SupplierIds = {s1, s2}
  MaxUsers = 3
  Sizes = {1, 2}
  NoTable = NoTable
  Roles = {admin, manager}
INVARIANTS
  TypeOK OneRunAtATime OpenMatchesAreShown SentOnce FilterIsAsked
  CheapestIsMarked AskedBeforeDelete OneCallOfPanel
  OneChangeAtATime PageHasRows WipeIsEnteredAnew
PROPERTIES DoneIsMatched BusyEnds NavigationEnds
CHECK_DEADLOCK FALSE
