SPECIFICATION RetrySpec
CONSTANTS
  o1 = o1
  o2 = o2
  o3 = o3
  n1 = n1
  n2 = n2
  n3 = n3
  a1 = a1
  None = None
  Articles = {a1}
  Offers = {o1, o2, o3}
  RowNum <- MCRowNum
  OfferName <- MCOfferName
  OfferArticle <- MCOfferArticle
  High <- MCHigh
  Gray <- MCGray
  Cards = {c1, c2, c3, c4, c5}
  OldCards = {c1}
  Names = {n1, n2, n3}
  Linked = {o1, o2}
  Runs = {r1}
  PageLimit = 2
  QueueCap = 1
  MaxHuman = 1
  MaxFails = 1
INVARIANTS
  TypeOK
  MatchedToLiveCard
  NoDuplicateCards
PROPERTIES
  RestIsProcessed
  RunsEnd
