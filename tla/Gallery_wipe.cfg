SPECIFICATION Spec
CONSTANTS
  Products = {p1, p2}
  Images = {i1}
  Thumbed = {}
  Uploads = {u1}
  PhotoWorker = worker
  MaxImagesPerProduct = 1
  QueueCap = 1
  MigrationBatch = 1
  MigrationMayFail = FALSE
  MaxRestarts = 0
  None = None
INVARIANTS
  NoDanglingKey
