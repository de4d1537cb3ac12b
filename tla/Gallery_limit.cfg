SPECIFICATION Spec
CONSTANTS
  Products = {p1}
  Images = {i1, i2, i3}
  Thumbed = {}
  Uploads = {u1}
  PhotoWorker = worker
  MaxImagesPerProduct = 1
  QueueCap = 1
  MigrationBatch = 2
  MigrationMayFail = FALSE
  MaxRestarts = 0
  None = None
SYMMETRY Symmetry
INVARIANTS
  OvershootBounded
