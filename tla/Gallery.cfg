SPECIFICATION FairSpec
CONSTANTS
  Products = {p1}
  Images = {i1, i2}
  Thumbed = {i1}
  Uploads = {u1}
  PhotoWorker = worker
  MaxImagesPerProduct = 2
  QueueCap = 1
  MigrationBatch = 1
  MigrationMayFail = TRUE
  MaxRestarts = 1
  None = None
INVARIANTS
  TypeOK
  ExactlyOnePlace
  CleanupIsDead
  NoPhotoWithoutCard
  FetchedAtMostOnce
PROPERTIES
  OnlyPurgeDangles
  FullQueueDrains
  MigrationEnds
