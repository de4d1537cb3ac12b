------------------------------ MODULE Gallery ------------------------------
(***************************************************************************)
(* The photo gallery of the catalog service: rows of the table             *)
(* catalog.product_images, objects of the S3 bucket, and everything that   *)
(* writes both of them: uploads, the worker that downloads photos by the   *)
(* links of price lists, the start-up migration of photo bytes from        *)
(* Postgres to S3, deletions of photos and product cards, the admin wipe   *)
(* and restarts of the service.                                            *)
(*                                                                         *)
(* Postgres runs at READ COMMITTED: a statement sees committed rows only,  *)
(* and an INSERT of a photo keeps a key-share lock on its product until    *)
(* the transaction ends, which makes a DELETE of that product wait.        *)
(***************************************************************************)
EXTENDS Naturals, Sequences, FiniteSets

CONSTANTS
  Products,            \* ids of product cards
  Images,              \* ids of photos; an id is generated once, never again
  Thumbed,             \* the photos that come with a thumbnail
  Uploads,             \* concurrent AddProductImage requests of users
  PhotoWorker,         \* the goroutine photoWorker
  MaxImagesPerProduct, \* domain.MaxImagesPerProduct, 10 in the code
  QueueCap,            \* capacity of photoCh, 1000 in the code
  MigrationBatch,      \* limit of ListUnmigrated, 20 in the code
  MigrationMayFail,    \* BOOLEAN: whether S3 or the database may fail the migration
  MaxRestarts,         \* bound on the number of restarts
  None                 \* "no product" and "no photo"

ASSUME GalleryAssumption ==
  /\ Thumbed \subseteq Images
  /\ PhotoWorker \notin Uploads
  /\ IsFiniteSet(Images) /\ IsFiniteSet(Uploads)
  /\ MaxImagesPerProduct \in Nat \ {0}
  /\ QueueCap \in Nat \ {0}
  /\ MigrationBatch \in Nat \ {0}
  /\ MigrationMayFail \in BOOLEAN
  /\ MaxRestarts \in Nat
  /\ None \notin Products \cup Images

VARIABLES
  s3,          \* whether this run of the service has an object store
  products,    \* committed rows of catalog.products
  born,        \* product ids generated so far
  rows,        \* committed rows of catalog.product_images
  owner,       \* product_id of a photo, once its id is generated
  bytes,       \* rows whose data is in Postgres
  keyed,       \* rows with a non-empty s3_key
  objects,     \* objects under products/ in the bucket
  used,        \* photo ids generated so far
  stage,       \* where each AddProductImage call is
  target,      \* the product each of them adds to
  photo,       \* the photo each of them has inserted and not yet committed
  queue,       \* photoCh
  cleanup,     \* objects a finished deletion has still to remove
  deleting,    \* products inside a DeleteProduct transaction
  delKeys,     \* the keys that transaction has read
  wiping,      \* a wipe is committed, its DeletePrefix not yet done
  migStage,    \* where MigrateImagesToS3 is
  migBatch,    \* photos of its current batch still to move
  migPhoto,    \* the photo it is moving
  restarts,    \* number of restarts so far
  origin       \* history: how a photo came about

dbVars    == <<products, born, rows, owner, bytes, keyed, used>>
addVars   == <<stage, target, photo>>
delVars   == <<cleanup, deleting, delKeys, wiping>>
migVars   == <<migStage, migBatch, migPhoto>>
procVars  == <<s3, restarts>>
vars == <<dbVars, objects, addVars, queue, delVars, migVars, procVars, origin>>

Adders == Uploads \cup {PhotoWorker}

Objects == Images \X {"original", "thumb"}

\* The objects of a photo: its key and, if there is a thumbnail, its thumbKey.
ObjectsOf(i) ==
  {<<i, "original">>} \cup (IF i \in Thumbed THEN {<<i, "thumb">>} ELSE {})

\* Rows of a product that a statement of another transaction sees.
RowsOf(p) == {i \in rows : owner[i] = p}

\* The stages in which the transaction has inserted its row.
TxStages == {"inserted", "original", "stored"}
InTx(a) == stage[a] \in TxStages

\* A product row kept by the key-share lock of an uncommitted photo.
Locked(p) == \E a \in Adders : InTx(a) /\ target[a] = p

Init ==
  /\ s3 \in BOOLEAN
  /\ products \in SUBSET Products
  /\ born = products
  /\ rows \in SUBSET Images
  /\ owner \in [Images -> products \cup {None}]
  /\ \A i \in Images : owner[i] = None <=> i \notin rows
  /\ \A p \in products : Cardinality(RowsOf(p)) <= MaxImagesPerProduct
  /\ bytes = rows
  /\ keyed = {}
  /\ objects = {}
  /\ used = rows
  /\ stage = [a \in Adders |-> "idle"]
  /\ target = [a \in Adders |-> None]
  /\ photo = [a \in Adders |-> None]
  /\ queue = <<>>
  /\ cleanup = {}
  /\ deleting = {}
  /\ delKeys = [p \in Products |-> {}]
  /\ wiping = FALSE
  /\ migStage = IF s3 THEN "list" ELSE "off"
  /\ migBatch = {}
  /\ migPhoto = None
  /\ restarts = 0
  /\ origin = [i \in Images |-> IF i \in rows THEN "legacy" ELSE "none"]

----------------------------------------------------------------------------
(* Product cards and the queue of downloads *)

CreateProduct(p) ==
  /\ p \notin born
  /\ products' = products \cup {p}
  /\ born' = born \cup {p}
  /\ UNCHANGED <<rows, owner, bytes, keyed, used, objects, addVars, queue,
                 delVars, migVars, procVars, origin>>

\* A variant: an unbounded queue.
EnqueuePhotoUnbounded(p) ==
  /\ p \in born
  /\ queue' = Append(queue, p)
  /\ UNCHANGED <<dbVars, objects, addVars, delVars, migVars, procVars, origin>>

\* A match is committed for a price row with a photo link. The send never
\* blocks: with the queue full the task is dropped, which changes nothing.
EnqueuePhoto(p) ==
  /\ p \in born
  /\ Len(queue) < QueueCap
  /\ queue' = Append(queue, p)
  /\ UNCHANGED <<dbVars, objects, addVars, delVars, migVars, procVars, origin>>

\* A variant: the worker does not look whether the card has photos.
TakePhotoTaskUncounted ==
  /\ stage[PhotoWorker] = "idle"
  /\ queue # <<>>
  /\ queue' = Tail(queue)
  /\ stage' = [stage EXCEPT ![PhotoWorker] = "fetching"]
  /\ target' = [target EXCEPT ![PhotoWorker] = Head(queue)]
  /\ UNCHANGED <<dbVars, objects, photo, delVars, migVars, procVars, origin>>

\* The worker takes a task and counts the photos of the card: the task ends
\* at once if there is any.
TakePhotoTask ==
  /\ stage[PhotoWorker] = "idle"
  /\ queue # <<>>
  /\ queue' = Tail(queue)
  /\ IF RowsOf(Head(queue)) = {}
     THEN /\ stage' = [stage EXCEPT ![PhotoWorker] = "fetching"]
          /\ target' = [target EXCEPT ![PhotoWorker] = Head(queue)]
     ELSE UNCHANGED <<stage, target>>
  /\ UNCHANGED <<dbVars, objects, photo, delVars, migVars, procVars, origin>>

----------------------------------------------------------------------------
(* AddProductImage, one action per statement or S3 call *)

\* A user's request begins on an idle slot; the worker's follows a download.
StartsOn(a, p) ==
  \/ a \in Uploads /\ stage[a] = "idle"
  \/ a = PhotoWorker /\ stage[a] = "fetching" /\ target[a] = p

\* A variant: the limit compared with > instead of >=.
AddCountOffByOne(a, p) ==
  /\ StartsOn(a, p)
  /\ p \in products
  /\ Cardinality(RowsOf(p)) <= MaxImagesPerProduct
  /\ stage' = [stage EXCEPT ![a] = "counted"]
  /\ target' = [target EXCEPT ![a] = p]
  /\ UNCHANGED <<dbVars, objects, photo, queue, delVars, migVars, procVars,
                 origin>>

\* GetByID and CountByProduct: the card exists and the limit is not reached.
AddCount(a, p) ==
  /\ StartsOn(a, p)
  /\ p \in products
  /\ Cardinality(RowsOf(p)) < MaxImagesPerProduct
  /\ stage' = [stage EXCEPT ![a] = "counted"]
  /\ target' = [target EXCEPT ![a] = p]
  /\ UNCHANGED <<dbVars, objects, photo, queue, delVars, migVars, procVars,
                 origin>>

OriginOf(a) == IF a = PhotoWorker THEN "fetched" ELSE "manual"

\* The INSERT generates the id and locks the product. Without a store it
\* carries the bytes and the transaction commits.
AddInsert(a, i) ==
  /\ stage[a] = "counted"
  /\ target[a] \in products
  /\ i \notin used
  /\ used' = used \cup {i}
  /\ owner' = [owner EXCEPT ![i] = target[a]]
  /\ IF s3
     THEN /\ stage' = [stage EXCEPT ![a] = "inserted"]
          /\ photo' = [photo EXCEPT ![a] = i]
          /\ UNCHANGED <<rows, bytes, target, origin>>
     ELSE /\ rows' = rows \cup {i}
          /\ bytes' = bytes \cup {i}
          /\ origin' = [origin EXCEPT ![i] = OriginOf(a)]
          /\ stage' = [stage EXCEPT ![a] = "idle"]
          /\ target' = [target EXCEPT ![a] = None]
          /\ UNCHANGED photo
  /\ UNCHANGED <<products, born, keyed, objects, queue, delVars, migVars,
                 procVars>>

AddPutOriginal(a) ==
  /\ stage[a] = "inserted"
  /\ objects' = objects \cup {<<photo[a], "original">>}
  /\ stage' = [stage EXCEPT
       ![a] = IF photo[a] \in Thumbed THEN "original" ELSE "stored"]
  /\ UNCHANGED <<dbVars, target, photo, queue, delVars, migVars, procVars,
                 origin>>

AddPutThumb(a) ==
  /\ stage[a] = "original"
  /\ objects' = objects \cup {<<photo[a], "thumb">>}
  /\ stage' = [stage EXCEPT ![a] = "stored"]
  /\ UNCHANGED <<dbVars, target, photo, queue, delVars, migVars, procVars,
                 origin>>

\* The call is over: the slot is free for the next one.
Return(a) ==
  /\ stage' = [stage EXCEPT ![a] = "idle"]
  /\ target' = [target EXCEPT ![a] = None]
  /\ photo' = [photo EXCEPT ![a] = None]

\* SetS3Keys finds the transaction's own row; the commit follows.
AddCommit(a) ==
  /\ stage[a] = "stored"
  /\ rows' = rows \cup {photo[a]}
  /\ keyed' = keyed \cup {photo[a]}
  /\ origin' = [origin EXCEPT ![photo[a]] = OriginOf(a)]
  /\ Return(a)
  /\ UNCHANGED <<products, born, owner, bytes, used, objects, queue, delVars,
                 migVars, procVars>>

\* A variant: a download without a timeout never fails.
AddFailNoTimeout(a) ==
  /\ stage[a] \notin {"idle", "fetching"}
  /\ Return(a)
  /\ UNCHANGED <<dbVars, objects, queue, delVars, migVars, procVars, origin>>

\* A failed download, a missing card, the limit, a foreign key error, a failed
\* Put, a timeout: the transaction is rolled back, the objects stay.
AddFail(a) ==
  /\ stage[a] # "idle"
  /\ Return(a)
  /\ UNCHANGED <<dbVars, objects, queue, delVars, migVars, procVars, origin>>

----------------------------------------------------------------------------
(* Deletions: rows first, objects after the commit and best-effort *)

DropRows(S) ==
  /\ rows' = rows \ S
  /\ bytes' = bytes \ S
  /\ keyed' = keyed \ S

\* DELETE ... RETURNING s3_key, s3_thumb_key
DeleteImage(i) ==
  /\ i \in rows
  /\ DropRows({i})
  /\ cleanup' = IF s3 /\ i \in keyed THEN cleanup \cup ObjectsOf(i)
                                     ELSE cleanup
  /\ UNCHANGED <<products, born, owner, used, objects, addVars, queue,
                 deleting, delKeys, wiping, migVars, procVars, origin>>

\* A variant: the objects are given up before the transaction commits.
DeleteProductReadEager(p) ==
  /\ p \in products \ deleting
  /\ deleting' = deleting \cup {p}
  /\ cleanup' = cleanup \cup UNION {ObjectsOf(i) : i \in RowsOf(p) \cap keyed}
  /\ UNCHANGED <<dbVars, objects, addVars, queue, delKeys, wiping, migVars,
                 procVars, origin>>

\* S3KeysByProduct, the first statement of the DeleteProduct transaction.
DeleteProductRead(p) ==
  /\ p \in products \ deleting
  /\ deleting' = deleting \cup {p}
  /\ delKeys' = [delKeys EXCEPT
       ![p] = UNION {ObjectsOf(i) : i \in RowsOf(p) \cap keyed}]
  /\ UNCHANGED <<dbVars, objects, addVars, queue, cleanup, wiping, migVars,
                 procVars, origin>>

EndDelete(p) ==
  /\ deleting' = deleting \ {p}
  /\ delKeys' = [delKeys EXCEPT ![p] = {}]

\* A variant: no foreign key, so nothing to wait for.
DeleteProductCommitUnlocked(p) ==
  /\ p \in deleting
  /\ p \in products
  /\ products' = products \ {p}
  /\ DropRows(RowsOf(p))
  /\ cleanup' = IF s3 THEN cleanup \cup delKeys[p] ELSE cleanup
  /\ EndDelete(p)
  /\ UNCHANGED <<born, owner, used, objects, addVars, queue, wiping, migVars,
                 procVars, origin>>

\* The DELETE waits for the key-share locks, cascades to the photos committed
\* by then, and the transaction commits.
DeleteProductCommit(p) ==
  /\ p \in deleting
  /\ p \in products
  /\ ~Locked(p)
  /\ products' = products \ {p}
  /\ DropRows(RowsOf(p))
  /\ cleanup' = IF s3 THEN cleanup \cup delKeys[p] ELSE cleanup
  /\ EndDelete(p)
  /\ UNCHANGED <<born, owner, used, objects, addVars, queue, wiping, migVars,
                 procVars, origin>>

\* The card is already gone, a timeout, a deadlock with a wipe: rolled back.
DeleteProductFail(p) ==
  /\ p \in deleting
  /\ EndDelete(p)
  /\ UNCHANGED <<dbVars, objects, addVars, queue, cleanup, wiping, migVars,
                 procVars, origin>>

\* store.Delete logs an error and goes on to the next key.
CleanObject(o) ==
  /\ o \in cleanup
  /\ cleanup' = cleanup \ {o}
  /\ objects' \in {objects, objects \ {o}}
  /\ UNCHANGED <<dbVars, addVars, queue, deleting, delKeys, wiping, migVars,
                 procVars, origin>>

\* The transaction of AdminService.WipeData: photos, then products, which
\* waits for every key-share lock.
WipeCommit ==
  /\ ~wiping
  /\ \A p \in products : ~Locked(p)
  /\ products' = {}
  /\ DropRows(rows)
  /\ wiping' = s3
  /\ UNCHANGED <<born, owner, used, objects, addVars, queue, cleanup,
                 deleting, delKeys, migVars, procVars, origin>>

\* DeletePrefix lists the bucket and removes what it lists, until an error.
WipePurge ==
  /\ wiping
  /\ wiping' = FALSE
  /\ \E S \in SUBSET objects : objects' = objects \ S
  /\ UNCHANGED <<dbVars, addVars, queue, cleanup, deleting, delKeys, migVars,
                 procVars, origin>>

----------------------------------------------------------------------------
(* MigrateImagesToS3, a goroutine started with the service *)

SmallerOf(m, n) == IF m <= n THEN m ELSE n

\* ListUnmigrated: at most MigrationBatch rows whose bytes are in Postgres.
MigrateList ==
  /\ migStage = "list"
  /\ IF bytes = {}
     THEN migStage' = "off" /\ UNCHANGED migBatch
     ELSE /\ migStage' = "next"
          /\ \E S \in SUBSET bytes :
               /\ Cardinality(S) = SmallerOf(MigrationBatch, Cardinality(bytes))
               /\ migBatch' = S
  /\ UNCHANGED <<dbVars, objects, addVars, queue, delVars, migPhoto, procVars,
                 origin>>

\* A variant: the thumbnail is not uploaded.
MigratePutOriginalOnly(i) ==
  /\ migStage = "next"
  /\ i \in migBatch
  /\ objects' = objects \cup {<<i, "original">>}
  /\ migPhoto' = i
  /\ migStage' = "stored"
  /\ UNCHANGED <<dbVars, addVars, queue, delVars, migBatch, procVars, origin>>

MigratePutOriginal(i) ==
  /\ migStage = "next"
  /\ i \in migBatch
  /\ objects' = objects \cup {<<i, "original">>}
  /\ migPhoto' = i
  /\ migStage' = IF i \in Thumbed THEN "original" ELSE "stored"
  /\ UNCHANGED <<dbVars, addVars, queue, delVars, migBatch, procVars, origin>>

MigratePutThumb ==
  /\ migStage = "original"
  /\ objects' = objects \cup {<<migPhoto, "thumb">>}
  /\ migStage' = "stored"
  /\ UNCHANGED <<dbVars, addVars, queue, delVars, migBatch, migPhoto,
                 procVars, origin>>

MigrationOver ==
  /\ migStage' = "off"
  /\ migBatch' = {}
  /\ migPhoto' = None

\* A variant: the bytes are not set to NULL.
MigrateSetKeysKeepBytes ==
  /\ migStage = "stored"
  /\ IF migPhoto \in rows
     THEN /\ keyed' = keyed \cup {migPhoto}
          /\ migBatch' = migBatch \ {migPhoto}
          /\ migPhoto' = None
          /\ migStage' = IF migBatch = {migPhoto} THEN "list" ELSE "next"
     ELSE MigrationOver /\ UNCHANGED keyed
  /\ UNCHANGED <<products, born, rows, owner, bytes, used, objects, addVars,
                 queue, delVars, procVars, origin>>

\* SetS3Keys of the migration: a photo deleted meanwhile is ErrImageNotFound,
\* which ends the whole migration.
MigrateSetKeys ==
  /\ migStage = "stored"
  /\ IF migPhoto \in rows
     THEN /\ keyed' = keyed \cup {migPhoto}
          /\ bytes' = bytes \ {migPhoto}
          /\ migBatch' = migBatch \ {migPhoto}
          /\ migPhoto' = None
          /\ migStage' = IF migBatch = {migPhoto} THEN "list" ELSE "next"
     ELSE MigrationOver /\ UNCHANGED <<keyed, bytes>>
  /\ UNCHANGED <<products, born, rows, owner, used, objects, addVars, queue,
                 delVars, procVars, origin>>

\* Any error of the database or of S3 ends the migration too.
MigrateFail ==
  /\ MigrationMayFail
  /\ migStage # "off"
  /\ MigrationOver
  /\ UNCHANGED <<dbVars, objects, addVars, queue, delVars, procVars, origin>>

----------------------------------------------------------------------------
(* The process ends, at any point, and starts again, with or without S3. The  *)
(* queue, the requests and the pending removals are lost, the open            *)
(* transactions are rolled back.                                              *)

Restart ==
  /\ restarts < MaxRestarts
  /\ restarts' = restarts + 1
  /\ s3' \in BOOLEAN
  /\ stage' = [a \in Adders |-> "idle"]
  /\ target' = [a \in Adders |-> None]
  /\ photo' = [a \in Adders |-> None]
  /\ queue' = <<>>
  /\ cleanup' = {}
  /\ deleting' = {}
  /\ delKeys' = [p \in Products |-> {}]
  /\ wiping' = FALSE
  /\ migStage' = IF s3' THEN "list" ELSE "off"
  /\ migBatch' = {}
  /\ migPhoto' = None
  /\ UNCHANGED <<dbVars, objects, origin>>

AddStep(a) ==
  \/ \E p \in Products : AddCount(a, p)
  \/ \E i \in Images : AddInsert(a, i)
  \/ AddPutOriginal(a)
  \/ AddPutThumb(a)
  \/ AddCommit(a)
  \/ AddFail(a)

MigrateStep ==
  \/ MigrateList
  \/ \E i \in Images : MigratePutOriginal(i)
  \/ MigratePutThumb
  \/ MigrateSetKeys
  \/ MigrateFail

DeleteStep ==
  \/ \E i \in Images : DeleteImage(i)
  \/ \E p \in Products : DeleteProductRead(p)
  \/ \E p \in Products : DeleteProductCommit(p)
  \/ \E p \in Products : DeleteProductFail(p)
  \/ \E o \in Objects : CleanObject(o)
  \/ WipeCommit
  \/ WipePurge

Next ==
  \/ \E p \in Products : CreateProduct(p)
  \/ \E p \in Products : EnqueuePhoto(p)
  \/ TakePhotoTask
  \/ \E a \in Adders : AddStep(a)
  \/ DeleteStep
  \/ MigrateStep
  \/ Restart

Spec == Init /\ [][Next]_vars

\* The goroutines the service starts are scheduled, and each of their calls
\* ends: a download by its timeout, a statement or a Put by an answer or an
\* error.
FairSpec == Spec /\ WF_vars(TakePhotoTask)
                 /\ WF_vars(AddStep(PhotoWorker))
                 /\ WF_vars(MigrateStep)

----------------------------------------------------------------------------
(* Properties *)

Stages == {"idle", "fetching", "counted"} \cup TxStages
MigStages == {"off", "list", "next", "original", "stored"}
Origins == {"none", "legacy", "manual", "fetched"}

\* The variables have their types.
TypeOK ==
  /\ s3 \in BOOLEAN
  /\ products \subseteq born /\ born \subseteq Products
  /\ rows \subseteq used /\ used \subseteq Images
  /\ owner \in [Images -> Products \cup {None}]
  /\ bytes \subseteq Images /\ keyed \subseteq Images
  /\ objects \subseteq Objects
  /\ stage \in [Adders -> Stages]
  /\ target \in [Adders -> Products \cup {None}]
  /\ photo \in [Adders -> Images \cup {None}]
  /\ queue \in Seq(Products) /\ Len(queue) <= QueueCap
  /\ cleanup \subseteq Objects
  /\ deleting \subseteq Products
  /\ delKeys \in [Products -> SUBSET Objects]
  /\ wiping \in BOOLEAN
  /\ migStage \in MigStages
  /\ migBatch \subseteq Images
  /\ migPhoto \in Images \cup {None}
  /\ restarts \in 0..MaxRestarts
  /\ origin \in [Images -> Origins]

\* A committed photo is in exactly one place: bytes in Postgres or a key, as
\* the comment of ProductImageRepository.GetData says.
ExactlyOnePlace ==
  /\ bytes \cup keyed = rows
  /\ bytes \cap keyed = {}

\* No photo outlives its card, though uploads, deletions and wipes overlap:
\* the cascade takes the photos committed while the DELETE waited.
NoPhotoWithoutCard == \A i \in rows : owner[i] \in products

\* A removal still to come after a deletion never names an object of a
\* committed photo or of an upload under way, although DeleteProduct reads
\* the keys before the rows are gone and its transaction may still fail.
CleanupIsDead ==
  \A o \in cleanup :
    /\ o[1] \notin rows
    /\ \A a \in Adders : InTx(a) => photo[a] # o[1]

\* The objects the upload a has stored so far for its uncommitted row.
StoredBy(a) ==
  CASE stage[a] = "stored" -> ObjectsOf(photo[a])
    [] stage[a] = "original" -> {<<photo[a], "original">>}
    [] OTHER -> {}

\* Objects that a committed row, or a row about to be committed, refers to.
Referenced == {o \in Objects : \/ \E i \in keyed : o \in ObjectsOf(i)
                               \/ \E a \in Adders : o \in StoredBy(a)}

Dangling == Referenced \ objects

\* A row never points to a removed object, the rule DeleteProduct and WipeData
\* state for themselves.
NoDanglingKey == \A i \in keyed : ObjectsOf(i) \subseteq objects

\* The only step that can break that rule is DeletePrefix of a wipe: no upload,
\* migration, deletion, failure or restart makes a key dangle.
OnlyPurgeDangles == [][WipePurge \/ Dangling' \subseteq Dangling]_vars

\* A card never has two downloaded photos, however many price rows with links
\* are matched to it ("repeated runs breed no duplicates").
FetchedAtMostOnce ==
  \A i, j \in rows : origin[i] = "fetched" /\ origin[j] = "fetched"
                      /\ owner[i] = owner[j] => i = j

\* The comment of AddProductImage has the limit kept by one transaction; at
\* READ COMMITTED, where the count locks nothing, it can be overshot, by one for
\* each other request under way.
OvershootBounded ==
  \A p \in Products :
    Cardinality(RowsOf(p)) <= MaxImagesPerProduct + Cardinality(Uploads)

\* The queue does not stay full: the single worker always comes back for the
\* next task, whatever its downloads and uploads end with.
FullQueueDrains == []<>(Len(queue) < QueueCap)

\* The migration ends: re-reading the unmigrated rows after each batch does
\* not go on for ever.
MigrationEnds == []<>(migStage = "off")

----------------------------------------------------------------------------
(* The inductive invariant behind the safety properties *)

\* An uncommitted photo has an id of its own, of a card the lock keeps alive,
\* that no row, no other request and no batch of the migration knows.
TxInv ==
  \A a \in Adders : InTx(a) =>
    /\ photo[a] \in used \ rows
    /\ target[a] \in products
    /\ owner[photo[a]] = target[a]
    /\ photo[a] \notin migBatch
    /\ stage[a] = "original" => photo[a] \in Thumbed
    /\ \A b \in Adders \ {a} : InTx(b) => photo[b] # photo[a]

\* The keys DeleteProduct has read are of photos of its card.
DelKeysInv ==
  \A p \in Products : \A o \in delKeys[p] :
    /\ o[1] \in used
    /\ owner[o[1]] = p
    /\ \A a \in Adders : InTx(a) => photo[a] # o[1]

\* DeletePrefix comes when no bytes are left in Postgres, so the migration
\* has nothing to commit that it could remove.
WipeInv == wiping => s3 /\ bytes = {}

\* The migration works on photos that are still unmigrated, or deleted.
MigInv ==
  /\ migStage # "off" => s3
  /\ migBatch \subseteq used
  /\ migBatch \cap rows \subseteq bytes
  /\ migStage \in {"original", "stored"} => migPhoto \in migBatch
  /\ migStage = "original" => migPhoto \in Thumbed
  /\ migStage \in {"original", "stored"} /\ migPhoto \in rows =>
       <<migPhoto, "original">> \in objects
  /\ migStage = "stored" /\ migPhoto \in rows \cap Thumbed =>
       <<migPhoto, "thumb">> \in objects

\* While the worker downloads or uploads for a card, no downloaded photo of
\* that card is committed.
WorkerInv ==
  stage[PhotoWorker] # "idle" =>
    \A i \in rows : owner[i] = target[PhotoWorker] => origin[i] # "fetched"

IInv ==
  /\ TypeOK
  /\ ExactlyOnePlace
  /\ NoPhotoWithoutCard
  /\ TxInv
  /\ \A o \in cleanup : o[1] \in used
  /\ CleanupIsDead
  /\ DelKeysInv
  /\ WipeInv
  /\ MigInv
  /\ WorkerInv
  /\ FetchedAtMostOnce
=============================================================================
