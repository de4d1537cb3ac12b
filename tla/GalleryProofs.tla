--------------------------- MODULE GalleryProofs ---------------------------
(* The safety of the gallery for every instance of its constants. *)
EXTENDS Gallery, FiniteSetTheorems, TLAPS

(* The initial states satisfy the invariant. *)
LEMMA InitIInv == Init => IInv
<1> SUFFICES ASSUME Init PROVE IInv
  OBVIOUS
<1> USE GalleryAssumption DEF Init, Adders
<1>1. TypeOK
  <2>1. queue \in Seq(Products) /\ Len(queue) <= QueueCap
    OBVIOUS
  <2>2. restarts \in 0..MaxRestarts
    OBVIOUS
  <2>3. owner \in [Images -> Products \cup {None}]
    OBVIOUS
  <2>4. stage \in [Adders -> Stages] /\ origin \in [Images -> Origins]
    BY DEF Stages, TxStages, Origins
  <2> QED
    BY <2>1, <2>2, <2>3, <2>4 DEF TypeOK, MigStages
<1>2. ExactlyOnePlace /\ NoPhotoWithoutCard
  BY DEF ExactlyOnePlace, NoPhotoWithoutCard
<1>3. TxInv /\ WorkerInv
  BY DEF TxInv, WorkerInv, InTx, TxStages
<1>4. CleanupIsDead /\ DelKeysInv /\ WipeInv /\ MigInv
  BY DEF CleanupIsDead, DelKeysInv, WipeInv, MigInv
<1>5. FetchedAtMostOnce
  BY DEF FetchedAtMostOnce
<1> QED
  BY <1>1, <1>2, <1>3, <1>4, <1>5 DEF IInv

(* A new card holds no photo. *)
LEMMA CreateProductIInv ==
  ASSUME IInv, NEW p \in Products, CreateProduct(p)
  PROVE  IInv'
<1> USE GalleryAssumption DEF IInv, TypeOK, CreateProduct, dbVars, addVars, delVars, migVars, procVars
<1>1. TypeOK'
  OBVIOUS
<1>2. NoPhotoWithoutCard'
  BY DEF NoPhotoWithoutCard
<1>3. TxInv'
  BY DEF TxInv, InTx
<1>4. /\ ExactlyOnePlace'
       /\ (\A o \in cleanup : o[1] \in used)'
       /\ CleanupIsDead'
       /\ DelKeysInv'
       /\ WipeInv'
       /\ MigInv'
       /\ WorkerInv'
       /\ FetchedAtMostOnce'
  BY DEF ExactlyOnePlace, CleanupIsDead, DelKeysInv, WipeInv, MigInv, WorkerInv, FetchedAtMostOnce, InTx
<1> QED
  BY <1>1, <1>2, <1>3, <1>4

(* A task in the queue names a card, no photo. *)
LEMMA EnqueuePhotoIInv ==
  ASSUME IInv, NEW p \in Products, EnqueuePhoto(p)
  PROVE  IInv'
<1> USE GalleryAssumption DEF IInv, TypeOK, EnqueuePhoto, dbVars, addVars, delVars, migVars, procVars
<1>1. TypeOK'
  OBVIOUS
<1>2. /\ ExactlyOnePlace'
       /\ NoPhotoWithoutCard'
       /\ TxInv'
       /\ (\A o \in cleanup : o[1] \in used)'
       /\ CleanupIsDead'
       /\ DelKeysInv'
       /\ WipeInv'
       /\ MigInv'
       /\ WorkerInv'
       /\ FetchedAtMostOnce'
  BY DEF ExactlyOnePlace, NoPhotoWithoutCard, TxInv, CleanupIsDead, DelKeysInv, WipeInv, MigInv, WorkerInv, FetchedAtMostOnce, InTx
<1> QED
  BY <1>1, <1>2

(* The worker downloads only for a card without photos. *)
LEMMA TakePhotoTaskIInv ==
  ASSUME IInv, TakePhotoTask
  PROVE  IInv'
<1> USE GalleryAssumption DEF IInv, TypeOK, TakePhotoTask, dbVars, addVars, delVars, migVars, procVars
<1>1. TypeOK'
  BY DEF Adders, Stages
<1>2. TxInv'
  BY DEF TxInv, InTx, TxStages
<1>3. CleanupIsDead'
  BY DEF CleanupIsDead, InTx, TxStages
<1>4. DelKeysInv'
  BY DEF DelKeysInv, InTx, TxStages
<1>5. WorkerInv'
  BY DEF WorkerInv, RowsOf, Adders
<1>6. /\ ExactlyOnePlace'
       /\ NoPhotoWithoutCard'
       /\ (\A o \in cleanup : o[1] \in used)'
       /\ WipeInv'
       /\ MigInv'
       /\ FetchedAtMostOnce'
  BY DEF ExactlyOnePlace, NoPhotoWithoutCard, WipeInv, MigInv, FetchedAtMostOnce
<1> QED
  BY <1>1, <1>2, <1>3, <1>4, <1>5, <1>6

(* Counting reads; a worker that goes on keeps its card. *)
LEMMA AddCountIInv ==
  ASSUME IInv, NEW a \in Adders, NEW p \in Products, AddCount(a, p)
  PROVE  IInv'
<1> USE GalleryAssumption DEF IInv, TypeOK, AddCount, StartsOn, dbVars, addVars, delVars, migVars, procVars
<1>1. TypeOK'
  BY DEF Stages
<1>2. TxInv'
  BY DEF TxInv, InTx, TxStages
<1>3. CleanupIsDead'
  BY DEF CleanupIsDead, InTx, TxStages
<1>4. DelKeysInv'
  BY DEF DelKeysInv, InTx, TxStages
<1>5. WorkerInv'
  BY DEF WorkerInv, Adders
<1>6. /\ ExactlyOnePlace'
       /\ NoPhotoWithoutCard'
       /\ (\A o \in cleanup : o[1] \in used)'
       /\ WipeInv'
       /\ MigInv'
       /\ FetchedAtMostOnce'
  BY DEF ExactlyOnePlace, NoPhotoWithoutCard, WipeInv, MigInv, FetchedAtMostOnce
<1> QED
  BY <1>1, <1>2, <1>3, <1>4, <1>5, <1>6

(* The inserted photo has a fresh id, unknown to every deletion and batch. *)
LEMMA AddInsertIInv ==
  ASSUME IInv, NEW a \in Adders, NEW i \in Images, AddInsert(a, i)
  PROVE  IInv'
<1> USE GalleryAssumption DEF IInv, TypeOK, AddInsert, OriginOf, dbVars, addVars, delVars, migVars, procVars
<1>1. TypeOK'
  <2>1. /\ products' \subseteq born' /\ born' \subseteq Products
        /\ rows' \subseteq used' /\ used' \subseteq Images
        /\ bytes' \subseteq Images /\ keyed' \subseteq Images
    OBVIOUS
  <2>2. owner' \in [Images -> Products \cup {None}]
    OBVIOUS
  <2>3. stage' \in [Adders -> Stages]
    BY DEF Stages, TxStages
  <2>4. /\ target' \in [Adders -> Products \cup {None}]
        /\ photo' \in [Adders -> Images \cup {None}]
    OBVIOUS
  <2>5. origin' \in [Images -> Origins]
    BY DEF Origins
  <2> QED
    BY <2>1, <2>2, <2>3, <2>4, <2>5
<1>2. ExactlyOnePlace'
  BY DEF ExactlyOnePlace
<1>3. NoPhotoWithoutCard'
  BY DEF NoPhotoWithoutCard
<1>4. TxInv'
  <2> SUFFICES ASSUME NEW b \in Adders, InTx(b)'
               PROVE  /\ photo'[b] \in used' \ rows'
                      /\ target'[b] \in products'
                      /\ owner'[photo'[b]] = target'[b]
                      /\ photo'[b] \notin migBatch'
                      /\ stage'[b] = "original" => photo'[b] \in Thumbed
                      /\ \A c \in Adders \ {b} : InTx(c)' => photo'[c] # photo'[b]
    BY DEF TxInv, InTx
  <2>1. CASE b = a
    BY <2>1 DEF TxInv, InTx, TxStages, MigInv
  <2>2. CASE b # a
    BY <2>2 DEF TxInv, InTx, TxStages
  <2> QED
    BY <2>1, <2>2
<1>5. (\A o \in cleanup : o[1] \in used)'
  OBVIOUS
<1>6. CleanupIsDead'
  BY DEF CleanupIsDead, InTx, TxStages
<1>7. DelKeysInv'
  BY DEF DelKeysInv, InTx, TxStages
<1>8. WipeInv'
  BY DEF WipeInv
<1>9. MigInv'
  BY DEF MigInv
<1>10. WorkerInv'
  BY DEF WorkerInv, Adders
<1>11. FetchedAtMostOnce'
  BY DEF FetchedAtMostOnce, WorkerInv, Adders
<1> QED
  BY <1>1, <1>2, <1>3, <1>4, <1>5, <1>6, <1>7, <1>8, <1>9, <1>10, <1>11

(* An upload stores objects of its own photo. *)
LEMMA AddPutOriginalIInv ==
  ASSUME IInv, NEW a \in Adders, AddPutOriginal(a)
  PROVE  IInv'
<1> USE GalleryAssumption DEF IInv, TypeOK, AddPutOriginal, dbVars, addVars, delVars, migVars, procVars
<1>1. TypeOK'
  BY DEF Stages, TxStages, Objects, TxInv, InTx
<1>2. TxInv'
  BY DEF TxInv, InTx, TxStages
<1>3. CleanupIsDead'
  BY DEF CleanupIsDead, InTx, TxStages
<1>4. DelKeysInv'
  BY DEF DelKeysInv, InTx, TxStages
<1>5. MigInv'
  BY DEF MigInv
<1>6. WorkerInv'
  BY DEF WorkerInv, Adders
<1>7. /\ ExactlyOnePlace'
       /\ NoPhotoWithoutCard'
       /\ (\A o \in cleanup : o[1] \in used)'
       /\ WipeInv'
       /\ FetchedAtMostOnce'
  BY DEF ExactlyOnePlace, NoPhotoWithoutCard, WipeInv, FetchedAtMostOnce
<1> QED
  BY <1>1, <1>2, <1>3, <1>4, <1>5, <1>6, <1>7

(* The same for the thumbnail. *)
LEMMA AddPutThumbIInv ==
  ASSUME IInv, NEW a \in Adders, AddPutThumb(a)
  PROVE  IInv'
<1> USE GalleryAssumption DEF IInv, TypeOK, AddPutThumb, dbVars, addVars, delVars, migVars, procVars
<1>1. TypeOK'
  BY DEF Stages, TxStages, Objects, TxInv, InTx
<1>2. TxInv'
  BY DEF TxInv, InTx, TxStages
<1>3. CleanupIsDead'
  BY DEF CleanupIsDead, InTx, TxStages
<1>4. DelKeysInv'
  BY DEF DelKeysInv, InTx, TxStages
<1>5. MigInv'
  BY DEF MigInv
<1>6. WorkerInv'
  BY DEF WorkerInv, Adders
<1>7. /\ ExactlyOnePlace'
       /\ NoPhotoWithoutCard'
       /\ (\A o \in cleanup : o[1] \in used)'
       /\ WipeInv'
       /\ FetchedAtMostOnce'
  BY DEF ExactlyOnePlace, NoPhotoWithoutCard, WipeInv, FetchedAtMostOnce
<1> QED
  BY <1>1, <1>2, <1>3, <1>4, <1>5, <1>6, <1>7

(* The committed photo was known to its own request only, and its card was locked. *)
LEMMA AddCommitIInv ==
  ASSUME IInv, NEW a \in Adders, AddCommit(a)
  PROVE  IInv'
<1> USE GalleryAssumption DEF IInv, TypeOK, AddCommit, Return, OriginOf, dbVars, addVars, delVars, migVars, procVars
<1>1. TypeOK'
  BY DEF Stages, Origins, TxInv, InTx, TxStages
<1>2. ExactlyOnePlace'
  BY DEF ExactlyOnePlace, TxInv, InTx, TxStages
<1>3. NoPhotoWithoutCard'
  BY DEF NoPhotoWithoutCard, TxInv, InTx, TxStages
<1>4. TxInv'
  BY DEF TxInv, InTx, TxStages
<1>5. CleanupIsDead'
  BY DEF CleanupIsDead, InTx, TxStages
<1>6. DelKeysInv'
  BY DEF DelKeysInv, InTx, TxStages
<1>7. WipeInv'
  BY DEF WipeInv
<1>8. MigInv'
  BY DEF MigInv, TxInv, InTx, TxStages
<1>9. WorkerInv'
  BY DEF WorkerInv, Adders, TxInv, InTx, TxStages
<1>10. FetchedAtMostOnce'
  BY DEF FetchedAtMostOnce, WorkerInv, Adders, TxInv, InTx, TxStages
<1>11. /\ (\A o \in cleanup : o[1] \in used)'
  OBVIOUS
<1> QED
  BY <1>1, <1>2, <1>3, <1>4, <1>5, <1>6, <1>7, <1>8, <1>9, <1>10, <1>11

(* A rollback leaves no row behind. *)
LEMMA AddFailIInv ==
  ASSUME IInv, NEW a \in Adders, AddFail(a)
  PROVE  IInv'
<1> USE GalleryAssumption DEF IInv, TypeOK, AddFail, Return, dbVars, addVars, delVars, migVars, procVars
<1>1. TypeOK'
  BY DEF Stages, Origins
<1>2. TxInv'
  BY DEF TxInv, InTx, TxStages
<1>3. CleanupIsDead'
  BY DEF CleanupIsDead, InTx, TxStages
<1>4. DelKeysInv'
  BY DEF DelKeysInv, InTx, TxStages
<1>5. WorkerInv'
  BY DEF WorkerInv, Adders, TxInv, InTx, TxStages
<1>6. FetchedAtMostOnce'
  BY DEF FetchedAtMostOnce, TxInv, InTx, TxStages
<1>7. /\ ExactlyOnePlace'
       /\ NoPhotoWithoutCard'
       /\ (\A o \in cleanup : o[1] \in used)'
       /\ WipeInv'
       /\ MigInv'
  BY DEF ExactlyOnePlace, NoPhotoWithoutCard, WipeInv, MigInv
<1> QED
  BY <1>1, <1>2, <1>3, <1>4, <1>5, <1>6, <1>7

(* The removals of a deleted photo are of a dead id. *)
LEMMA DeleteImageIInv ==
  ASSUME IInv, NEW i \in Images, DeleteImage(i)
  PROVE  IInv'
<1> USE GalleryAssumption DEF IInv, TypeOK, DeleteImage, DropRows, dbVars, addVars, delVars, migVars, procVars
<1>1. TypeOK'
  BY DEF Objects, ObjectsOf
<1>2. ExactlyOnePlace'
  BY DEF ExactlyOnePlace
<1>3. NoPhotoWithoutCard'
  BY DEF NoPhotoWithoutCard
<1>4. TxInv'
  BY DEF TxInv, InTx, TxStages
<1>5. (\A o \in cleanup : o[1] \in used)'
  BY DEF ObjectsOf
<1>6. CleanupIsDead'
  BY DEF CleanupIsDead, ObjectsOf, TxInv, InTx
<1>7. WipeInv'
  BY DEF WipeInv
<1>8. MigInv'
  BY DEF MigInv
<1>9. WorkerInv'
  BY DEF WorkerInv
<1>10. FetchedAtMostOnce'
  BY DEF FetchedAtMostOnce
<1>11. /\ DelKeysInv'
  BY DEF DelKeysInv, InTx
<1> QED
  BY <1>1, <1>2, <1>3, <1>4, <1>5, <1>6, <1>7, <1>8, <1>9, <1>10, <1>11

(* The keys read are of committed photos of the card. *)
LEMMA DeleteProductReadIInv ==
  ASSUME IInv, NEW p \in Products, DeleteProductRead(p)
  PROVE  IInv'
<1> USE GalleryAssumption DEF IInv, TypeOK, DeleteProductRead, dbVars, addVars, delVars, migVars, procVars
<1>1. TypeOK'
  BY DEF Objects, ObjectsOf
<1>2. DelKeysInv'
  BY DEF DelKeysInv, ObjectsOf, RowsOf, TxInv, InTx
<1>3. /\ ExactlyOnePlace'
       /\ NoPhotoWithoutCard'
       /\ TxInv'
       /\ (\A o \in cleanup : o[1] \in used)'
       /\ CleanupIsDead'
       /\ WipeInv'
       /\ MigInv'
       /\ WorkerInv'
       /\ FetchedAtMostOnce'
  BY DEF ExactlyOnePlace, NoPhotoWithoutCard, TxInv, CleanupIsDead, WipeInv, MigInv, WorkerInv, FetchedAtMostOnce, InTx
<1> QED
  BY <1>1, <1>2, <1>3

(* With no lock on the card, every photo of it is committed and goes with it. *)
LEMMA DeleteProductCommitIInv ==
  ASSUME IInv, NEW p \in Products, DeleteProductCommit(p)
  PROVE  IInv'
<1> USE GalleryAssumption DEF IInv, TypeOK, DeleteProductCommit, DropRows, EndDelete, dbVars, addVars, delVars, migVars, procVars
<1>1. TypeOK'
  OBVIOUS
<1>2. ExactlyOnePlace'
  BY DEF ExactlyOnePlace
<1>3. NoPhotoWithoutCard'
  BY DEF NoPhotoWithoutCard, RowsOf
<1>4. TxInv'
  BY DEF TxInv, Locked, InTx
<1>5. (\A o \in cleanup : o[1] \in used)'
  BY DEF DelKeysInv
<1>6. CleanupIsDead'
  BY DEF CleanupIsDead, DelKeysInv, RowsOf, InTx
<1>7. DelKeysInv'
  BY DEF DelKeysInv, InTx
<1>8. WipeInv'
  BY DEF WipeInv
<1>9. MigInv'
  BY DEF MigInv
<1>10. WorkerInv'
  BY DEF WorkerInv
<1>11. FetchedAtMostOnce'
  BY DEF FetchedAtMostOnce
<1> QED
  BY <1>1, <1>2, <1>3, <1>4, <1>5, <1>6, <1>7, <1>8, <1>9, <1>10, <1>11

(* A rolled-back deletion forgets its keys. *)
LEMMA DeleteProductFailIInv ==
  ASSUME IInv, NEW p \in Products, DeleteProductFail(p)
  PROVE  IInv'
<1> USE GalleryAssumption DEF IInv, TypeOK, DeleteProductFail, EndDelete, dbVars, addVars, delVars, migVars, procVars
<1>1. TypeOK'
  OBVIOUS
<1>2. DelKeysInv'
  BY DEF DelKeysInv, InTx
<1>3. /\ ExactlyOnePlace'
       /\ NoPhotoWithoutCard'
       /\ TxInv'
       /\ (\A o \in cleanup : o[1] \in used)'
       /\ CleanupIsDead'
       /\ WipeInv'
       /\ MigInv'
       /\ WorkerInv'
       /\ FetchedAtMostOnce'
  BY DEF ExactlyOnePlace, NoPhotoWithoutCard, TxInv, CleanupIsDead, WipeInv, MigInv, WorkerInv, FetchedAtMostOnce, InTx
<1> QED
  BY <1>1, <1>2, <1>3

(* The migration's objects survive: a removal is of a dead id. *)
LEMMA CleanObjectIInv ==
  ASSUME IInv, NEW ob \in Objects, CleanObject(ob)
  PROVE  IInv'
<1> USE GalleryAssumption DEF IInv, TypeOK, CleanObject, dbVars, addVars, delVars, migVars, procVars
<1>1. TypeOK'
  OBVIOUS
<1>2. (\A o \in cleanup : o[1] \in used)'
  OBVIOUS
<1>3. CleanupIsDead'
  BY DEF CleanupIsDead, InTx
<1>4. MigInv'
  BY DEF MigInv, CleanupIsDead
<1>5. /\ ExactlyOnePlace'
       /\ NoPhotoWithoutCard'
       /\ TxInv'
       /\ DelKeysInv'
       /\ WipeInv'
       /\ WorkerInv'
       /\ FetchedAtMostOnce'
  BY DEF ExactlyOnePlace, NoPhotoWithoutCard, TxInv, DelKeysInv, WipeInv, WorkerInv, FetchedAtMostOnce, InTx
<1> QED
  BY <1>1, <1>2, <1>3, <1>4, <1>5

(* With no lock on any card, nothing of the gallery survives the wipe. *)
LEMMA WipeCommitIInv ==
  ASSUME IInv, WipeCommit
  PROVE  IInv'
<1> USE GalleryAssumption DEF IInv, TypeOK, WipeCommit, DropRows, dbVars, addVars, delVars, migVars, procVars
<1>1. TypeOK'
  OBVIOUS
<1>2. ExactlyOnePlace'
  BY DEF ExactlyOnePlace
<1>3. NoPhotoWithoutCard'
  BY DEF NoPhotoWithoutCard
<1>4. TxInv'
  BY DEF TxInv, Locked, InTx
<1>5. CleanupIsDead'
  BY DEF CleanupIsDead, InTx
<1>6. WipeInv'
  BY DEF WipeInv, ExactlyOnePlace
<1>7. MigInv'
  BY DEF MigInv
<1>8. WorkerInv'
  BY DEF WorkerInv
<1>9. FetchedAtMostOnce'
  BY DEF FetchedAtMostOnce
<1>10. /\ (\A o \in cleanup : o[1] \in used)'
       /\ DelKeysInv'
  BY DEF DelKeysInv, InTx
<1> QED
  BY <1>1, <1>2, <1>3, <1>4, <1>5, <1>6, <1>7, <1>8, <1>9, <1>10

(* DeletePrefix cannot hit the migration: no bytes are left to migrate. *)
LEMMA WipePurgeIInv ==
  ASSUME IInv, WipePurge
  PROVE  IInv'
<1> USE GalleryAssumption DEF IInv, TypeOK, WipePurge, dbVars, addVars, delVars, migVars, procVars
<1>1. TypeOK'
  OBVIOUS
<1>2. WipeInv'
  BY DEF WipeInv
<1>3. MigInv'
  BY DEF MigInv, WipeInv
<1>4. /\ ExactlyOnePlace'
       /\ NoPhotoWithoutCard'
       /\ TxInv'
       /\ (\A o \in cleanup : o[1] \in used)'
       /\ CleanupIsDead'
       /\ DelKeysInv'
       /\ WorkerInv'
       /\ FetchedAtMostOnce'
  BY DEF ExactlyOnePlace, NoPhotoWithoutCard, TxInv, CleanupIsDead, DelKeysInv, WorkerInv, FetchedAtMostOnce, InTx
<1> QED
  BY <1>1, <1>2, <1>3, <1>4

(* The batch is of unmigrated rows. *)
LEMMA MigrateListIInv ==
  ASSUME IInv, MigrateList
  PROVE  IInv'
<1> USE GalleryAssumption DEF IInv, TypeOK, MigrateList, dbVars, addVars, delVars, migVars, procVars
<1>1. TypeOK'
  BY DEF MigStages
<1>2. TxInv'
  BY DEF TxInv, InTx, ExactlyOnePlace
<1>3. MigInv'
  BY DEF MigInv, ExactlyOnePlace
<1>4. /\ ExactlyOnePlace'
       /\ NoPhotoWithoutCard'
       /\ (\A o \in cleanup : o[1] \in used)'
       /\ CleanupIsDead'
       /\ DelKeysInv'
       /\ WipeInv'
       /\ WorkerInv'
       /\ FetchedAtMostOnce'
  BY DEF ExactlyOnePlace, NoPhotoWithoutCard, CleanupIsDead, DelKeysInv, WipeInv, WorkerInv, FetchedAtMostOnce, InTx
<1> QED
  BY <1>1, <1>2, <1>3, <1>4

(* The migration stores objects of a photo of its batch. *)
LEMMA MigratePutOriginalIInv ==
  ASSUME IInv, NEW i \in Images, MigratePutOriginal(i)
  PROVE  IInv'
<1> USE GalleryAssumption DEF IInv, TypeOK, MigratePutOriginal, dbVars, addVars, delVars, migVars, procVars
<1>1. TypeOK'
  BY DEF MigStages, Objects
<1>2. MigInv'
  BY DEF MigInv
<1>3. /\ ExactlyOnePlace'
       /\ NoPhotoWithoutCard'
       /\ TxInv'
       /\ (\A o \in cleanup : o[1] \in used)'
       /\ CleanupIsDead'
       /\ DelKeysInv'
       /\ WipeInv'
       /\ WorkerInv'
       /\ FetchedAtMostOnce'
  BY DEF ExactlyOnePlace, NoPhotoWithoutCard, TxInv, CleanupIsDead, DelKeysInv, WipeInv, WorkerInv, FetchedAtMostOnce, InTx
<1> QED
  BY <1>1, <1>2, <1>3

(* The same for the thumbnail. *)
LEMMA MigratePutThumbIInv ==
  ASSUME IInv, MigratePutThumb
  PROVE  IInv'
<1> USE GalleryAssumption DEF IInv, TypeOK, MigratePutThumb, dbVars, addVars, delVars, migVars, procVars
<1>1. TypeOK'
  BY DEF MigStages, Objects, MigInv
<1>2. MigInv'
  BY DEF MigInv
<1>3. /\ ExactlyOnePlace'
       /\ NoPhotoWithoutCard'
       /\ TxInv'
       /\ (\A o \in cleanup : o[1] \in used)'
       /\ CleanupIsDead'
       /\ DelKeysInv'
       /\ WipeInv'
       /\ WorkerInv'
       /\ FetchedAtMostOnce'
  BY DEF ExactlyOnePlace, NoPhotoWithoutCard, TxInv, CleanupIsDead, DelKeysInv, WipeInv, WorkerInv, FetchedAtMostOnce, InTx
<1> QED
  BY <1>1, <1>2, <1>3

(* The bytes of a photo go when its key comes. *)
LEMMA MigrateSetKeysIInv ==
  ASSUME IInv, MigrateSetKeys
  PROVE  IInv'
<1> USE GalleryAssumption DEF IInv, TypeOK, MigrateSetKeys, MigrationOver, dbVars, addVars, delVars, migVars, procVars
<1>1. TypeOK'
  BY DEF MigStages, MigInv
<1>2. ExactlyOnePlace'
  BY DEF ExactlyOnePlace, MigInv
<1>3. TxInv'
  BY DEF TxInv, InTx
<1>4. WipeInv'
  BY DEF WipeInv
<1>5. MigInv'
  BY DEF MigInv
<1>6. /\ NoPhotoWithoutCard'
       /\ (\A o \in cleanup : o[1] \in used)'
       /\ CleanupIsDead'
       /\ DelKeysInv'
       /\ WorkerInv'
       /\ FetchedAtMostOnce'
  BY DEF NoPhotoWithoutCard, CleanupIsDead, DelKeysInv, WorkerInv, FetchedAtMostOnce, InTx
<1> QED
  BY <1>1, <1>2, <1>3, <1>4, <1>5, <1>6

(* A failed migration leaves bytes or key as they are. *)
LEMMA MigrateFailIInv ==
  ASSUME IInv, MigrateFail
  PROVE  IInv'
<1> USE GalleryAssumption DEF IInv, TypeOK, MigrateFail, MigrationOver, dbVars, addVars, delVars, migVars, procVars
<1>1. TypeOK'
  BY DEF MigStages
<1>2. TxInv'
  BY DEF TxInv, InTx
<1>3. MigInv'
  BY DEF MigInv
<1>4. /\ ExactlyOnePlace'
       /\ NoPhotoWithoutCard'
       /\ (\A o \in cleanup : o[1] \in used)'
       /\ CleanupIsDead'
       /\ DelKeysInv'
       /\ WipeInv'
       /\ WorkerInv'
       /\ FetchedAtMostOnce'
  BY DEF ExactlyOnePlace, NoPhotoWithoutCard, CleanupIsDead, DelKeysInv, WipeInv, WorkerInv, FetchedAtMostOnce, InTx
<1> QED
  BY <1>1, <1>2, <1>3, <1>4

(* A restart ends every request: what is committed stays consistent. *)
LEMMA RestartIInv ==
  ASSUME IInv, Restart
  PROVE  IInv'
<1> USE GalleryAssumption DEF IInv, TypeOK, Restart, dbVars
<1>1. TypeOK'
  <2>1. stage' \in [Adders -> Stages] /\ photo' \in [Adders -> Images \cup {None}]
    BY DEF Stages
  <2>2. target' \in [Adders -> Products \cup {None}]
    OBVIOUS
  <2>3. queue' \in Seq(Products) /\ Len(queue') <= QueueCap
    OBVIOUS
  <2>4. origin' \in [Images -> Origins]
    BY DEF Origins
  <2>5. restarts' \in 0..MaxRestarts
    OBVIOUS
  <2>6. migStage' \in MigStages /\ delKeys' \in [Products -> SUBSET Objects]
    BY DEF MigStages
  <2> QED
    BY <2>1, <2>2, <2>3, <2>4, <2>5, <2>6
<1>2. ~ \E a \in Adders : InTx(a)'
  BY DEF InTx, TxStages
<1>3. ExactlyOnePlace' /\ NoPhotoWithoutCard'
  BY DEF ExactlyOnePlace, NoPhotoWithoutCard
<1>4. TxInv' /\ CleanupIsDead' /\ (\A o \in cleanup : o[1] \in used)'
  BY <1>2 DEF TxInv, CleanupIsDead
<1>5. DelKeysInv' /\ WipeInv' /\ MigInv'
  BY DEF DelKeysInv, WipeInv, MigInv
<1>6. \A i \in rows : origin'[i] = origin[i]
  BY DEF TxInv
<1>7. WorkerInv' /\ FetchedAtMostOnce'
  BY <1>6 DEF WorkerInv, FetchedAtMostOnce, Adders
<1> QED
  BY <1>1, <1>3, <1>4, <1>5, <1>7

(* Every step preserves the invariant. *)
LEMMA NextIInv == IInv /\ [Next]_vars => IInv'
<1> SUFFICES ASSUME IInv, [Next]_vars  PROVE IInv'
  OBVIOUS
<1>1. CASE UNCHANGED vars
  <2> USE <1>1 DEF IInv, vars, dbVars, addVars, delVars, migVars, procVars
  <2>1. TypeOK' /\ ExactlyOnePlace' /\ NoPhotoWithoutCard' /\ FetchedAtMostOnce'
    BY DEF TypeOK, ExactlyOnePlace, NoPhotoWithoutCard, FetchedAtMostOnce
  <2>2. /\ TxInv' /\ CleanupIsDead' /\ DelKeysInv' /\ WorkerInv'
        /\ (\A o \in cleanup : o[1] \in used)'
    BY DEF TxInv, CleanupIsDead, DelKeysInv, WorkerInv, InTx
  <2>3. WipeInv' /\ MigInv'
    BY DEF WipeInv, MigInv
  <2> QED
    BY <2>1, <2>2, <2>3
<1>2. ASSUME NEW a \in Adders, AddStep(a)  PROVE IInv'
  BY <1>2, AddCountIInv, AddInsertIInv, AddPutOriginalIInv, AddPutThumbIInv,
     AddCommitIInv, AddFailIInv DEF AddStep
<1>3. CASE DeleteStep
  BY <1>3, DeleteImageIInv, DeleteProductReadIInv, DeleteProductCommitIInv,
     DeleteProductFailIInv, CleanObjectIInv, WipeCommitIInv, WipePurgeIInv
     DEF DeleteStep
<1>4. CASE MigrateStep
  BY <1>4, MigrateListIInv, MigratePutOriginalIInv, MigratePutThumbIInv,
     MigrateSetKeysIInv, MigrateFailIInv DEF MigrateStep
<1> QED
  BY <1>1, <1>2, <1>3, <1>4, CreateProductIInv, EnqueuePhotoIInv,
     TakePhotoTaskIInv, RestartIInv DEF Next

(* The inductive invariant holds in every reachable state. *)
THEOREM GalleryInvariant == Spec => []IInv
<1>1. Init => IInv
  BY InitIInv
<1>2. IInv /\ [Next]_vars => IInv'
  BY NextIInv
<1> QED
  BY <1>1, <1>2, PTL DEF Spec

(* The variables have their types (TypeOK). *)
THEOREM TypeCorrect == Spec => []TypeOK
<1>1. IInv => TypeOK
  BY DEF IInv
<1> QED
  BY <1>1, GalleryInvariant, PTL

(* A committed photo is in Postgres or in S3, never in both or in none: the   *)
(* promise of GetData, whatever uploads, migrations and deletions overlap.    *)
THEOREM OnePlace == Spec => []ExactlyOnePlace
<1>1. IInv => ExactlyOnePlace
  BY DEF IInv
<1> QED
  BY <1>1, GalleryInvariant, PTL

(* No photo outlives its card (NoPhotoWithoutCard).                           *)
THEOREM CardOfEveryPhoto == Spec => []NoPhotoWithoutCard
<1>1. IInv => NoPhotoWithoutCard
  BY DEF IInv
<1> QED
  BY <1>1, GalleryInvariant, PTL

(* A best-effort removal of DeleteProduct or DeleteProductImage never hits a  *)
(* photo that is committed or being uploaded (CleanupIsDead).                 *)
THEOREM RemovalsAreDead == Spec => []CleanupIsDead
<1>1. IInv => CleanupIsDead
  BY DEF IInv
<1> QED
  BY <1>1, GalleryInvariant, PTL

(* The queue and its single worker give a card at most one downloaded photo.  *)
THEOREM OneFetchedPhoto == Spec => []FetchedAtMostOnce
<1>1. IInv => FetchedAtMostOnce
  BY DEF IInv
<1> QED
  BY <1>1, GalleryInvariant, PTL

----------------------------------------------------------------------------
(* Which step can make a key dangle *)

(* A step that keeps the objects dangles nothing unless it refers to more.    *)
LEMMA NoNewReference ==
  ASSUME objects \subseteq objects', Referenced' \subseteq Referenced \cup objects'
  PROVE  Dangling' \subseteq Dangling
BY DEF Dangling

LEMMA UploadsDangleNothing ==
  ASSUME IInv, NEW a \in Adders, AddStep(a)
  PROVE  Dangling' \subseteq Dangling
<1> USE DEF IInv, TypeOK, dbVars, addVars
<1>1. ASSUME NEW p \in Products, AddCount(a, p)  PROVE Dangling' \subseteq Dangling
  BY <1>1, NoNewReference DEF AddCount, StartsOn, Referenced, StoredBy
<1>2. ASSUME NEW i \in Images, AddInsert(a, i)  PROVE Dangling' \subseteq Dangling
  BY <1>2, NoNewReference DEF AddInsert, Referenced, StoredBy
<1>3. CASE AddPutOriginal(a)
  <2>1. StoredBy(a)' \subseteq objects'
    BY <1>3 DEF AddPutOriginal, StoredBy, ObjectsOf
  <2> QED
    BY <1>3, <2>1, NoNewReference DEF AddPutOriginal, Referenced, StoredBy
<1>4. CASE AddPutThumb(a)
  <2>1. StoredBy(a)' \subseteq StoredBy(a) \cup objects'
    BY <1>4 DEF AddPutThumb, StoredBy, ObjectsOf
  <2> QED
    BY <1>4, <2>1, NoNewReference DEF AddPutThumb, Referenced, StoredBy
<1>5. CASE AddCommit(a)
  <2>1. ObjectsOf(photo[a]) = StoredBy(a)
    BY <1>5 DEF AddCommit, StoredBy
  <2> QED
    BY <1>5, <2>1, NoNewReference DEF AddCommit, Return, Referenced, StoredBy
<1>6. CASE AddFail(a)
  BY <1>6, NoNewReference DEF AddFail, Return, Referenced, StoredBy
<1> QED
  BY <1>1, <1>2, <1>3, <1>4, <1>5, <1>6 DEF AddStep

(* Deletions remove objects of dead ids only; rows they only take away.       *)
LEMMA DeletionsDangleNothing ==
  ASSUME IInv, DeleteStep, ~WipePurge
  PROVE  Dangling' \subseteq Dangling
<1> USE DEF dbVars, addVars
<1>1. ASSUME NEW o \in Objects, CleanObject(o)  PROVE Dangling' \subseteq Dangling
  <2>1. \A i \in keyed : o \notin ObjectsOf(i)
    BY <1>1 DEF CleanObject, IInv, CleanupIsDead, ExactlyOnePlace, ObjectsOf
  <2>2. \A a \in Adders : o \notin StoredBy(a)
    BY <1>1 DEF CleanObject, IInv, CleanupIsDead, ObjectsOf, StoredBy, InTx, TxStages
  <2>3. Referenced' = Referenced
    BY <1>1 DEF CleanObject, Referenced, StoredBy
  <2> QED
    BY <1>1, <2>1, <2>2, <2>3 DEF CleanObject, Dangling, Referenced
<1>2. ASSUME UNCHANGED <<objects, stage, photo>>, keyed' \subseteq keyed
      PROVE  Dangling' \subseteq Dangling
  BY <1>2, NoNewReference DEF Referenced, StoredBy
<1>3. ASSUME NEW i \in Images, DeleteImage(i)  PROVE Dangling' \subseteq Dangling
  BY <1>2, <1>3 DEF DeleteImage, DropRows
<1>4. ASSUME NEW p \in Products,
             DeleteProductRead(p) \/ DeleteProductCommit(p) \/ DeleteProductFail(p)
      PROVE  Dangling' \subseteq Dangling
  BY <1>2, <1>4 DEF DeleteProductRead, DeleteProductCommit, DeleteProductFail, DropRows
<1>5. CASE WipeCommit
  BY <1>2, <1>5 DEF WipeCommit, DropRows
<1> QED
  BY <1>1, <1>3, <1>4, <1>5 DEF DeleteStep

(* The migration writes a key only when the objects are there.                *)
LEMMA MigrationDanglesNothing ==
  ASSUME IInv, MigrateStep
  PROVE  Dangling' \subseteq Dangling
<1> USE DEF dbVars, addVars
<1>1. ASSUME UNCHANGED <<keyed, stage, photo>>, objects \subseteq objects'
      PROVE  Dangling' \subseteq Dangling
  BY <1>1, NoNewReference DEF Referenced, StoredBy
<1>2. CASE MigrateList \/ MigrateFail
  BY <1>1, <1>2 DEF MigrateList, MigrateFail
<1>3. ASSUME NEW i \in Images, MigratePutOriginal(i)  PROVE Dangling' \subseteq Dangling
  BY <1>1, <1>3 DEF MigratePutOriginal
<1>4. CASE MigratePutThumb
  BY <1>1, <1>4 DEF MigratePutThumb
<1>5. CASE MigrateSetKeys
  <2>1. migPhoto \in rows => ObjectsOf(migPhoto) \subseteq objects
    BY <1>5 DEF MigrateSetKeys, IInv, MigInv, ObjectsOf
  <2> QED
    BY <1>5, <2>1, NoNewReference DEF MigrateSetKeys, Referenced, StoredBy
<1> QED
  BY <1>2, <1>3, <1>4, <1>5 DEF MigrateStep

(* Only DeletePrefix of an admin wipe can leave a row with a key to a removed *)
(* object (OnlyPurgeDangles): the rule both deletions state for themselves    *)
(* holds but for the window between the commit of a wipe and its clean-up.    *)
THEOREM KeysDangleByPurgeOnly == Spec => OnlyPurgeDangles
<1>1. IInv /\ [Next]_vars => [WipePurge \/ Dangling' \subseteq Dangling]_vars
  <2> SUFFICES ASSUME IInv, Next, ~WipePurge  PROVE Dangling' \subseteq Dangling
    OBVIOUS
  <2> USE DEF dbVars, addVars
  <2>1. ASSUME UNCHANGED <<objects, stage, photo, keyed>>
        PROVE  Dangling' \subseteq Dangling
    BY <2>1, NoNewReference DEF Referenced, StoredBy
  <2>2. ASSUME NEW p \in Products, CreateProduct(p) \/ EnqueuePhoto(p)
        PROVE  Dangling' \subseteq Dangling
    BY <2>1, <2>2 DEF CreateProduct, EnqueuePhoto
  <2>3. CASE TakePhotoTask
    BY <2>3, NoNewReference DEF TakePhotoTask, Referenced, StoredBy, IInv, TypeOK
  <2>4. CASE Restart
    BY <2>4, NoNewReference DEF Restart, Referenced, StoredBy
  <2> QED
    BY <2>2, <2>3, <2>4, UploadsDangleNothing, DeletionsDangleNothing,
       MigrationDanglesNothing DEF Next
<1> QED
  BY <1>1, GalleryInvariant, PTL DEF Spec, OnlyPurgeDangles

----------------------------------------------------------------------------
(* How far parallel uploads overshoot the limit of a gallery *)

(* Requests that have passed the count for p and not inserted visibly yet.    *)
Pending(p) ==
  {a \in Adders : stage[a] \in {"counted"} \cup TxStages /\ target[a] = p}

OvershootInv ==
  \A p \in Products :
    Cardinality(RowsOf(p)) + Cardinality(Pending(p))
      <= MaxImagesPerProduct + Cardinality(Uploads)

LEMMA AddersFinite ==
  /\ IsFiniteSet(Adders)
  /\ Cardinality(Adders) = Cardinality(Uploads) + 1
  /\ Cardinality(Uploads) \in Nat
BY GalleryAssumption, FS_AddElement, FS_CardinalityType DEF Adders

LEMMA CountsAreNumbers ==
  ASSUME TypeOK, NEW p \in Products
  PROVE  /\ IsFiniteSet(RowsOf(p)) /\ Cardinality(RowsOf(p)) \in Nat
         /\ IsFiniteSet(Pending(p)) /\ Cardinality(Pending(p)) \in Nat
         /\ Cardinality(Pending(p)) <= Cardinality(Uploads) + 1
<1>1. RowsOf(p) \in SUBSET Images /\ Pending(p) \in SUBSET Adders
  BY DEF RowsOf, Pending, TypeOK
<1> QED
  BY <1>1, AddersFinite, GalleryAssumption, FS_Subset, FS_CardinalityType

(* A gallery with no more photos and no more requests keeps its bound.        *)
LEMMA BoundShrinks ==
  ASSUME TypeOK, OvershootInv, NEW p \in Products,
         RowsOf(p)' \subseteq RowsOf(p), Pending(p)' \subseteq Pending(p)
  PROVE  (Cardinality(RowsOf(p)) + Cardinality(Pending(p)))'
           <= MaxImagesPerProduct + Cardinality(Uploads)
<1>1. /\ Cardinality(RowsOf(p)') <= Cardinality(RowsOf(p))
      /\ Cardinality(Pending(p)') <= Cardinality(Pending(p))
  BY CountsAreNumbers, FS_Subset
<1>2. /\ Cardinality(RowsOf(p)') \in Nat /\ Cardinality(Pending(p)') \in Nat
  BY CountsAreNumbers, FS_Subset, FS_CardinalityType
<1> QED
  BY <1>1, <1>2, CountsAreNumbers, AddersFinite, GalleryAssumption DEF OvershootInv

(* A request that becomes visible moves from one count to the other.          *)
LEMMA BoundMoves ==
  ASSUME TypeOK, OvershootInv, NEW p \in Products, NEW a \in Pending(p), NEW i,
         RowsOf(p)' = RowsOf(p) \cup {i}, Pending(p)' = Pending(p) \ {a}
  PROVE  (Cardinality(RowsOf(p)) + Cardinality(Pending(p)))'
           <= MaxImagesPerProduct + Cardinality(Uploads)
<1>1. /\ Cardinality(RowsOf(p)') <= Cardinality(RowsOf(p)) + 1
      /\ Cardinality(RowsOf(p)') \in Nat
  <2>1. Cardinality(RowsOf(p) \cup {i}) \in
          {Cardinality(RowsOf(p)), Cardinality(RowsOf(p)) + 1}
    BY CountsAreNumbers, FS_AddElement
  <2> QED
    BY <2>1, CountsAreNumbers
<1>2. /\ Cardinality(Pending(p)') = Cardinality(Pending(p)) - 1
  BY CountsAreNumbers, FS_RemoveElement
<1> QED
  BY <1>1, <1>2, CountsAreNumbers, AddersFinite, GalleryAssumption DEF OvershootInv

LEMMA InitOvershoot == Init => OvershootInv
<1> SUFFICES ASSUME Init, NEW p \in Products
             PROVE  Cardinality(RowsOf(p)) + Cardinality(Pending(p))
                      <= MaxImagesPerProduct + Cardinality(Uploads)
  BY DEF OvershootInv
<1>1. Pending(p) = {}
  BY DEF Init, Pending, TxStages
<1>2. p \notin products => RowsOf(p) = {}
  BY GalleryAssumption DEF Init, RowsOf
<1>3. Cardinality(RowsOf(p)) <= MaxImagesPerProduct
  <2>1. CASE p \in products
    BY <2>1 DEF Init
  <2>2. CASE p \notin products
    BY <1>2, <2>2, FS_EmptySet, GalleryAssumption
  <2> QED
    BY <2>1, <2>2
<1>4. Cardinality(RowsOf(p)) \in Nat
  BY InitIInv, CountsAreNumbers DEF IInv
<1> QED
  BY <1>1, <1>3, <1>4, FS_EmptySet, AddersFinite, GalleryAssumption

LEMMA AddOvershoot ==
  ASSUME IInv, OvershootInv, NEW a \in Adders, AddStep(a)
  PROVE  OvershootInv'
<1> SUFFICES ASSUME NEW p \in Products
             PROVE  (Cardinality(RowsOf(p)) + Cardinality(Pending(p)))'
                      <= MaxImagesPerProduct + Cardinality(Uploads)
  BY DEF OvershootInv
<1>t. TypeOK
  BY DEF IInv
<1> USE <1>t DEF TypeOK, dbVars, addVars
<1>1. ASSUME NEW q \in Products, AddCount(a, q)
      PROVE  (Cardinality(RowsOf(p)) + Cardinality(Pending(p)))'
               <= MaxImagesPerProduct + Cardinality(Uploads)
  <2>1. RowsOf(p)' = RowsOf(p)
    BY <1>1 DEF AddCount, RowsOf
  <2>2. CASE q = p
    <3>1. Cardinality(RowsOf(p)) < MaxImagesPerProduct
      BY <1>1, <2>2 DEF AddCount
    <3>2. Pending(p)' \in SUBSET Adders
      BY DEF Pending
    <3>3. /\ Cardinality(Pending(p)') <= Cardinality(Uploads) + 1
          /\ Cardinality(Pending(p)') \in Nat
      BY <3>2, AddersFinite, FS_Subset, FS_CardinalityType
    <3>4. Cardinality(RowsOf(p)) \in Nat
      BY CountsAreNumbers
    <3> QED
      BY <2>1, <3>1, <3>3, <3>4, AddersFinite, GalleryAssumption
  <2>3. CASE q # p
    <3>1. Pending(p)' \subseteq Pending(p)
      BY <1>1, <2>3 DEF AddCount, TxStages, StartsOn, Pending
    <3> QED
      BY <2>1, <3>1, BoundShrinks
  <2> QED
    BY <2>2, <2>3
<1>2. ASSUME NEW i \in Images, AddInsert(a, i)
      PROVE  (Cardinality(RowsOf(p)) + Cardinality(Pending(p)))'
               <= MaxImagesPerProduct + Cardinality(Uploads)
  <2>1. CASE s3 \/ target[a] # p
    <3>1. RowsOf(p)' \subseteq RowsOf(p) /\ Pending(p)' \subseteq Pending(p)
      BY <1>2, <2>1 DEF AddInsert, TxStages, RowsOf, Pending
    <3> QED
      BY <3>1, BoundShrinks
  <2>2. CASE ~s3 /\ target[a] = p
    <3>1. /\ a \in Pending(p)
          /\ RowsOf(p)' = RowsOf(p) \cup {i} /\ Pending(p)' = Pending(p) \ {a}
      BY <1>2, <2>2 DEF AddInsert, TxStages, RowsOf, Pending
    <3> QED
      BY <3>1, BoundMoves
  <2> QED
    BY <2>1, <2>2
<1>3. CASE AddPutOriginal(a) \/ AddPutThumb(a) \/ AddFail(a)
  <2>1. RowsOf(p)' \subseteq RowsOf(p) /\ Pending(p)' \subseteq Pending(p)
    BY <1>3 DEF AddPutOriginal, AddPutThumb, AddFail, Return, TxStages,
       RowsOf, Pending
  <2> QED
    BY <2>1, BoundShrinks
<1>4. CASE AddCommit(a)
  <2>1. owner[photo[a]] = target[a]
    BY <1>4 DEF AddCommit, IInv, TxInv, InTx, TxStages
  <2>2. CASE target[a] # p
    <3>1. RowsOf(p)' \subseteq RowsOf(p) /\ Pending(p)' \subseteq Pending(p)
      BY <1>4, <2>1, <2>2 DEF AddCommit, Return, TxStages, RowsOf, Pending
    <3> QED
      BY <3>1, BoundShrinks
  <2>3. CASE target[a] = p
    <3>1. /\ a \in Pending(p) /\ RowsOf(p)' = RowsOf(p) \cup {photo[a]}
          /\ Pending(p)' = Pending(p) \ {a}
      BY <1>4, <2>1, <2>3 DEF AddCommit, Return, TxStages, RowsOf, Pending
    <3> QED
      BY <3>1, BoundMoves
  <2> QED
    BY <2>2, <2>3
<1> QED
  BY <1>1, <1>2, <1>3, <1>4 DEF AddStep

LEMMA NextOvershoot == IInv /\ OvershootInv /\ [Next]_vars => OvershootInv'
<1> SUFFICES ASSUME IInv, OvershootInv, [Next]_vars  PROVE OvershootInv'
  OBVIOUS
<1>1. ASSUME \A p \in Products : /\ RowsOf(p)' \subseteq RowsOf(p)
                                 /\ Pending(p)' \subseteq Pending(p)
      PROVE  OvershootInv'
  BY <1>1, BoundShrinks DEF OvershootInv, IInv
<1> USE DEF RowsOf, Pending, dbVars, addVars
<1>2. ASSUME NEW a \in Adders, AddStep(a)  PROVE OvershootInv'
  BY <1>2, AddOvershoot
<1>3. CASE DeleteStep
  BY <1>1, <1>3 DEF DeleteStep, DeleteImage, DeleteProductRead, DropRows,
     DeleteProductCommit, DeleteProductFail, CleanObject, WipeCommit, WipePurge
<1>4. CASE MigrateStep
  BY <1>1, <1>4 DEF MigrateStep, MigrateList, MigratePutOriginal, MigratePutThumb,
     MigrateSetKeys, MigrateFail
<1>5. CASE TakePhotoTask \/ Restart
  BY <1>1, <1>5 DEF TakePhotoTask, Restart, TxStages, Adders, IInv, TypeOK
<1>6. ASSUME UNCHANGED <<rows, owner, stage, target>>  PROVE OvershootInv'
  BY <1>1, <1>6
<1>7. ASSUME NEW p \in Products, CreateProduct(p) \/ EnqueuePhoto(p)
      PROVE  OvershootInv'
  BY <1>6, <1>7 DEF CreateProduct, EnqueuePhoto
<1>8. CASE UNCHANGED vars
  BY <1>6, <1>8 DEF vars
<1> QED
  BY <1>2, <1>3, <1>4, <1>5, <1>7, <1>8 DEF Next

(* Parallel uploads pass the limit of a gallery by at most one photo each     *)
(* (OvershootBounded): what the count and the insert in one transaction do    *)
(* guarantee at READ COMMITTED.                                               *)
THEOREM LimitOvershoot == Spec => []OvershootBounded
<1>1. Init => OvershootInv
  BY InitOvershoot
<1>2. IInv /\ OvershootInv /\ [Next]_vars => OvershootInv'
  BY NextOvershoot
<1>3. IInv /\ OvershootInv => OvershootBounded
  BY CountsAreNumbers, AddersFinite, GalleryAssumption
     DEF IInv, OvershootInv, OvershootBounded
<1> QED
  BY <1>1, <1>2, <1>3, GalleryInvariant, PTL DEF Spec
=============================================================================
