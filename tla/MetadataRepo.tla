---------------------------- MODULE MetadataRepo ----------------------------
(***************************************************************************)
(* The repositories of metadata-service: the bbolt file as three maps, and *)
(* one operator per repository method.  A method runs in one bbolt         *)
(* transaction.  db.Update holds the file's single writer lock, commits    *)
(* all of its writes or none, and db.View reads one committed snapshot, so *)
(* each method is one step; a returned error rolls back what was written.  *)
(*                                                                         *)
(* A method that writes is a relation between the maps before and after    *)
(* and the error it returns ("ok" for none).  A method that only reads is  *)
(* a state function.                                                       *)
(***************************************************************************)
EXTENDS Naturals, FiniteSets

CONSTANTS
    Names,              \* bucket names a request may carry (no 0x00 byte)
    Owners,             \* owner ids a request may carry
    Keys,               \* object keys a request may carry
    Refs,               \* storage_ref values: the content hashes
    IndexableOwners,    \* the owner ids without a 0x00 byte
    StorableKeys,       \* the object keys without a 0x00 byte
    NoRecord            \* no value under this key

\* model.Bucket: the id and the timestamps carry no behaviour, and DeletedAt
\* only matters as set or unset.
Bucket == [owner : IndexableOwners, deleted : BOOLEAN]

\* model.Object, with the storage_ref as its content.
Object == [ref : Refs, deleted : BOOLEAN]

ASSUME RepoAssumption ==
    /\ IndexableOwners \subseteq Owners
    /\ StorableKeys \subseteq Keys
    /\ NoRecord \notin Bucket
    /\ NoRecord \notin Object
    /\ NoRecord \notin IndexableOwners \union Refs

VARIABLES
    records,            \* bolt bucket "buckets": name -> Bucket
    ownerIdx,           \* bolt bucket "bucket_owner_index": owner 0x00 name
    objects             \* bolt bucket "objects": name 0x00 key -> Object

repo == <<records, ownerIdx, objects>>

RepoErrors == {"ok", "NotFound", "AlreadyExists", "NotEmpty", "Internal"}

RepoTypeOK ==
    /\ records \in [Names -> Bucket \union {NoRecord}]
    /\ ownerIdx \subseteq IndexableOwners \X Names
    /\ objects \in [Names \X Keys -> Object \union {NoRecord}]

RepoInit ==
    /\ records = [n \in Names |-> NoRecord]
    /\ ownerIdx = {}
    /\ objects = [x \in Names \X Keys |-> NoRecord]

-----------------------------------------------------------------------------
(* Reads.                                                                  *)

\* BucketRepository.GetByName finds the bucket.
LiveBucket(n) == records[n] # NoRecord /\ ~records[n].deleted

\* ObjectRepository.Get finds the object.
LiveObject(n, k) == objects[<<n, k>>] # NoRecord /\ ~objects[<<n, k>>].deleted

\* BucketRepository.ListByOwner: scan the owner's index entries, resolve each
\* to its record by name, and skip the missing and the soft-deleted ones.
ListByOwner(o) == {n \in Names : <<o, n>> \in ownerIdx /\ LiveBucket(n)}

\* ObjectRepository.CountByBucketName and the scan of a bucket's objects.
LiveKeys(n) == {k \in Keys : LiveObject(n, k)}

-----------------------------------------------------------------------------
(* Writes.                                                                 *)

\* The bug of a create that does not look for a live record first.
BucketCreateUnchecked(n, o, err) ==
    /\ err = "ok"
    /\ o \in IndexableOwners
    /\ records' = [records EXCEPT ![n] = [owner |-> o, deleted |-> FALSE]]
    /\ ownerIdx' = ownerIdx \union {<<o, n>>}
    /\ UNCHANGED objects

\* BucketRepository.Create.  A soft-deleted record is overwritten.  The index
\* key is built after the record is put: an owner id with a separator byte
\* fails there and the record is rolled back.
BucketCreate(n, o, err) ==
    \/ /\ err = "AlreadyExists"
       /\ LiveBucket(n)
       /\ UNCHANGED repo
    \/ /\ err = "Internal"
       /\ ~LiveBucket(n)
       /\ o \notin IndexableOwners
       /\ UNCHANGED repo
    \/ /\ err = "ok"
       /\ ~LiveBucket(n)
       /\ o \in IndexableOwners
       /\ records' = [records EXCEPT ![n] = [owner |-> o, deleted |-> FALSE]]
       /\ ownerIdx' = ownerIdx \union {<<o, n>>}
       /\ UNCHANGED objects

\* The bug of a delete that forgets the owner index.
BucketDeleteKeepsIndex(n, err) ==
    /\ err = "ok"
    /\ LiveBucket(n)
    /\ LiveKeys(n) = {}
    /\ records' = [records EXCEPT ![n].deleted = TRUE]
    /\ UNCHANGED <<ownerIdx, objects>>

\* The bug of a delete that does not scan the objects.
BucketDeleteUnscanned(n, err) ==
    /\ err = "ok"
    /\ LiveBucket(n)
    /\ records' = [records EXCEPT ![n].deleted = TRUE]
    /\ ownerIdx' = ownerIdx \ {<<records[n].owner, n>>}
    /\ UNCHANGED objects

\* BucketRepository.Delete.  The index entry is deleted before the objects
\* are scanned; a live object, or a request context that ends during the
\* scan, returns an error and restores it.
BucketDelete(n, err) ==
    \/ /\ err = "NotFound"
       /\ ~LiveBucket(n)
       /\ UNCHANGED repo
    \/ /\ err = "NotEmpty"
       /\ LiveBucket(n)
       /\ LiveKeys(n) # {}
       /\ UNCHANGED repo
    \/ /\ err = "Internal"
       /\ LiveBucket(n)
       /\ \E k \in Keys : objects[<<n, k>>] # NoRecord
       /\ UNCHANGED repo
    \/ /\ err = "ok"
       /\ LiveBucket(n)
       /\ LiveKeys(n) = {}
       /\ records' = [records EXCEPT ![n].deleted = TRUE]
       /\ ownerIdx' = ownerIdx \ {<<records[n].owner, n>>}
       /\ UNCHANGED objects

\* ObjectRepository.Put: an unconditional upsert, which also brings back a
\* soft-deleted key.  It does not look at the bucket.
ObjectPut(n, k, ref, err) ==
    \/ /\ err = "Internal"
       /\ k \notin StorableKeys
       /\ UNCHANGED repo
    \/ /\ err = "ok"
       /\ k \in StorableKeys
       /\ objects' = [objects EXCEPT ![<<n, k>>] =
                                        [ref |-> ref, deleted |-> FALSE]]
       /\ UNCHANGED <<records, ownerIdx>>

\* The bug of a delete that does not read DeletedAt.
ObjectDeleteTwice(n, k, err) ==
    /\ err = "ok"
    /\ k \in StorableKeys
    /\ objects[<<n, k>>] # NoRecord
    /\ objects' = [objects EXCEPT ![<<n, k>>].deleted = TRUE]
    /\ UNCHANGED <<records, ownerIdx>>

\* ObjectRepository.Delete: a soft delete, refused on a missing or already
\* deleted object.
ObjectDelete(n, k, err) ==
    \/ /\ err = "Internal"
       /\ k \notin StorableKeys
       /\ UNCHANGED repo
    \/ /\ err = "NotFound"
       /\ k \in StorableKeys
       /\ ~LiveObject(n, k)
       /\ UNCHANGED repo
    \/ /\ err = "ok"
       /\ k \in StorableKeys
       /\ LiveObject(n, k)
       /\ objects' = [objects EXCEPT ![<<n, k>>].deleted = TRUE]
       /\ UNCHANGED <<records, ownerIdx>>
=============================================================================
