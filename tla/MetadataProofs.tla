--------------------------- MODULE MetadataProofs ---------------------------
(***************************************************************************)
(* Proofs about metadata-service for every set of names, owners, keys,     *)
(* contents and handlers.  MetadataInv is the inductive invariant: the     *)
(* owner index and the bucket records agree, and a put whose bucket check  *)
(* no deletion has overtaken still has its bucket.                         *)
(***************************************************************************)
EXTENDS Metadata, TLAPS

-----------------------------------------------------------------------------
(* What the repository transactions preserve.                              *)

\* Every repository write keeps the three maps well typed.
LEMMA RepoTypes ==
    ASSUME RepoTypeOK, NEW n \in Names, NEW err
    PROVE  /\ \A o \in Owners : BucketCreate(n, o, err) => RepoTypeOK'
           /\ BucketDelete(n, err) => RepoTypeOK'
           /\ \A k \in Keys, ref \in Refs : ObjectPut(n, k, ref, err) => RepoTypeOK'
           /\ \A k \in Keys : ObjectDelete(n, k, err) => RepoTypeOK'
<1>1. ASSUME NEW o \in Owners, BucketCreate(n, o, err)
      PROVE  RepoTypeOK'
  <2>1. CASE UNCHANGED repo
    BY <2>1 DEF RepoTypeOK, repo
  <2>2. CASE err = "ok"
    <3>1. [owner |-> o, deleted |-> FALSE] \in Bucket
      BY <1>1, <2>2 DEF BucketCreate, Bucket
    <3>2. /\ records' = [records EXCEPT ![n] = [owner |-> o, deleted |-> FALSE]]
          /\ ownerIdx' = ownerIdx \union {<<o, n>>}
          /\ o \in IndexableOwners
          /\ objects' = objects
      BY <1>1, <2>2 DEF BucketCreate
    <3>3. records' \in [Names -> Bucket \union {NoRecord}]
      BY <3>1, <3>2 DEF RepoTypeOK
    <3>4. QED
      BY <3>2, <3>3 DEF RepoTypeOK
  <2>3. QED
    BY <1>1, <2>1, <2>2 DEF BucketCreate
<1>2. ASSUME BucketDelete(n, err)
      PROVE  RepoTypeOK'
  BY <1>2 DEF BucketDelete, repo, RepoTypeOK, Bucket, LiveBucket
<1>3. ASSUME NEW k \in Keys, NEW ref \in Refs, ObjectPut(n, k, ref, err)
      PROVE  RepoTypeOK'
  <2>1. CASE UNCHANGED repo
    BY <2>1 DEF RepoTypeOK, repo
  <2>2. CASE err = "ok"
    <3>1. [ref |-> ref, deleted |-> FALSE] \in Object
      BY DEF Object
    <3>2. /\ objects' = [objects EXCEPT ![<<n, k>>] =
                                        [ref |-> ref, deleted |-> FALSE]]
          /\ UNCHANGED <<records, ownerIdx>>
      BY <1>3, <2>2 DEF ObjectPut
    <3>3. QED
      BY <3>1, <3>2 DEF RepoTypeOK
  <2>3. QED
    BY <1>3, <2>1, <2>2 DEF ObjectPut
<1>4. ASSUME NEW k \in Keys, ObjectDelete(n, k, err)
      PROVE  RepoTypeOK'
  BY <1>4 DEF ObjectDelete, repo, RepoTypeOK, Object, LiveObject
<1>5. QED
  BY <1>1, <1>2, <1>3, <1>4

\* A response is well typed whatever the error.
LEMMA RespondType ==
    ASSUME NEW op \in Ops, NEW n \in Names, NEW k \in Keys \union {Missing},
           NEW err, Respond(op, n, k, err)
    PROVE  reply' \in [op : Ops, at : Targets, status : Nat]
<1>1. WriteError(err) \in Nat
  BY DEF WriteError
<1>2. Success(op) \in Nat
  BY DEF Success
<1>3. QED
  BY <1>1, <1>2 DEF Respond, Targets

-----------------------------------------------------------------------------
(* Type correctness.                                                       *)

LEMMA TypeStep == TypeOK /\ [Next]_vars => TypeOK'
<1> SUFFICES ASSUME TypeOK, [Next]_vars
             PROVE  TypeOK'
  OBVIOUS
<1> USE DEF TypeOK
<1>1. ASSUME NEW n \in Names, NEW o \in Owners \union {Missing},
             CreateBucket(n, o)
      PROVE  TypeOK'
  <2>1. UNCHANGED <<pending, stale, lateOn>>
    BY <1>1 DEF CreateBucket
  <2>2. \E err : Respond("CreateBucket", n, Missing, err)
    BY <1>1 DEF CreateBucket, Reject
  <2>3. reply' \in [op : Ops, at : Targets, status : Nat]
    BY <2>2, RespondType DEF Ops
  <2>4. RepoTypeOK'
    <3>1. CASE UNCHANGED repo
      BY <3>1 DEF RepoTypeOK, repo
    <3>2. CASE o \in Owners /\ \E err \in RepoErrors : BucketCreate(n, o, err)
      BY <3>2, RepoTypes
    <3>3. QED
      BY <1>1, <3>1, <3>2 DEF CreateBucket, Reject
  <2>5. QED
    BY <2>1, <2>3, <2>4
<1>2. ASSUME NEW n \in Names, DeleteBucket(n)
      PROVE  TypeOK'
  <2>1. PICK err \in RepoErrors :
          /\ BucketDelete(n, err)
          /\ Respond("DeleteBucket", n, Missing, err)
          /\ stale' = IF err = "ok"
                      THEN stale \union {h \in Handlers :
                             pending[h] # NoPut /\ pending[h].name = n}
                      ELSE stale
    BY <1>2 DEF DeleteBucket
  <2>2. RepoTypeOK'
    BY <2>1, RepoTypes
  <2>3. reply' \in [op : Ops, at : Targets, status : Nat]
    BY <2>1, RespondType DEF Ops
  <2>4. stale' \subseteq Handlers
    BY <2>1
  <2>5. QED
    BY <1>2, <2>2, <2>3, <2>4 DEF DeleteBucket
<1>3. ASSUME NEW h \in Handlers, NEW n \in Names, NEW k \in Keys \union {Missing},
             NEW ref \in Refs \union {Missing}, PutObjectCheck(h, n, k, ref)
      PROVE  TypeOK'
  <2>1. CASE Reject("PutObject", n, k, "InvalidInput") /\ UNCHANGED pending
    BY <1>3, <2>1, RespondType DEF PutObjectCheck, Reject, Ops, RepoTypeOK, repo
  <2>2. CASE Reject("PutObject", n, k, "NotFound") /\ UNCHANGED pending
    BY <1>3, <2>2, RespondType DEF PutObjectCheck, Reject, Ops, RepoTypeOK, repo
  <2>3. CASE /\ k # Missing /\ ref # Missing
             /\ pending' = [pending EXCEPT ![h] =
                              [name |-> n, key |-> k, ref |-> ref]]
             /\ UNCHANGED <<records, ownerIdx, objects, reply>>
    <3>1. pending' \in [Handlers -> [name : Names, key : Keys, ref : Refs]
                                      \union {NoPut}]
      BY <2>3
    <3>2. QED
      BY <1>3, <2>3, <3>1 DEF PutObjectCheck, RepoTypeOK
  <2>4. QED
    BY <1>3, <2>1, <2>2, <2>3 DEF PutObjectCheck
<1>4. ASSUME NEW h \in Handlers, PutObjectWrite(h)
      PROVE  TypeOK'
  <2>1. PICK err \in RepoErrors :
          /\ ObjectPut(pending[h].name, pending[h].key, pending[h].ref, err)
          /\ Respond("PutObject", pending[h].name, pending[h].key, err)
          /\ lateOn' = IF err = "ok" /\ h \in stale
                       THEN lateOn \union {pending[h].name}
                       ELSE lateOn
    BY <1>4 DEF PutObjectWrite
  <2>2. /\ pending[h].name \in Names
        /\ pending[h].key \in Keys
        /\ pending[h].ref \in Refs
    BY <1>4 DEF PutObjectWrite
  <2>3. RepoTypeOK'
    BY <2>1, <2>2, RepoTypes
  <2>4. reply' \in [op : Ops, at : Targets, status : Nat]
    BY <2>1, <2>2, RespondType DEF Ops
  <2>5. lateOn' \subseteq Names
    BY <2>1, <2>2
  <2>6. QED
    BY <1>4, <2>3, <2>4, <2>5 DEF PutObjectWrite
<1>5. ASSUME NEW n \in Names, NEW k \in Keys \union {Missing}, DeleteObject(n, k)
      PROVE  TypeOK'
  <2>1. \E err : Respond("DeleteObject", n, k, err)
    BY <1>5 DEF DeleteObject, Reject
  <2>2. reply' \in [op : Ops, at : Targets, status : Nat]
    BY <2>1, RespondType DEF Ops
  <2>3. RepoTypeOK'
    <3>1. CASE UNCHANGED repo
      BY <3>1 DEF RepoTypeOK, repo
    <3>2. CASE k \in Keys /\ \E err \in RepoErrors : ObjectDelete(n, k, err)
      BY <3>2, RepoTypes
    <3>3. QED
      BY <1>5, <3>1, <3>2 DEF DeleteObject, Reject
  <2>4. QED
    BY <1>5, <2>2, <2>3 DEF DeleteObject
<1>6. CASE Restart
  BY <1>6 DEF Restart, RepoTypeOK
<1>7. CASE UNCHANGED vars
  BY <1>7 DEF vars, RepoTypeOK
<1>8. QED
  BY <1>1, <1>2, <1>3, <1>4, <1>5, <1>6, <1>7 DEF Next

\* metadata-service keeps its records, its index and its requests well typed.
THEOREM TypeCorrect == Spec => []TypeOK
<1>1. Init => TypeOK
  BY DEF Init, RepoInit, TypeOK, RepoTypeOK
<1>2. QED
  BY <1>1, TypeStep, PTL DEF Spec

-----------------------------------------------------------------------------
(* The inductive invariant, one lemma per kind of step.                    *)

\* A step that leaves the maps alone, admits no put and forgets no deletion
\* preserves the invariant.
LEMMA QuietStep ==
    ASSUME MetadataInv, TypeOK', UNCHANGED repo, lateOn' = lateOn,
           \A h \in Handlers \ stale' :
              pending'[h] # NoPut => h \notin stale /\ pending'[h] = pending[h]
    PROVE  MetadataInv'
BY DEF MetadataInv, OwnerIndexExact, CheckStillHolds, OrphanOnlyByLatePut,
       LiveBucket, LiveObject, repo

\* CreateBucket: a name that had no live bucket gets one, and one index entry.
LEMMA CreateStep ==
    ASSUME MetadataInv, TypeOK',
           NEW n \in Names, NEW o \in Owners \union {Missing}, CreateBucket(n, o)
    PROVE  MetadataInv'
<1>1. UNCHANGED <<pending, stale, lateOn>>
  BY DEF CreateBucket
<1>2. CASE UNCHANGED repo
  BY <1>1, <1>2, QuietStep
<1>3. CASE BucketCreate(n, o, "ok")
  <2>1. /\ ~LiveBucket(n)
        /\ o \in IndexableOwners
        /\ records' = [records EXCEPT ![n] = [owner |-> o, deleted |-> FALSE]]
        /\ ownerIdx' = ownerIdx \union {<<o, n>>}
        /\ objects' = objects
    BY <1>3 DEF BucketCreate
  <2>2. records \in [Names -> Bucket \union {NoRecord}]
    BY DEF MetadataInv, TypeOK, RepoTypeOK
  <2>3. [owner |-> o, deleted |-> FALSE] # NoRecord
    <3>1. [owner |-> o, deleted |-> FALSE] \in Bucket
      BY <2>1 DEF Bucket
    <3>2. QED
      BY <3>1, RepoAssumption
  <2>4. LiveBucket(n)' /\ records'[n].owner = o
    BY <2>1, <2>2, <2>3 DEF LiveBucket
  <2>5. \A m \in Names \ {n} : records'[m] = records[m]
                                 /\ (LiveBucket(m)' <=> LiveBucket(m))
    BY <2>1, <2>2 DEF LiveBucket
  <2>6. OwnerIndexExact'
    <3> SUFFICES ASSUME NEW p \in IndexableOwners, NEW m \in Names
                 PROVE  <<p, m>> \in ownerIdx'
                          <=> LiveBucket(m)' /\ records'[m].owner = p
      BY DEF OwnerIndexExact
    <3>1. CASE m = n
      BY <2>1, <2>4, <3>1 DEF MetadataInv, OwnerIndexExact
    <3>2. CASE m # n
      BY <2>1, <2>5, <3>2 DEF MetadataInv, OwnerIndexExact
    <3>3. QED
      BY <3>1, <3>2
  <2>7. CheckStillHolds'
    BY <1>1, <2>4, <2>5 DEF MetadataInv, TypeOK, CheckStillHolds
  <2>8. OrphanOnlyByLatePut'
    BY <1>1, <2>1, <2>4, <2>5 DEF MetadataInv, OrphanOnlyByLatePut, LiveObject
  <2>9. QED
    BY <2>6, <2>7, <2>8 DEF MetadataInv
<1>4. QED
  BY <1>2, <1>3 DEF CreateBucket, Reject, BucketCreate

\* DeleteBucket: the name loses its bucket and its index entry, no object of
\* it is live, and every put waiting on it is marked.
LEMMA DeleteStep ==
    ASSUME MetadataInv, TypeOK', NEW n \in Names, DeleteBucket(n)
    PROVE  MetadataInv'
<1>1. PICK err \in RepoErrors :
        /\ BucketDelete(n, err)
        /\ stale' = IF err = "ok"
                    THEN stale \union {h \in Handlers :
                           pending[h] # NoPut /\ pending[h].name = n}
                    ELSE stale
  BY DEF DeleteBucket
<1>2. UNCHANGED <<pending, lateOn>>
  BY DEF DeleteBucket
<1>3. CASE UNCHANGED repo
  BY <1>1, <1>2, <1>3, QuietStep DEF MetadataInv, TypeOK
<1>4. CASE err = "ok"
  <2>1. /\ LiveBucket(n)
        /\ \A k \in Keys : ~LiveObject(n, k)
        /\ records' = [records EXCEPT ![n].deleted = TRUE]
        /\ ownerIdx' = ownerIdx \ {<<records[n].owner, n>>}
        /\ objects' = objects
    BY <1>1, <1>4 DEF BucketDelete, LiveKeys
  <2>2. records \in [Names -> Bucket \union {NoRecord}]
    BY DEF MetadataInv, TypeOK, RepoTypeOK
  <2>3. records[n] \in Bucket
    BY <2>1, <2>2 DEF LiveBucket
  <2>4. ~LiveBucket(n)'
    BY <2>1, <2>2, <2>3 DEF LiveBucket, Bucket
  <2>5. \A m \in Names \ {n} : records'[m] = records[m]
                                 /\ (LiveBucket(m)' <=> LiveBucket(m))
    BY <2>1, <2>2 DEF LiveBucket
  <2>6. OwnerIndexExact'
    <3> SUFFICES ASSUME NEW p \in IndexableOwners, NEW m \in Names
                 PROVE  <<p, m>> \in ownerIdx'
                          <=> LiveBucket(m)' /\ records'[m].owner = p
      BY DEF OwnerIndexExact
    <3>1. CASE m = n
      BY <2>1, <2>4, <3>1 DEF MetadataInv, OwnerIndexExact
    <3>2. CASE m # n
      BY <2>1, <2>5, <3>2 DEF MetadataInv, OwnerIndexExact
    <3>3. QED
      BY <3>1, <3>2
  <2>7. CheckStillHolds'
    BY <1>1, <1>2, <1>4, <2>5 DEF MetadataInv, TypeOK, CheckStillHolds
  <2>8. OrphanOnlyByLatePut'
    BY <1>2, <2>1, <2>5 DEF MetadataInv, OrphanOnlyByLatePut, LiveObject
  <2>9. QED
    BY <2>6, <2>7, <2>8 DEF MetadataInv
<1>5. QED
  BY <1>1, <1>3, <1>4 DEF BucketDelete

\* PutObject's check: the put it admits has a live bucket at that instant.
LEMMA CheckStep ==
    ASSUME MetadataInv, TypeOK', NEW h \in Handlers, NEW n \in Names,
           NEW k \in Keys \union {Missing}, NEW ref \in Refs \union {Missing},
           PutObjectCheck(h, n, k, ref)
    PROVE  MetadataInv'
<1>1. UNCHANGED <<records, ownerIdx, objects, stale, lateOn>>
  BY DEF PutObjectCheck, Reject, repo
<1>2. CASE UNCHANGED pending
  BY <1>1, <1>2, QuietStep DEF repo
<1>3. CASE /\ LiveBucket(n)
           /\ pending' = [pending EXCEPT ![h] =
                            [name |-> n, key |-> k, ref |-> ref]]
  BY <1>1, <1>3 DEF MetadataInv, TypeOK, OwnerIndexExact, CheckStillHolds,
                    OrphanOnlyByLatePut, LiveBucket, LiveObject
<1>4. QED
  BY <1>2, <1>3 DEF PutObjectCheck

\* PutObject's write: the object lands in the live bucket the check saw, or
\* the put was overtaken and its name is recorded.
LEMMA WriteStep ==
    ASSUME MetadataInv, TypeOK', NEW h \in Handlers, PutObjectWrite(h)
    PROVE  MetadataInv'
<1> DEFINE put == pending[h]
<1>1. PICK err \in RepoErrors :
        /\ ObjectPut(put.name, put.key, put.ref, err)
        /\ lateOn' = IF err = "ok" /\ h \in stale
                     THEN lateOn \union {put.name}
                     ELSE lateOn
  BY DEF PutObjectWrite
<1>2. /\ put # NoPut
      /\ pending' = [pending EXCEPT ![h] = NoPut]
      /\ stale' = stale \ {h}
  BY DEF PutObjectWrite
<1>3. put.name \in Names /\ put.key \in Keys
  BY <1>2 DEF MetadataInv, TypeOK
<1>4. UNCHANGED <<records, ownerIdx>>
  BY <1>1 DEF ObjectPut, repo
<1>5. OwnerIndexExact'
  BY <1>4 DEF MetadataInv, OwnerIndexExact, LiveBucket
<1>6. CheckStillHolds'
  BY <1>2, <1>4 DEF MetadataInv, TypeOK, CheckStillHolds, LiveBucket
<1>7. OrphanOnlyByLatePut'
  <2> SUFFICES ASSUME NEW m \in Names \ lateOn', NEW j \in Keys, LiveObject(m, j)'
               PROVE  LiveBucket(m)'
    BY DEF OrphanOnlyByLatePut
  <2>1. m \notin lateOn
    BY <1>1
  <2>2. CASE LiveObject(m, j)
    BY <1>4, <2>1, <2>2 DEF MetadataInv, OrphanOnlyByLatePut, LiveBucket
  <2>3. CASE ~LiveObject(m, j)
    <3>1. err = "ok" /\ m = put.name
      BY <1>1, <1>3, <2>3 DEF ObjectPut, LiveObject, repo, MetadataInv, TypeOK,
                              RepoTypeOK
    <3>2. h \notin stale
      BY <1>1, <3>1
    <3>3. LiveBucket(m)
      BY <1>2, <3>1, <3>2 DEF MetadataInv, CheckStillHolds
    <3>4. QED
      BY <1>4, <3>3 DEF LiveBucket
  <2>4. QED
    BY <2>2, <2>3
<1>8. QED
  BY <1>5, <1>6, <1>7 DEF MetadataInv

\* DeleteObject only takes live objects away.
LEMMA UnlinkStep ==
    ASSUME MetadataInv, TypeOK', NEW n \in Names, NEW k \in Keys \union {Missing},
           DeleteObject(n, k)
    PROVE  MetadataInv'
<1>1. UNCHANGED <<pending, stale, lateOn>>
  BY DEF DeleteObject
<1>2. CASE UNCHANGED repo
  BY <1>1, <1>2, QuietStep
<1>3. CASE ObjectDelete(n, k, "ok")
  <2>1. /\ LiveObject(n, k)
        /\ k \in Keys
        /\ objects' = [objects EXCEPT ![<<n, k>>].deleted = TRUE]
        /\ UNCHANGED <<records, ownerIdx>>
    BY <1>3, RepoAssumption DEF ObjectDelete
  <2>2. \A m \in Names, j \in Keys : LiveObject(m, j)' => LiveObject(m, j)
    BY <2>1 DEF LiveObject, MetadataInv, TypeOK, RepoTypeOK
  <2>3. QED
    BY <1>1, <2>1, <2>2 DEF MetadataInv, OwnerIndexExact, CheckStillHolds,
                            OrphanOnlyByLatePut, LiveBucket
<1>4. QED
  BY <1>2, <1>3 DEF DeleteObject, Reject, ObjectDelete

\* MetadataInv holds in every reachable state.
THEOREM Invariance == Spec => []MetadataInv
<1>1. Init => MetadataInv
  <2> SUFFICES ASSUME Init
               PROVE  MetadataInv
    OBVIOUS
  <2>1. TypeOK
    BY DEF Init, RepoInit, TypeOK, RepoTypeOK
  <2>2. QED
    BY <2>1 DEF Init, RepoInit, MetadataInv, OwnerIndexExact, CheckStillHolds,
                OrphanOnlyByLatePut, LiveBucket, LiveObject
<1>2. MetadataInv /\ [Next]_vars => MetadataInv'
  <2> SUFFICES ASSUME MetadataInv, [Next]_vars
               PROVE  MetadataInv'
    OBVIOUS
  <2>1. TypeOK'
    BY TypeStep DEF MetadataInv
  <2>2. CASE Restart
    BY <2>1, <2>2, QuietStep DEF Restart, repo
  <2>3. CASE UNCHANGED vars
    BY <2>1, <2>3, QuietStep DEF vars, repo
  <2>4. QED
    BY <2>1, <2>2, <2>3, CreateStep, DeleteStep, CheckStep, WriteStep, UnlinkStep
       DEF Next
<1>3. QED
  BY <1>1, <1>2, PTL DEF Spec

-----------------------------------------------------------------------------
(* What follows from it.                                                   *)

\* A listing by owner is exactly that owner's live buckets, always.
THEOREM ListingExact == Spec => []OwnerListingExact
<1>1. MetadataInv => OwnerListingExact
  BY DEF MetadataInv, OwnerIndexExact, OwnerListingExact, ListByOwner
<1>2. QED
  BY <1>1, Invariance, PTL

\* Only a put overtaken by a deletion leaves an object without its bucket.
THEOREM OrphansOnlyByLatePut == Spec => []OrphanOnlyByLatePut
<1>1. MetadataInv => OrphanOnlyByLatePut
  BY DEF MetadataInv
<1>2. QED
  BY <1>1, Invariance, PTL

\* A step that leaves a bucket live leaves it with its owner; one that ends
\* it found it empty.
LEMMA OwnerKept ==
    ASSUME TypeOK, [Next]_vars, NEW n \in Names
    PROVE  LiveBucket(n) =>
             \/ LiveBucket(n)' /\ records'[n].owner = records[n].owner
             \/ ~LiveBucket(n)' /\ \A k \in Keys : ~LiveObject(n, k)'
<1> DEFINE Keeps == LiveBucket(n) =>
             \/ LiveBucket(n)' /\ records'[n].owner = records[n].owner
             \/ ~LiveBucket(n)' /\ \A k \in Keys : ~LiveObject(n, k)'
<1>1. CASE records' = records
  BY <1>1 DEF LiveBucket
<1>2. ASSUME NEW m \in Names, NEW o \in Owners \union {Missing},
             CreateBucket(m, o), records' # records
      PROVE  Keeps
  <2>1. ~LiveBucket(m) /\ \E r \in Bucket : records' = [records EXCEPT ![m] = r]
    BY <1>2 DEF CreateBucket, Reject, BucketCreate, repo, Bucket
  <2>2. QED
    BY <2>1 DEF LiveBucket, TypeOK, RepoTypeOK
<1>3. ASSUME NEW m \in Names, DeleteBucket(m), records' # records
      PROVE  Keeps
  <2>1. /\ \A k \in Keys : ~LiveObject(m, k)
        /\ records' = [records EXCEPT ![m].deleted = TRUE]
        /\ objects' = objects
    BY <1>3 DEF DeleteBucket, BucketDelete, LiveKeys, repo
  <2>2. CASE n = m
    BY <2>1, <2>2 DEF LiveBucket, LiveObject, TypeOK, RepoTypeOK, Bucket
  <2>3. CASE n # m
    BY <2>1, <2>3 DEF LiveBucket, TypeOK, RepoTypeOK
  <2>4. QED
    BY <2>2, <2>3
<1>4. QED
  BY <1>1, <1>2, <1>3
     DEF Next, vars, repo, PutObjectCheck, PutObjectWrite, DeleteObject,
         Restart, Reject, ObjectPut, ObjectDelete

\* A bucket keeps its owner until a deletion that found it empty.
THEOREM Lifecycle == Spec => BucketLifecycle
<1>1. TypeOK /\ [Next]_vars =>
        [\A n \in Names : LiveBucket(n) =>
            \/ LiveBucket(n)' /\ records'[n].owner = records[n].owner
            \/ ~LiveBucket(n)' /\ \A k \in Keys : ~LiveObject(n, k)']_vars
  BY OwnerKept
<1>2. QED
  BY <1>1, TypeCorrect, PTL DEF Spec, BucketLifecycle

-----------------------------------------------------------------------------
(* The service implements the abstract directory.                          *)

\* The directory's answer to a response that reports err.
LEMMA AnswerStep ==
    ASSUME NEW op \in Ops, NEW n \in Names, NEW k \in Keys \union {Missing},
           NEW err, Respond(op, n, k, err)
    PROVE  Dir!Answer(op, n, k, IF err = "ok" THEN "Done"
                                      ELSE Result(WriteError(err)))
<1>1. reply' # Missing
  BY RespondType, MetadataAssumption
<1>2. Result(Success(op)) = "Done"
  BY DEF Result, Success
<1>3. reply'.op = op /\ reply'.at = <<n, k>>
      /\ Result(reply'.status) =
           IF err = "ok" THEN "Done" ELSE Result(WriteError(err))
  BY <1>2 DEF Respond
<1>4. QED
  BY <1>1, <1>3 DEF Dir!Answer, DirAnswer

\* The directory has an owner, or a content, exactly where the service has a
\* live record.
LEMMA Mapped ==
    ASSUME TypeOK
    PROVE  /\ \A n \in Names : DirOwner[n] = NoRecord <=> ~LiveBucket(n)
           /\ \A n \in Names, k \in Keys :
                DirContent[<<n, k>>] = NoRecord <=> ~LiveObject(n, k)
           /\ \A n \in Names : Dir!Empty(n) <=> LiveKeys(n) = {}
<1>1. \A n \in Names : DirOwner[n] = NoRecord <=> ~LiveBucket(n)
  BY RepoAssumption DEF DirOwner, LiveBucket, TypeOK, RepoTypeOK, Bucket
<1>2. \A n \in Names, k \in Keys :
        DirContent[<<n, k>>] = NoRecord <=> ~LiveObject(n, k)
  BY RepoAssumption DEF DirContent, LiveObject, TypeOK, RepoTypeOK, Object
<1>3. QED
  BY <1>1, <1>2 DEF Dir!Empty, LiveKeys

\* Maps left alone are seen unchanged, through a deletion's index entry too.
LEMMA QuietMapped ==
    ASSUME UNCHANGED <<records, objects>>
    PROVE  UNCHANGED <<DirOwner, DirContent>>
BY DEF DirOwner, DirContent, LiveBucket, LiveObject

\* A bucket appears.
LEMMA CreateMapped ==
    ASSUME TypeOK, NEW n \in Names, NEW o \in Owners, BucketCreate(n, o, "ok")
    PROVE  /\ o \in IndexableOwners /\ ~LiveBucket(n)
           /\ DirOwner' = [DirOwner EXCEPT ![n] = o] /\ DirContent' = DirContent
<1>1. /\ ~LiveBucket(n)
      /\ o \in IndexableOwners
      /\ records' = [records EXCEPT ![n] = [owner |-> o, deleted |-> FALSE]]
      /\ objects' = objects
  BY DEF BucketCreate
<1>2. [owner |-> o, deleted |-> FALSE] # NoRecord
  <2>1. [owner |-> o, deleted |-> FALSE] \in Bucket
    BY <1>1 DEF Bucket
  <2>2. QED
    BY <2>1, RepoAssumption
<1>3. DirOwner' = [DirOwner EXCEPT ![n] = o]
  BY <1>1, <1>2 DEF DirOwner, LiveBucket, TypeOK, RepoTypeOK
<1>4. DirContent' = DirContent
  BY <1>1 DEF DirContent, LiveObject
<1>5. QED
  BY <1>1, <1>3, <1>4

\* A bucket goes.
LEMMA DeleteMapped ==
    ASSUME TypeOK, NEW n \in Names, BucketDelete(n, "ok")
    PROVE  /\ LiveBucket(n) /\ LiveKeys(n) = {}
           /\ DirOwner' = [DirOwner EXCEPT ![n] = NoRecord]
           /\ DirContent' = DirContent
<1>1. /\ LiveBucket(n)
      /\ LiveKeys(n) = {}
      /\ records' = [records EXCEPT ![n].deleted = TRUE]
      /\ objects' = objects
  BY DEF BucketDelete
<1>2. DirOwner' = [DirOwner EXCEPT ![n] = NoRecord]
  BY <1>1 DEF DirOwner, LiveBucket, TypeOK, RepoTypeOK, Bucket
<1>3. DirContent' = DirContent
  BY <1>1 DEF DirContent, LiveObject
<1>4. QED
  BY <1>1, <1>2, <1>3

\* An object gets a content.
LEMMA PutMapped ==
    ASSUME TypeOK, NEW n \in Names, NEW k \in Keys, NEW ref \in Refs,
           ObjectPut(n, k, ref, "ok")
    PROVE  /\ DirContent' = [DirContent EXCEPT ![<<n, k>>] = ref]
           /\ DirOwner' = DirOwner
<1>1. /\ objects' = [objects EXCEPT ![<<n, k>>] = [ref |-> ref, deleted |-> FALSE]]
      /\ records' = records
  BY DEF ObjectPut
<1>2. [ref |-> ref, deleted |-> FALSE] # NoRecord
  <2>1. [ref |-> ref, deleted |-> FALSE] \in Object
    BY DEF Object
  <2>2. QED
    BY <2>1, RepoAssumption
<1>3. DirContent' = [DirContent EXCEPT ![<<n, k>>] = ref]
  <2> SUFFICES ASSUME NEW x \in Names \X Keys
               PROVE  DirContent'[x] = IF x = <<n, k>> THEN ref ELSE DirContent[x]
    BY DEF DirContent
  <2>1. x = <<x[1], x[2]>>
    OBVIOUS
  <2>2. objects'[x] = IF x = <<n, k>> THEN [ref |-> ref, deleted |-> FALSE]
                                      ELSE objects[x]
    BY <1>1 DEF TypeOK, RepoTypeOK
  <2>3. QED
    BY <1>2, <2>1, <2>2 DEF DirContent, LiveObject
<1>4. DirOwner' = DirOwner
  BY <1>1 DEF DirOwner, LiveBucket
<1>5. QED
  BY <1>3, <1>4

\* An object goes.
LEMMA UnlinkMapped ==
    ASSUME TypeOK, NEW n \in Names, NEW k \in Keys, ObjectDelete(n, k, "ok")
    PROVE  /\ LiveObject(n, k)
           /\ DirContent' = [DirContent EXCEPT ![<<n, k>>] = NoRecord]
           /\ DirOwner' = DirOwner
<1>1. /\ LiveObject(n, k)
      /\ objects' = [objects EXCEPT ![<<n, k>>].deleted = TRUE]
      /\ records' = records
  BY DEF ObjectDelete
<1>2. DirContent' = [DirContent EXCEPT ![<<n, k>>] = NoRecord]
  <2> SUFFICES ASSUME NEW x \in Names \X Keys
               PROVE  DirContent'[x] =
                        IF x = <<n, k>> THEN NoRecord ELSE DirContent[x]
    BY DEF DirContent
  <2>1. x = <<x[1], x[2]>>
    OBVIOUS
  <2>2. CASE x = <<n, k>>
    BY <1>1, <2>2 DEF DirContent, LiveObject, TypeOK, RepoTypeOK, Object
  <2>3. CASE x # <<n, k>>
    BY <1>1, <2>1, <2>3 DEF DirContent, LiveObject, TypeOK, RepoTypeOK
  <2>4. QED
    BY <2>2, <2>3
<1>3. DirOwner' = DirOwner
  BY <1>1 DEF DirOwner, LiveBucket
<1>4. QED
  BY <1>1, <1>2, <1>3

\* A request that leaves the maps alone is an answer without effect.
LEMMA RefuseStep ==
    ASSUME UNCHANGED repo, NEW op \in Ops, NEW n \in Names,
           NEW k \in Keys \union {Missing},
           NEW err, err # "ok", Respond(op, n, k, err)
    PROVE  Dir!Refuse(op, n, k, Result(WriteError(err)))
<1>1. DirOwner' = DirOwner /\ DirContent' = DirContent
  BY QuietMapped DEF repo
<1>2. QED
  BY <1>1, AnswerStep DEF Dir!Refuse

\* What the error kinds become.
LEMMA Results ==
    /\ Result(WriteError("NotFound")) = "NotFound"
    /\ Result(WriteError("AlreadyExists")) = "Conflict"
    /\ Result(WriteError("NotEmpty")) = "Conflict"
    /\ Result(WriteError("InvalidInput")) = "BadRequest"
    /\ Result(WriteError("Internal")) = "Error"
BY DEF Result, WriteError

\* A rejected or failed request is the directory's Fail.
LEMMA FailStep ==
    ASSUME UNCHANGED repo, NEW op \in Ops, NEW n \in Names,
           NEW k \in Keys \union {Missing},
           NEW err \in {"InvalidInput", "Internal"}, Respond(op, n, k, err)
    PROVE  Dir!Next
<1>1. Dir!Refuse(op, n, k, Result(WriteError(err)))
  BY RefuseStep
<1>2. Dir!Fail(op, n, k)
  BY <1>1, Results DEF Dir!Fail
<1>3. QED
  BY <1>2 DEF Dir!Next, Ops

\* CreateBucket is the directory's Create.
LEMMA CreateRefines ==
    ASSUME TypeOK, NEW n \in Names, NEW o \in Owners \union {Missing},
           CreateBucket(n, o)
    PROVE  Dir!Next
<1>1. CASE Reject("CreateBucket", n, Missing, "InvalidInput")
  BY <1>1, FailStep DEF Reject, Ops
<1>2. ASSUME NEW err \in RepoErrors, BucketCreate(n, o, err),
             Respond("CreateBucket", n, Missing, err), o \in Owners
      PROVE  Dir!Next
  <2>1. CASE err = "Internal"
    BY <1>2, <2>1, FailStep DEF BucketCreate, Ops
  <2>2. CASE err = "AlreadyExists"
    <3>1. Dir!Refuse("CreateBucket", n, Missing, "Conflict")
      BY <1>2, <2>2, RefuseStep, Results DEF BucketCreate, Ops
    <3>2. DirOwner[n] # NoRecord
      BY <1>2, <2>2, Mapped DEF BucketCreate
    <3>3. \E p \in IndexableOwners : Dir!Create(n, p)
      <4>1. records[n].owner \in IndexableOwners
        BY <1>2, <2>2 DEF BucketCreate, LiveBucket, TypeOK, RepoTypeOK, Bucket
      <4>2. QED
        BY <3>1, <3>2, <4>1 DEF Dir!Create
    <3>4. QED
      BY <3>3 DEF Dir!Next
  <2>3. CASE err = "ok"
    <3>1. /\ ~LiveBucket(n) /\ o \in IndexableOwners
          /\ DirOwner' = [DirOwner EXCEPT ![n] = o]
          /\ DirContent' = DirContent
      BY <1>2, <2>3, CreateMapped
    <3>2. Dir!Answer("CreateBucket", n, Missing, "Done")
      BY <1>2, <2>3, AnswerStep DEF Ops
    <3>3. Dir!Create(n, o)
      BY <3>1, <3>2, Mapped DEF Dir!Create
    <3>4. QED
      BY <3>1, <3>3 DEF Dir!Next
  <2>4. QED
    BY <1>2, <2>1, <2>2, <2>3 DEF BucketCreate
<1>3. QED
  BY <1>1, <1>2 DEF CreateBucket

\* DeleteBucket is the directory's Remove.
LEMMA DeleteRefines ==
    ASSUME TypeOK, NEW n \in Names, DeleteBucket(n)
    PROVE  Dir!Next
<1>1. PICK err \in RepoErrors :
        BucketDelete(n, err) /\ Respond("DeleteBucket", n, Missing, err)
  BY DEF DeleteBucket
<1>2. CASE err = "Internal"
  BY <1>1, <1>2, FailStep DEF BucketDelete, Ops
<1>3. CASE err = "NotFound"
  <2>1. Dir!Refuse("DeleteBucket", n, Missing, "NotFound")
    BY <1>1, <1>3, RefuseStep, Results DEF BucketDelete, Ops
  <2>2. Dir!Remove(n)
    BY <1>1, <1>3, <2>1, Mapped DEF BucketDelete, Dir!Remove
  <2>3. QED
    BY <2>2 DEF Dir!Next
<1>4. CASE err = "NotEmpty"
  <2>1. Dir!Refuse("DeleteBucket", n, Missing, "Conflict")
    BY <1>1, <1>4, RefuseStep, Results DEF BucketDelete, Ops
  <2>2. Dir!Remove(n)
    BY <1>1, <1>4, <2>1, Mapped DEF BucketDelete, Dir!Remove
  <2>3. QED
    BY <2>2 DEF Dir!Next
<1>5. CASE err = "ok"
  <2>1. /\ LiveBucket(n) /\ LiveKeys(n) = {}
        /\ DirOwner' = [DirOwner EXCEPT ![n] = NoRecord]
        /\ DirContent' = DirContent
    BY <1>1, <1>5, DeleteMapped
  <2>2. Dir!Answer("DeleteBucket", n, Missing, "Done")
    BY <1>1, <1>5, AnswerStep DEF Ops
  <2>3. Dir!Remove(n)
    BY <2>1, <2>2, Mapped DEF Dir!Remove
  <2>4. QED
    BY <2>3 DEF Dir!Next
<1>6. QED
  BY <1>1, <1>2, <1>3, <1>4, <1>5 DEF BucketDelete

\* A refused PutObject is an answer, an admitted one changes nothing yet.
LEMMA CheckRefines ==
    ASSUME TypeOK, NEW h \in Handlers, NEW n \in Names,
           NEW k \in Keys \union {Missing}, NEW ref \in Refs \union {Missing},
           PutObjectCheck(h, n, k, ref)
    PROVE  [Dir!Next]_(Dir!vars)
<1>1. CASE Reject("PutObject", n, k, "InvalidInput")
  BY <1>1, FailStep DEF Reject, Ops
<1>2. CASE k # Missing /\ ~LiveBucket(n) /\ Reject("PutObject", n, k, "NotFound")
  <2>1. Dir!Refuse("PutObject", n, k, "NotFound")
    BY <1>2, RefuseStep, Results DEF Reject, Ops
  <2>2. Dir!StoreNoBucket(n, k)
    BY <1>2, <2>1, Mapped DEF Dir!StoreNoBucket
  <2>3. QED
    BY <1>2, <2>2 DEF Dir!Next
<1>3. CASE UNCHANGED <<records, ownerIdx, objects, reply>>
  BY <1>3 DEF Dir!vars, DirOwner, DirContent, DirAnswer, LiveBucket, LiveObject
<1>4. QED
  BY <1>1, <1>2, <1>3 DEF PutObjectCheck

\* PutObject's write is the directory's Store.
LEMMA WriteRefines ==
    ASSUME TypeOK, NEW h \in Handlers, PutObjectWrite(h)
    PROVE  Dir!Next
<1> DEFINE n == pending[h].name
           k == pending[h].key
           ref == pending[h].ref
<1>1. n \in Names /\ k \in Keys /\ ref \in Refs
  BY DEF PutObjectWrite, TypeOK
<1>2. PICK err \in RepoErrors :
        ObjectPut(n, k, ref, err) /\ Respond("PutObject", n, k, err)
  BY DEF PutObjectWrite
<1> HIDE DEF n, k, ref
<1>3. CASE err = "Internal"
  BY <1>1, <1>2, <1>3, FailStep DEF ObjectPut, Ops
<1>4. CASE err = "ok"
  <2>1. /\ DirContent' = [DirContent EXCEPT ![<<n, k>>] = ref]
        /\ DirOwner' = DirOwner
    BY <1>1, <1>2, <1>4, PutMapped
  <2>2. Dir!Answer("PutObject", n, k, "Done")
    BY <1>1, <1>2, <1>4, AnswerStep DEF Ops
  <2>3. Dir!Store(n, k, ref)
    BY <2>1, <2>2 DEF Dir!Store
  <2>4. QED
    BY <1>1, <2>3 DEF Dir!Next
<1>5. QED
  BY <1>2, <1>3, <1>4 DEF ObjectPut

\* DeleteObject is the directory's Unlink.
LEMMA UnlinkRefines ==
    ASSUME TypeOK, NEW n \in Names, NEW k \in Keys \union {Missing},
           DeleteObject(n, k)
    PROVE  Dir!Next
<1>1. CASE Reject("DeleteObject", n, k, "InvalidInput")
  BY <1>1, FailStep DEF Reject, Ops
<1>2. ASSUME NEW err \in RepoErrors, ObjectDelete(n, k, err),
             Respond("DeleteObject", n, k, err), k \in Keys
      PROVE  Dir!Next
  <2>1. CASE err = "Internal"
    BY <1>2, <2>1, FailStep DEF ObjectDelete, Ops
  <2>2. CASE err = "NotFound"
    <3>1. Dir!Refuse("DeleteObject", n, k, "NotFound")
      BY <1>2, <2>2, RefuseStep, Results DEF ObjectDelete, Ops
    <3>2. Dir!Unlink(n, k)
      BY <1>2, <2>2, <3>1, Mapped DEF ObjectDelete, Dir!Unlink
    <3>3. QED
      BY <1>2, <3>2 DEF Dir!Next
  <2>3. CASE err = "ok"
    <3>1. /\ LiveObject(n, k)
          /\ DirContent' = [DirContent EXCEPT ![<<n, k>>] = NoRecord]
          /\ DirOwner' = DirOwner
      BY <1>2, <2>3, UnlinkMapped
    <3>2. Dir!Answer("DeleteObject", n, k, "Done")
      BY <1>2, <2>3, AnswerStep DEF Ops
    <3>3. Dir!Unlink(n, k)
      BY <1>2, <3>1, <3>2, Mapped DEF Dir!Unlink
    <3>4. QED
      BY <1>2, <3>3 DEF Dir!Next
  <2>4. QED
    BY <1>2, <2>1, <2>2, <2>3 DEF ObjectDelete
<1>3. QED
  BY <1>1, <1>2 DEF DeleteObject

\* metadata-service implements the directory: it starts as the empty
\* directory, and every step of it is a directory step or invisible.
THEOREM Refinement == Spec => ImplementsDirectory
<1>1. Init => Dir!Init
  BY DEF Init, RepoInit, Dir!Init, DirOwner, DirContent, DirAnswer, LiveBucket,
         LiveObject
<1>2. TypeOK /\ [Next]_vars => [Dir!Next]_(Dir!vars)
  <2> SUFFICES ASSUME TypeOK, [Next]_vars
               PROVE  [Dir!Next]_(Dir!vars)
    OBVIOUS
  <2>1. CASE Restart \/ UNCHANGED vars
    BY <2>1 DEF Restart, vars, Dir!vars, DirOwner, DirContent, DirAnswer,
                LiveBucket, LiveObject
  <2>2. QED
    BY <2>1, CreateRefines, DeleteRefines, CheckRefines, WriteRefines,
       UnlinkRefines DEF Next
<1>3. QED
  BY <1>1, <1>2, TypeCorrect, PTL DEF Spec, Dir!Spec, ImplementsDirectory
=============================================================================
