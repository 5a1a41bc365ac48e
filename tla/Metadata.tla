------------------------------ MODULE Metadata ------------------------------
(***************************************************************************)
(* metadata-service: the HTTP handlers and the service layer over the      *)
(* repositories of MetadataRepo.                                           *)
(*                                                                         *)
(* Every request but one runs in a single transaction, so it is a single   *)
(* step here, from its validation to its response.  PutObject is the       *)
(* exception: it looks the bucket up in one transaction and writes the     *)
(* object in a second one, and other requests run in between.              *)
(***************************************************************************)
EXTENDS MetadataRepo

CONSTANTS
    Handlers,           \* goroutines that may be inside PutObject
    ValidNames,         \* the names bucketNameRE accepts
    Missing,            \* an empty owner_id, key or storage_ref
    NoPut               \* a handler that is not inside PutObject

Ops == {"CreateBucket", "DeleteBucket", "PutObject", "DeleteObject"}

\* What a request is about: a bucket, or an object of it.
Targets == Names \X (Keys \union {Missing})

ASSUME MetadataAssumption ==
    /\ ValidNames \subseteq Names
    /\ Missing \notin Owners \union Keys \union Refs
    /\ Missing \notin [op : Ops, at : Targets, status : Nat]
    /\ NoPut \notin [name : Names, key : Keys, ref : Refs]

VARIABLES
    pending,            \* handler -> the put that passed its bucket check
    reply,              \* the last response sent, or Missing
    stale,              \* history: handlers whose checked bucket was deleted
    lateOn              \* history: names a stale put has written under

vars == <<records, ownerIdx, objects, pending, reply, stale, lateOn>>

TypeOK ==
    /\ RepoTypeOK
    /\ pending \in [Handlers -> [name : Names, key : Keys, ref : Refs]
                                  \union {NoPut}]
    /\ reply \in [op : Ops, at : Targets, status : Nat] \union {Missing}
    /\ stale \subseteq Handlers
    /\ lateOn \subseteq Names

Init ==
    /\ RepoInit
    /\ pending = [h \in Handlers |-> NoPut]
    /\ reply = Missing
    /\ stale = {}
    /\ lateOn = {}

-----------------------------------------------------------------------------
(* Responses.                                                              *)

\* The status writeError gives a repository or service error.
WriteError(err) ==
    CASE err = "NotFound" -> 404
      [] err \in {"AlreadyExists", "NotEmpty"} -> 409
      [] err = "InvalidInput" -> 400
      [] OTHER -> 500

Success(op) == IF op \in {"CreateBucket", "PutObject"} THEN 201 ELSE 204

Respond(op, n, k, err) ==
    reply' = [op |-> op, at |-> <<n, k>>,
              status |-> IF err = "ok" THEN Success(op) ELSE WriteError(err)]

Reject(op, n, k, err) ==
    /\ Respond(op, n, k, err)
    /\ UNCHANGED repo

-----------------------------------------------------------------------------
(* Requests.                                                               *)

\* bucketService.CreateBucket.
CreateBucket(n, o) ==
    /\ \/ /\ n \notin ValidNames \/ o = Missing
          /\ Reject("CreateBucket", n, Missing, "InvalidInput")
       \/ /\ n \in ValidNames
          /\ o # Missing
          /\ \E err \in RepoErrors :
               BucketCreate(n, o, err) /\ Respond("CreateBucket", n, Missing, err)
    /\ UNCHANGED <<pending, stale, lateOn>>

\* bucketService.DeleteBucket.  The puts that are between their two
\* transactions on this name have a bucket check that no longer holds.
DeleteBucket(n) ==
    /\ \E err \in RepoErrors :
         /\ BucketDelete(n, err)
         /\ Respond("DeleteBucket", n, Missing, err)
         /\ stale' = IF err = "ok"
                     THEN stale \union {h \in Handlers :
                            pending[h] # NoPut /\ pending[h].name = n}
                     ELSE stale
    /\ UNCHANGED <<pending, lateOn>>

\* The first half of objectService.PutObject: validation, then the bucket
\* lookup in a read transaction of its own.  A negative size_bytes is refused
\* like an empty key.
PutObjectCheck(h, n, k, ref) ==
    /\ pending[h] = NoPut
    /\ \/ /\ k = Missing \/ ref = Missing
          /\ Reject("PutObject", n, k, "InvalidInput")
          /\ UNCHANGED pending
       \/ /\ k # Missing /\ ref # Missing
          /\ ~LiveBucket(n)
          /\ Reject("PutObject", n, k, "NotFound")
          /\ UNCHANGED pending
       \/ /\ k # Missing /\ ref # Missing
          /\ LiveBucket(n)
          /\ pending' = [pending EXCEPT ![h] =
                           [name |-> n, key |-> k, ref |-> ref]]
          /\ UNCHANGED <<records, ownerIdx, objects, reply>>
    /\ UNCHANGED <<stale, lateOn>>

\* The second half: the upsert in a write transaction, then the response.
PutObjectWrite(h) ==
    /\ pending[h] # NoPut
    /\ \E err \in RepoErrors :
         /\ ObjectPut(pending[h].name, pending[h].key, pending[h].ref, err)
         /\ Respond("PutObject", pending[h].name, pending[h].key, err)
         /\ lateOn' = IF err = "ok" /\ h \in stale
                      THEN lateOn \union {pending[h].name}
                      ELSE lateOn
    /\ pending' = [pending EXCEPT ![h] = NoPut]
    /\ stale' = stale \ {h}

\* objectService.DeleteObject, which does not look the bucket up.
DeleteObject(n, k) ==
    /\ \/ k = Missing /\ Reject("DeleteObject", n, k, "InvalidInput")
       \/ /\ k # Missing
          /\ \E err \in RepoErrors :
               ObjectDelete(n, k, err) /\ Respond("DeleteObject", n, k, err)
    /\ UNCHANGED <<pending, stale, lateOn>>

\* The process stops and starts again: what was committed stays in the file,
\* the requests in progress are gone.
Restart ==
    /\ pending' = [h \in Handlers |-> NoPut]
    /\ stale' = {}
    /\ UNCHANGED <<records, ownerIdx, objects, reply, lateOn>>

Next ==
    \/ \E n \in Names :
         \/ \E o \in Owners \union {Missing} : CreateBucket(n, o)
         \/ DeleteBucket(n)
         \/ \E k \in Keys \union {Missing} :
              \/ DeleteObject(n, k)
              \/ \E h \in Handlers, ref \in Refs \union {Missing} :
                   PutObjectCheck(h, n, k, ref)
    \/ \E h \in Handlers : PutObjectWrite(h)
    \/ Restart

Spec == Init /\ [][Next]_vars

-----------------------------------------------------------------------------
(* Properties.                                                             *)

\* The owner index holds exactly one entry per live bucket, under the owner
\* of its record: BucketRepository.Create and Delete keep both maps in step
\* through deletions and re-creations by another owner.
OwnerIndexExact ==
    \A o \in IndexableOwners, n \in Names :
        <<o, n>> \in ownerIdx <=> LiveBucket(n) /\ records[n].owner = o

\* A listing by owner is exactly the set of buckets that owner has.  The scan
\* resolves an entry by its name alone and never compares the owner of the
\* record it finds, so this rests on the index having no leftover entry.
OwnerListingExact ==
    \A o \in IndexableOwners :
        ListByOwner(o) = {n \in Names : LiveBucket(n) /\ records[n].owner = o}

\* An object whose bucket does not exist was written by a put that passed its
\* bucket check before the bucket was deleted: the gap between the two
\* transactions of PutObject is the only way to leave one.
OrphanOnlyByLatePut ==
    \A n \in Names \ lateOn, k \in Keys : LiveObject(n, k) => LiveBucket(n)

\* A put whose check no deletion has overtaken still has its bucket.
CheckStillHolds ==
    \A h \in Handlers \ stale : pending[h] # NoPut => LiveBucket(pending[h].name)

\* The inductive invariant.
MetadataInv ==
    /\ TypeOK
    /\ OwnerIndexExact
    /\ CheckStillHolds
    /\ OrphanOnlyByLatePut

\* A bucket changes hands only after a deletion that found it empty: a step
\* that leaves a bucket live leaves it with its owner, and a step that ends
\* one leaves no live object under its name.
BucketLifecycle ==
    [][\A n \in Names : LiveBucket(n) =>
          \/ LiveBucket(n)' /\ records'[n].owner = records[n].owner
          \/ ~LiveBucket(n)' /\ \A k \in Keys : ~LiveObject(n, k)']_vars

\* What the design says of the delete transaction: no client can upload an
\* object in the gap between the emptiness check and the delete, so no object
\* ever belongs to a bucket that is gone.
NoOrphanObjects ==
    \A n \in Names, k \in Keys : LiveObject(n, k) => LiveBucket(n)

-----------------------------------------------------------------------------
(* The directory this service implements.                                  *)

Result(status) ==
    CASE status \in {201, 204} -> "Done"
      [] status = 404 -> "NotFound"
      [] status = 409 -> "Conflict"
      [] status = 400 -> "BadRequest"
      [] OTHER -> "Error"

DirOwner == [n \in Names |->
               IF LiveBucket(n) THEN records[n].owner ELSE NoRecord]

DirContent == [x \in Names \X Keys |->
                 IF LiveObject(x[1], x[2]) THEN objects[x].ref ELSE NoRecord]

DirAnswer == IF reply = Missing
             THEN NoRecord
             ELSE [op |-> reply.op, at |-> reply.at, result |-> Result(reply.status)]

Dir == INSTANCE Directory WITH
    Owners <- IndexableOwners, Nobody <- NoRecord, Nothing <- NoRecord,
    owner <- DirOwner, content <- DirContent, answer <- DirAnswer

\* Seen through its lookups, metadata-service is the abstract directory: soft
\* deletion, the owner index, and the two transactions of a put are invisible,
\* and each response is the one the directory gives at that instant.
ImplementsDirectory == Dir!Spec
=============================================================================
