------------------------------ MODULE Gateway -------------------------------
(***************************************************************************)
(* api-service over metadata-service and data-service: the bucket and      *)
(* object handlers as sequences of upstream calls.                         *)
(*                                                                         *)
(* A handler holds no lock and no transaction spans two calls.  A put      *)
(* stores the bytes, then the metadata, and deletes the bytes again when   *)
(* the metadata call fails; a delete removes the bytes, then the metadata. *)
(* Bytes are stored under the hash of their content, so equal contents in  *)
(* a bucket share one blob, and nothing counts who refers to it.           *)
(*                                                                         *)
(* metadata-service is the module extended here; data-service is the set   *)
(* of blobs it stores, as BlobStore specifies it.                          *)
(***************************************************************************)
EXTENDS Metadata

CONSTANTS
    Slots,              \* requests api-service may be serving at once
    Principals,         \* user ids requests act as
    Uploads,            \* the <<key, content>> pairs clients put
    UrlKey,             \* the key metadata-service reads from a URL path
    ListLimit,          \* how many objects a listing holds at most
    MaxFaults,          \* bound on the faults of a behaviour
    Free,               \* a slot without a request
    NoHandler           \* a request that is not inside PutObject

ASSUME GatewayAssumption ==
    /\ Principals \subseteq Owners
    /\ NoRecord \notin Principals
    /\ Uploads \subseteq (Keys \union {Missing}) \X Refs
    /\ UrlKey \in [Keys -> Keys]
    /\ ListLimit \in Nat
    /\ MaxFaults \in Nat
    /\ NoHandler \notin Handlers

VARIABLES
    blobs,              \* the <<bucket, hash>> pairs data-service stores
    slot,               \* slot -> the request it serves
    answer,             \* the last response to a client, or Missing
    faults,             \* history: faults so far
    shared,             \* history: blobs that had two users at once
    torn,               \* history: blobs of the requests a fault has hit
    strays,             \* history: blobs left behind with no fault
    moved               \* history: requests whose bucket has been deleted

gateway == <<blobs, slot, answer>>
history == <<shared, torn, strays, moved>>
allVars == <<vars, gateway, faults, history>>

Blobs == {<<n, ref>> : n \in Names, ref \in Refs}

\* The requests that begin with authorizeBucketOwner, and all of them.
BucketOps == {"DeleteBucket", "ListObjects", "PutObject", "GetObject",
              "HeadObject", "DeleteObject"}
ClientOps == BucketOps \union {"ListBuckets", "CreateBucket"}

\* pc is the upstream call the handler makes next; status is what it answers
\* once an undo is done.
Request ==
    [pc : {"write", "meta", "saving", "undo", "lookup", "read", "unlink", "list"},
     op : BucketOps, who : Principals, name : Names,
     key : Keys \union {Missing}, ref : Refs \union {Missing},
     via : Handlers \union {NoHandler}, status : {201, 400, 404, 502}]

ASSUME FreeAssumption == Free \notin Request

\* What a response says: a content or its size, the names of buckets, the
\* keys of objects, or nothing.
Bodies == Refs \union (SUBSET Names) \union (SUBSET Keys) \union {Missing}

\* What a request is about: a bucket or an object, or its caller's buckets.
Subjects == (Names \union Principals) \X (Keys \union {Missing})

GatewayTypeOK ==
    /\ TypeOK
    /\ blobs \subseteq Blobs
    /\ slot \in [Slots -> Request \union {Free}]
    /\ \A g \in Slots : slot[g] # Free =>
         /\ slot[g].pc = "saving" <=> slot[g].via # NoHandler
         /\ slot[g].pc = "saving" => pending[slot[g].via] # NoPut
    /\ answer \in [op : ClientOps, at : Subjects,
                   status : {200, 201, 204, 400, 403, 404, 409, 502},
                   body : Bodies] \union {Missing}
    /\ faults \in 0..MaxFaults
    /\ shared \subseteq Blobs
    /\ torn \subseteq Blobs
    /\ strays \subseteq Blobs
    /\ moved \subseteq Slots

GatewayInit ==
    /\ Init
    /\ blobs = {}
    /\ slot = [g \in Slots |-> Free]
    /\ answer = Missing
    /\ faults = 0
    /\ shared = {}
    /\ torn = {}
    /\ strays = {}
    /\ moved = {}

-----------------------------------------------------------------------------
(* Answers.                                                                *)

\* The client of metadata-service turns a status into an error, and
\* WriteUpstreamError the error into a status.
Upstream(status) == IF status \in {400, 404, 409} THEN status ELSE 502

Answer(op, n, k, status, body) ==
    answer' = [op |-> op, at |-> <<n, k>>, status |-> status, body |-> body]

\* The request of slot g is over.
Finish(g, status, body) ==
    /\ slot' = [slot EXCEPT ![g] = Free]
    /\ Answer(slot[g].op, slot[g].name, slot[g].key, status, body)

At(g, pc) == slot[g] # Free /\ slot[g].pc = pc

Goto(g, pc) ==
    /\ slot' = [slot EXCEPT ![g] = [@ EXCEPT !.pc = pc]]
    /\ UNCHANGED answer

\* The bug of an undo that starts while the metadata call goes on.
GotoUndoStillSaving(g, status) ==
    /\ slot' = [slot EXCEPT ![g] = [@ EXCEPT !.pc = "undo", !.status = status]]
    /\ UNCHANGED answer

\* The metadata call of a put has failed.
GotoUndo(g, status) ==
    /\ slot' = [slot EXCEPT ![g] = [@ EXCEPT !.pc = "undo", !.via = NoHandler,
                                             !.status = status]]
    /\ UNCHANGED answer

Blob(g) == <<slot[g].name, slot[g].ref>>

-----------------------------------------------------------------------------
(* Requests.                                                               *)

\* handleCreateBucket: one call.
GwCreateBucket(n, o) ==
    /\ CreateBucket(n, o)
    /\ Answer("CreateBucket", n, Missing,
              IF reply'.status = 201 THEN 201 ELSE Upstream(reply'.status),
              Missing)
    /\ UNCHANGED <<blobs, slot>>

\* handleListBuckets: one call.
GwListBuckets(o) ==
    /\ Answer("ListBuckets", o, Missing, 200, ListByOwner(o))
    /\ UNCHANGED <<vars, blobs, slot>>

FirstCall(op) ==
    CASE op = "PutObject" -> "write"
      [] op = "DeleteBucket" -> "meta"
      [] op = "ListObjects" -> "list"
      [] OTHER -> "lookup"

\* The bug of an authorization that only asks whether the bucket exists.
AuthorizeAnyone(g, who, op, n, k, ref) ==
    /\ slot[g] = Free
    /\ LiveBucket(n)
    /\ slot' = [slot EXCEPT ![g] =
                  [pc |-> FirstCall(op), op |-> op, who |-> who, name |-> n,
                   key |-> k, ref |-> ref, via |-> NoHandler, status |-> 201]]
    /\ UNCHANGED <<vars, blobs, answer>>

\* The other handlers begin with authorizeBucketOwner, a lookup of its own.
Authorize(g, who, op, n, k, ref) ==
    /\ slot[g] = Free
    /\ \/ /\ LiveBucket(n)
          /\ records[n].owner = who
          /\ slot' = [slot EXCEPT ![g] =
                        [pc |-> FirstCall(op), op |-> op, who |-> who,
                         name |-> n, key |-> k, ref |-> ref,
                         via |-> NoHandler, status |-> 201]]
          /\ UNCHANGED answer
       \/ /\ ~LiveBucket(n)
          /\ Answer(op, n, k, 404, Missing)
          /\ UNCHANGED slot
       \/ /\ LiveBucket(n)
          /\ records[n].owner # who
          /\ Answer(op, n, k, 403, Missing)
          /\ UNCHANGED slot
    /\ UNCHANGED <<vars, blobs>>

\* handleDeleteBucket's second call.
GwDeleteBucket(g) ==
    /\ At(g, "meta")
    /\ slot[g].op = "DeleteBucket"
    /\ DeleteBucket(slot[g].name)
    /\ Finish(g, IF reply'.status = 204 THEN 204 ELSE Upstream(reply'.status),
              Missing)
    /\ UNCHANGED blobs

\* The bug of going on to the metadata when the upload has failed.
WriteErrorDropped(g) ==
    /\ At(g, "write")
    /\ blobs' \in {blobs, blobs \union {Blob(g)}}
    /\ Goto(g, "meta")
    /\ UNCHANGED vars

\* handlePutObject: data.Write.  An upload that data-service fails has
\* stored nothing.
Write(g) ==
    /\ At(g, "write")
    /\ \/ /\ blobs' = blobs \union {Blob(g)}
          /\ Goto(g, "meta")
       \/ /\ Finish(g, 502, Missing)
          /\ UNCHANGED blobs
    /\ UNCHANGED vars

\* The bug of answering the error and leaving the bytes.
PutMetaNoUndo(g, h) ==
    /\ At(g, "meta")
    /\ slot[g].op = "PutObject"
    /\ PutObjectCheck(h, slot[g].name, slot[g].key, slot[g].ref)
    /\ \/ /\ pending'[h] # NoPut
          /\ slot' = [slot EXCEPT ![g] = [@ EXCEPT !.pc = "saving", !.via = h]]
          /\ UNCHANGED answer
       \/ /\ pending'[h] = NoPut
          /\ Finish(g, Upstream(reply'.status), Missing)
    /\ UNCHANGED blobs

\* metadata.PutObjectMeta up to the bucket check of metadata-service.
PutMeta(g, h) ==
    /\ At(g, "meta")
    /\ slot[g].op = "PutObject"
    /\ PutObjectCheck(h, slot[g].name, slot[g].key, slot[g].ref)
    /\ \/ /\ pending'[h] # NoPut
          /\ slot' = [slot EXCEPT ![g] = [@ EXCEPT !.pc = "saving", !.via = h]]
          /\ UNCHANGED answer
       \/ /\ pending'[h] = NoPut
          /\ GotoUndo(g, Upstream(reply'.status))
    /\ UNCHANGED blobs

\* The bug of answering 201 whatever metadata-service says.
PutSavedAnyway(g) ==
    /\ At(g, "saving")
    /\ PutObjectWrite(slot[g].via)
    /\ Finish(g, 201, Missing)
    /\ UNCHANGED blobs

\* The rest of metadata.PutObjectMeta.
PutSaved(g) ==
    /\ At(g, "saving")
    /\ PutObjectWrite(slot[g].via)
    /\ \/ reply'.status = 201 /\ Finish(g, 201, Missing)
       \/ reply'.status # 201 /\ GotoUndo(g, Upstream(reply'.status))
    /\ UNCHANGED blobs

\* The undo of a put: data.Delete, whose error is ignored.
Undo(g) ==
    /\ At(g, "undo")
    /\ blobs' \in {blobs, blobs \ {Blob(g)}}
    /\ Finish(g, slot[g].status, Missing)
    /\ UNCHANGED vars

\* The bug of a listing of everything that was ever put.
ListAll(g) ==
    /\ At(g, "list")
    /\ Finish(g, 200, {k \in Keys : objects[<<slot[g].name, k>>] # NoRecord})
    /\ UNCHANGED <<vars, blobs>>

\* handleListObjects' second call.  It names no limit, so metadata-service
\* stops at its own; which keys come first is KeySpace's matter.
List(g) ==
    /\ At(g, "list")
    /\ LET live == LiveKeys(slot[g].name)
       IN  \E listed \in SUBSET live :
             /\ \/ listed = live /\ Cardinality(live) <= ListLimit
                \/ Cardinality(live) > ListLimit /\ Cardinality(listed) = ListLimit
             /\ Finish(g, 200, listed)
    /\ UNCHANGED <<vars, blobs>>

\* metadata.GetObjectMeta finds an object.  The key goes into the URL path as
\* it is; an empty one addresses the listing, whose body is no object, and one
\* with a 0x00 byte makes no URL.
Addressable(g) == slot[g].key \in StorableKeys
Found(g) == Addressable(g) /\ LiveObject(slot[g].name, UrlKey[slot[g].key])
FoundRef(g) == objects[<<slot[g].name, UrlKey[slot[g].key]>>].ref

\* The lookup of a get, a head or a delete.  A head is answered from the
\* record alone.
Lookup(g) ==
    /\ At(g, "lookup")
    /\ \/ /\ ~Found(g)
          /\ Finish(g, IF Addressable(g) THEN 404 ELSE 502, Missing)
       \/ /\ Found(g)
          /\ slot[g].op = "HeadObject"
          /\ Finish(g, 200, FoundRef(g))
       \/ /\ Found(g)
          /\ slot[g].op # "HeadObject"
          /\ slot' = [slot EXCEPT ![g] =
               [@ EXCEPT !.ref = FoundRef(g),
                         !.pc = IF slot[g].op = "GetObject" THEN "read"
                                                            ELSE "unlink"]]
          /\ UNCHANGED answer
    /\ UNCHANGED <<vars, blobs>>

\* handleGetObject: data.Read.
Read(g) ==
    /\ At(g, "read")
    /\ \/ Blob(g) \in blobs /\ Finish(g, 200, slot[g].ref)
       \/ Blob(g) \notin blobs /\ Finish(g, 404, Missing)
    /\ UNCHANGED <<vars, blobs>>

\* handleDeleteObject: data.Delete.
Unlink(g) ==
    /\ At(g, "unlink")
    /\ \/ /\ blobs' = blobs \ {Blob(g)}
          /\ Goto(g, "meta")
       \/ /\ Finish(g, 502, Missing)
          /\ UNCHANGED blobs
    /\ UNCHANGED vars

\* handleDeleteObject: metadata.DeleteObjectMeta.
GwDeleteObject(g) ==
    /\ At(g, "meta")
    /\ slot[g].op = "DeleteObject"
    /\ DeleteObject(slot[g].name, UrlKey[slot[g].key])
    /\ Finish(g, IF reply'.status = 204 THEN 204 ELSE Upstream(reply'.status),
              Missing)
    /\ UNCHANGED blobs

-----------------------------------------------------------------------------
(* Faults.                                                                 *)

Holding(g) == slot[g] # Free /\ slot[g].ref # Missing

Fault(hit) ==
    /\ faults < MaxFaults
    /\ faults' = faults + 1
    /\ torn' = torn \union {Blob(g) : g \in {s \in hit : Holding(s)}}

\* What a handler does when its upstream call returns an error that is not a
\* response: it timed out, or the client left and the request context ended.
GiveUp(g) ==
    IF slot[g].op = "PutObject" /\ slot[g].pc \in {"meta", "saving"}
    THEN GotoUndo(g, 502)
    ELSE Finish(g, 502, Missing)

\* The first call of a request is lost, or the response to it is: the lookup of
\* authorizeBucketOwner, or the one call of handleCreateBucket or
\* handleListBuckets.
FirstLost(op, n, k, o) ==
    /\ Fault({})
    /\ op \notin {"PutObject", "GetObject", "HeadObject", "DeleteObject"} => k = Missing
    /\ \/ UNCHANGED vars
       \/ op = "CreateBucket" /\ CreateBucket(n, o)
    /\ Answer(op, IF op = "ListBuckets" THEN o ELSE n, k, 502, Missing)
    /\ UNCHANGED <<blobs, slot>>

\* The call did not arrive.  metadata-service may still be in PutObject.
CallLost(g) ==
    /\ slot[g] # Free
    /\ slot[g].pc # "undo"
    /\ Fault({g})
    /\ GiveUp(g)
    /\ UNCHANGED <<vars, blobs>>

\* The call took effect and its response did not arrive.
ResponseLost(g) ==
    /\ Fault({g})
    /\ \/ /\ At(g, "write")
          /\ blobs' = blobs \union {Blob(g)}
          /\ UNCHANGED vars
       \/ /\ At(g, "unlink")
          /\ blobs' = blobs \ {Blob(g)}
          /\ UNCHANGED vars
       \/ /\ At(g, "saving")
          /\ PutObjectWrite(slot[g].via)
          /\ UNCHANGED blobs
       \/ /\ At(g, "meta")
          /\ slot[g].op = "DeleteObject"
          /\ DeleteObject(slot[g].name, UrlKey[slot[g].key])
          /\ UNCHANGED blobs
       \/ /\ At(g, "meta")
          /\ slot[g].op = "DeleteBucket"
          /\ DeleteBucket(slot[g].name)
          /\ UNCHANGED blobs
    /\ GiveUp(g)

\* metadata-service finishes a put its caller has given up.
LateWrite(h) ==
    /\ \A g \in Slots : slot[g] # Free => slot[g].via # h
    /\ PutObjectWrite(h)
    /\ UNCHANGED gateway

\* api-service stops and starts again.
GwRestart ==
    /\ Fault(Slots)
    /\ slot' = [g \in Slots |-> Free]
    /\ UNCHANGED <<vars, blobs, answer>>

\* The bug of a client that is not told its upstream has gone.
MetaRestartUnnoticed ==
    /\ Fault({})
    /\ Restart
    /\ UNCHANGED gateway

\* metadata-service stops and starts again; the puts it was serving fail.
MetaRestart ==
    LET cut == {g \in Slots : At(g, "saving")}
    IN  /\ Fault(cut)
        /\ Restart
        /\ slot' = [g \in Slots |->
                      IF g \in cut
                      THEN [slot[g] EXCEPT !.pc = "undo", !.via = NoHandler,
                                           !.status = 502]
                      ELSE slot[g]]
        /\ UNCHANGED <<blobs, answer>>

-----------------------------------------------------------------------------

\* The slots that hold the bytes of a blob: a put that has stored them, or a
\* delete that has looked them up.
Holders(x) ==
    {g \in Slots : /\ slot[g] # Free
                   /\ slot[g].pc \in {"meta", "saving", "undo", "unlink"}
                   /\ Holding(g)
                   /\ Blob(g) = x}

\* The puts among them.
Putting(x) == {g \in Holders(x) : slot[g].op = "PutObject"}

RefersTo(k, x) == LiveObject(x[1], k) /\ objects[<<x[1], k>>].ref = x[2]

\* A blob has two users: two live objects, two requests, or an object and a
\* put that stores the same content.
HasTwoUsers(x) ==
    \/ \E j, k \in Keys : j # k /\ RefersTo(j, x) /\ RefersTo(k, x)
    \/ \E f, g \in Holders(x) : f # g
    \/ (\E k \in Keys : RefersTo(k, x)) /\ Putting(x) # {}

Arrive ==
    \/ \E o \in Principals : GwListBuckets(o) \/ \E n \in Names : GwCreateBucket(n, o)
    \/ \E g \in Slots, who \in Principals, n \in Names,
          k \in Keys \union {Missing} :
         \/ \E op \in {"GetObject", "HeadObject", "DeleteObject"} :
              Authorize(g, who, op, n, k, Missing)
         \/ \E ref \in Refs : /\ <<k, ref>> \in Uploads
                             /\ Authorize(g, who, "PutObject", n, k, ref)
         \/ \E op \in {"DeleteBucket", "ListObjects"} :
              k = Missing /\ Authorize(g, who, op, n, k, Missing)

Proceed(g) ==
    \/ GwDeleteBucket(g)
    \/ Write(g) \/ PutSaved(g) \/ Undo(g)
    \/ \E h \in Handlers : PutMeta(g, h)
    \/ List(g) \/ Lookup(g) \/ Read(g)
    \/ Unlink(g) \/ GwDeleteObject(g)

Fail ==
    \/ \E op \in ClientOps, n \in Names, k \in Keys \union {Missing},
          o \in Principals : FirstLost(op, n, k, o)
    \/ \E g \in Slots : CallLost(g) \/ ResponseLost(g)
    \/ GwRestart
    \/ MetaRestart

\* Bytes left behind with no fault: those an overwrite takes the record
\* from, those a delete takes the record from although they are there, because
\* a put came between its two calls, and those an undo did not remove.
Overwritten ==
    {x \in Blobs : \E k \in Keys :
        RefersTo(k, x) /\ ~RefersTo(k, x)' /\ LiveObject(x[1], k)'}

CrossedByDelete ==
    {x \in blobs : \E k \in Keys : RefersTo(k, x) /\ ~LiveObject(x[1], k)'}

NotUndone ==
    {x \in blobs' : \E g \in Slots :
        At(g, "undo") /\ Blob(g) = x /\ slot'[g] = Free}

Overtaken ==
    {g \in Slots : /\ slot[g] # Free
                   /\ \E n \in Names : /\ slot[g].name = n
                                       /\ LiveBucket(n) /\ ~LiveBucket(n)'}

Record ==
    /\ shared' = shared \union {x \in Blobs : HasTwoUsers(x)}
    /\ strays' = strays \union Overwritten \union CrossedByDelete \union NotUndone
    /\ moved' = {g \in moved \union Overtaken : slot'[g] # Free}

NoFault == UNCHANGED <<faults, torn>> /\ Record

GatewayNext ==
    \/ /\ Arrive \/ (\E g \in Slots : Proceed(g)) \/ (\E h \in Handlers : LateWrite(h))
       /\ NoFault
    \/ Fail /\ Record

GatewaySpec == GatewayInit /\ [][GatewayNext]_allVars

\* A handler that has started goes on by itself, in either process: each has
\* its goroutine, and no call waits for one that waits for it.
GatewayFairSpec ==
    /\ GatewaySpec
    /\ \A g \in Slots : WF_allVars(Proceed(g) /\ NoFault)
    /\ \A h \in Handlers : WF_allVars(LateWrite(h) /\ NoFault)

-----------------------------------------------------------------------------
(* Properties.                                                             *)

Idle == \A g \in Slots : slot[g] = Free

Backed(n, k) == <<n, objects[<<n, k>>].ref>> \in blobs

\* A live object without its bytes is the object of a delete between its two
\* calls, or its content had two users at some time, or was held by a request
\* that a fault has hit.  Bytes first on a put and on a delete, with the undo
\* of a put in between, go wrong in no other way.
DanglingExplained ==
    \A x \in Blobs \ blobs, k \in Keys :
        RefersTo(k, x) =>
            \/ x \in shared \union torn
            \/ HasTwoUsers(x)
            \/ \E g \in Slots : /\ At(g, "meta")
                                /\ slot[g].op = "DeleteObject"
                                /\ Blob(g) = x
                                /\ UrlKey[slot[g].key] = k

\* Bytes that no object refers to and no put is about to refer to were left by
\* an overwrite, by a put that crossed a delete, by an undo that failed, or by
\* a fault: a put that is refused and a delete that is not crossed leave
\* nothing behind.
GarbageExplained ==
    \A x \in blobs :
        \/ \E k \in Keys : RefersTo(k, x)
        \/ Putting(x) # {}
        \/ x \in strays \union torn

\* A request whose bucket nobody has deleted since it was authorized is acting
\* for the bucket's owner: buckets do not change hands otherwise, and the
\* owner is looked up only once.
OwnerUntilDeleted ==
    \A g \in Slots \ moved :
        slot[g] # Free => /\ LiveBucket(slot[g].name)
                          /\ records[slot[g].name].owner = slot[g].who

\* What the handlers carry from call to call: the op a pc belongs to, the
\* bytes a put has, and the record a delete has looked up.
CarriedOver ==
    /\ \A g \in Slots : slot[g] # Free =>
         LET r == slot[g]
         IN  /\ r.pc \in {"write", "saving", "undo"} => r.op = "PutObject"
             /\ r.pc = "unlink" => r.op = "DeleteObject"
             /\ r.pc = "lookup" => r.op \in {"GetObject", "HeadObject", "DeleteObject"}
             /\ r.op = "PutObject" => r.ref \in Refs
             /\ r.op = "DeleteObject" /\ r.pc \in {"unlink", "meta"} =>
                  r.ref \in Refs /\ r.key \in StorableKeys
    /\ \A n \in Names, k \in Keys : LiveObject(n, k) => k \in StorableKeys

\* A put that metadata-service is serving is the put of the one slot that
\* waits for it, or of one that a fault has made give up.
PendingMatched ==
    /\ \A g \in Slots : At(g, "saving") =>
         pending[slot[g].via] = [name |-> slot[g].name, key |-> slot[g].key,
                                 ref |-> slot[g].ref]
    /\ \A f, g \in Slots : At(f, "saving") /\ At(g, "saving")
                             /\ slot[f].via = slot[g].via => f = g
    /\ \A h \in Handlers :
         pending[h] # NoPut
         /\ (\A g \in Slots : slot[g] # Free => slot[g].via # h)
         => <<pending[h].name, pending[h].ref>> \in torn

Excused(x) == x \in shared \union torn \/ HasTwoUsers(x)

\* A put that goes on has its bytes in the store.
PutsBacked ==
    \A x \in Blobs : Putting(x) # {} => x \in blobs \/ Excused(x)

\* The bytes a delete is about to remove belong to the object it looked up.
DeletesOwn ==
    \A g \in Slots, k \in Keys, x \in Blobs :
        At(g, "unlink") /\ Blob(g) = x /\ RefersTo(k, x) =>
            k = UrlKey[slot[g].key] \/ Excused(x)

\* The inductive invariant.
GatewayInv ==
    /\ GatewayTypeOK
    /\ CarriedOver
    /\ PendingMatched
    /\ PutsBacked
    /\ DeletesOwn
    /\ DanglingExplained

\* What the design says of data-service: the delete signal for stored bytes
\* is that metadata-service no longer refers to them.  So when no request is
\* in progress, every object metadata-service refers to has its bytes.
BytesKeptWhileReferenced ==
    Idle => \A n \in Names, k \in Keys : LiveObject(n, k) => Backed(n, k)

\* Every request is answered or dropped by a restart: none waits for ever for
\* a put that metadata-service is still serving, or has forgotten.
RequestsEnd == \A g \in Slots : slot[g] # Free ~> slot[g] = Free

-----------------------------------------------------------------------------
(* The object store that clients see.                                      *)

Store == INSTANCE ObjectStore WITH
    Nobody <- NoRecord, Nothing <- NoRecord, NoAnswer <- Missing,
    owner <- DirOwner, content <- DirContent

\* Clients that take turns and keep each content they store to one key, whose
\* name a URL path does not change, and no faults.
TakingTurns ==
    /\ \A f, g \in Slots : f = g
    /\ MaxFaults = 0
    /\ \A k \in StorableKeys :
         /\ UrlKey[k] = k
         /\ \A j \in Keys \union {Missing}, ref \in Refs :
              <<k, ref>> \in Uploads /\ <<j, ref>> \in Uploads => j = k

\* The object a request with record r works on.
Looked(r) == r.key \in StorableKeys /\ RefersTo(r.key, <<r.name, r.ref>>)

\* What the request of such a client may count on from call to call.
Undisturbed(r) ==
    /\ LiveBucket(r.name)
    /\ r.op \in {"ListObjects", "DeleteBucket"} => r.key = Missing
    /\ r.pc = "list" => r.op = "ListObjects"
    /\ r.pc = "read" => r.op = "GetObject" /\ Looked(r)
    /\ r.op = "DeleteObject" /\ r.pc \in {"unlink", "meta"} => Looked(r)
    /\ r.op = "PutObject" =>
         /\ <<r.key, r.ref>> \in Uploads
         /\ r.pc \in {"meta", "saving"} => <<r.name, r.ref>> \in blobs
         /\ r.pc = "undo" => r.key \notin StorableKeys /\ r.status \in {400, 502}

BeingDeleted(n, k) ==
    \E g \in Slots : /\ At(g, "meta")
                     /\ slot[g].op = "DeleteObject"
                     /\ slot[g].name = n /\ slot[g].key = k

NoneDisturbed == \A g \in Slots : slot[g] # Free => Undisturbed(slot[g])

\* Each content was put under its key, and is there until its object goes.
ContentsKept ==
    \A n \in Names, k \in Keys : LiveObject(n, k) =>
        /\ <<k, objects[<<n, k>>].ref>> \in Uploads
        /\ Backed(n, k) \/ BeingDeleted(n, k)

\* The inductive invariant of clients that take turns, on top of GatewayInv
\* and MetadataInv.
TurnsInv == faults = 0 /\ torn = {} /\ NoneDisturbed /\ ContentsKept

\* Clients that take turns, and store each content under one key only, see an
\* object store: what a get returns is what was last put.
ImplementsObjectStore == Store!Spec
=============================================================================
