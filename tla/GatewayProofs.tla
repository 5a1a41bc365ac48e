---------------------------- MODULE GatewayProofs ---------------------------
(***************************************************************************)
(* Proofs about api-service over metadata-service for every set of         *)
(* buckets, users, keys, contents and concurrent requests, and any number  *)
(* of faults.                                                              *)
(*                                                                         *)
(* Whatever api-service does, metadata-service behaves as Metadata says,   *)
(* so that its theorems hold here too.  GatewayInv is the inductive        *)
(* invariant: it says what each handler carries from one upstream call to  *)
(* the next, and which bytes it relies on.                                 *)
(*                                                                         *)
(* TurnsInv is the inductive invariant of clients that take turns, while   *)
(* nothing fails: to them the composition is an object store.              *)
(***************************************************************************)
EXTENDS Gateway, MetadataProofs

-----------------------------------------------------------------------------
(* What a request of metadata-service does to the objects and the puts.    *)

\* The upsert of a put, and what its response says about it.
LEMMA WriteEffect ==
    ASSUME TypeOK, NEW h \in Handlers, PutObjectWrite(h)
    PROVE  LET put == pending[h]
           IN  /\ put \in [name : Names, key : Keys, ref : Refs]
               /\ pending' = [pending EXCEPT ![h] = NoPut]
               /\ \/ /\ reply'.status = 500
                     /\ objects' = objects
                  \/ /\ reply'.status = 201
                     /\ put.key \in StorableKeys
                     /\ objects' = [objects EXCEPT ![<<put.name, put.key>>] =
                                      [ref |-> put.ref, deleted |-> FALSE]]
<1> DEFINE put == pending[h]
<1>1. put \in [name : Names, key : Keys, ref : Refs]
  BY DEF TypeOK, PutObjectWrite
<1>2. PICK err \in RepoErrors :
        /\ ObjectPut(put.name, put.key, put.ref, err)
        /\ Respond("PutObject", put.name, put.key, err)
  BY DEF PutObjectWrite
<1>3. CASE err = "ok"
  BY <1>1, <1>2, <1>3 DEF PutObjectWrite, ObjectPut, Respond, Success
<1>4. CASE err = "Internal"
  BY <1>1, <1>2, <1>4 DEF PutObjectWrite, ObjectPut, Respond, WriteError, repo
<1>5. QED
  BY <1>2, <1>3, <1>4 DEF ObjectPut

\* The bucket check of a put.
LEMMA CheckEffect ==
    ASSUME NEW h \in Handlers, NEW n \in Names,
           NEW k \in Keys \union {Missing}, NEW ref \in Refs \union {Missing},
           PutObjectCheck(h, n, k, ref), TypeOK
    PROVE  /\ objects' = objects
           /\ pending[h] = NoPut
           /\ \/ /\ pending' = pending
                 /\ reply'.status \in {400, 404}
              \/ /\ k \in Keys /\ ref \in Refs
                 /\ pending' = [pending EXCEPT ![h] =
                                  [name |-> n, key |-> k, ref |-> ref]]
                 /\ pending'[h] # NoPut
<1>1. CASE Reject("PutObject", n, k, "InvalidInput") /\ UNCHANGED pending
  BY <1>1 DEF PutObjectCheck, Reject, Respond, WriteError, repo
<1>2. CASE Reject("PutObject", n, k, "NotFound") /\ UNCHANGED pending
  BY <1>2 DEF PutObjectCheck, Reject, Respond, WriteError, repo
<1>3. CASE /\ k # Missing /\ ref # Missing
           /\ pending' = [pending EXCEPT ![h] =
                            [name |-> n, key |-> k, ref |-> ref]]
           /\ UNCHANGED <<records, ownerIdx, objects, reply>>
  <2>1. [name |-> n, key |-> k, ref |-> ref] # NoPut
    BY <1>3, MetadataAssumption
  <2>2. QED
    BY <1>3, <2>1 DEF PutObjectCheck, TypeOK
<1>4. QED
  BY <1>1, <1>2, <1>3 DEF PutObjectCheck

\* The deletion of an object: one that is live goes, and no other does.
LEMMA DeleteEffect ==
    ASSUME TypeOK, NEW n \in Names, NEW k \in Keys, DeleteObject(n, k)
    PROVE  /\ pending' = pending
           /\ \/ /\ objects' = objects
                 /\ ~LiveObject(n, k) \/ k \notin StorableKeys
              \/ /\ LiveObject(n, k)
                 /\ objects' = [objects EXCEPT ![<<n, k>>].deleted = TRUE]
<1>1. k # Missing
  BY MetadataAssumption
<1>2. QED
  BY <1>1 DEF DeleteObject, ObjectDelete, Reject, repo

\* The requests about buckets touch neither.
LEMMA BucketEffect ==
    ASSUME NEW n \in Names, NEW o \in Owners \union {Missing},
           CreateBucket(n, o) \/ DeleteBucket(n)
    PROVE  UNCHANGED <<objects, pending>>
BY DEF CreateBucket, DeleteBucket, Reject, BucketCreate, BucketDelete, repo

-----------------------------------------------------------------------------
(* Types.                                                                  *)

\* The record a slot holds, field by field.
LEMMA SlotTypes ==
    ASSUME GatewayTypeOK, NEW g \in Slots, slot[g] # Free
    PROVE  /\ slot[g] \in Request
           /\ slot[g].name \in Names /\ slot[g].op \in BucketOps
           /\ slot[g].who \in Principals
           /\ slot[g].key \in Keys \union {Missing}
           /\ slot[g].ref \in Refs \union {Missing}
           /\ slot[g].via \in Handlers \union {NoHandler}
           /\ slot[g].pc = "saving" => slot[g].via \in Handlers
BY DEF GatewayTypeOK, Request

\* A delete that has looked its record up names a key, and so does the path
\* its key becomes.
LEMMA DeleteKey ==
    ASSUME GatewayTypeOK, CarriedOver, NEW g \in Slots, slot[g] # Free,
           slot[g].op = "DeleteObject", slot[g].pc \in {"unlink", "meta"}
    PROVE  /\ slot[g].key \in Keys /\ UrlKey[slot[g].key] \in Keys
           /\ slot[g].ref \in Refs
BY RepoAssumption, GatewayAssumption DEF CarriedOver

\* A finished request leaves its slot to the next one.
LEMMA FinishTypes ==
    ASSUME GatewayTypeOK, NEW g \in Slots, slot[g] # Free,
           NEW status \in {200, 201, 204, 400, 403, 404, 409, 502},
           NEW body \in Bodies, Finish(g, status, body)
    PROVE  /\ answer' \in [op : ClientOps, at : Subjects,
                           status : {200, 201, 204, 400, 403, 404, 409, 502},
                           body : Bodies]
           /\ slot' = [slot EXCEPT ![g] = Free]
BY SlotTypes DEF Finish, Answer, Subjects, ClientOps

LEMMA UpstreamTypes ==
    ASSUME NEW status
    PROVE  Upstream(status) \in {400, 404, 409, 502}
BY DEF Upstream

\* Seen from metadata-service, a step of api-service is a request, a restart
\* or nothing.
LEMMA MetadataStep ==
    ASSUME GatewayTypeOK, CarriedOver, [GatewayNext]_allVars
    PROVE  [Next]_vars
<1>1. ASSUME NEW n \in Names, NEW o \in Principals, CreateBucket(n, o)
      PROVE  Next
  BY <1>1, GatewayAssumption DEF Next
<1>2. ASSUME NEW g \in Slots, slot[g] # Free, DeleteBucket(slot[g].name)
      PROVE  Next
  BY <1>2, SlotTypes DEF Next
<1>3. ASSUME NEW g \in Slots, NEW h \in Handlers, slot[g] # Free,
             PutObjectCheck(h, slot[g].name, slot[g].key, slot[g].ref)
      PROVE  Next
  BY <1>3, SlotTypes DEF Next
<1>4. ASSUME NEW g \in Slots, At(g, "saving"), PutObjectWrite(slot[g].via)
      PROVE  Next
  BY <1>4, SlotTypes DEF Next, At
<1>5. ASSUME NEW g \in Slots, At(g, "meta"), slot[g].op = "DeleteObject",
             DeleteObject(slot[g].name, UrlKey[slot[g].key])
      PROVE  Next
  BY <1>5, SlotTypes, DeleteKey DEF Next, At
<1>6. ASSUME NEW h \in Handlers, PutObjectWrite(h)
      PROVE  Next
  BY <1>6 DEF Next
<1>7. ASSUME Restart
      PROVE  Next
  BY <1>7 DEF Next
<1>8. CASE Arrive
  <2>1. ASSUME NEW n \in Names, NEW o \in Principals, GwCreateBucket(n, o)
        PROVE  Next
    BY <2>1, <1>1 DEF GwCreateBucket
  <2>2. \A o \in Principals : GwListBuckets(o) => UNCHANGED vars
    BY DEF GwListBuckets
  <2>3. \A g \in Slots, who \in Principals, op \in BucketOps, n \in Names,
           k \in Keys \union {Missing}, ref \in Refs \union {Missing} :
             Authorize(g, who, op, n, k, ref) => UNCHANGED vars
    BY DEF Authorize
  <2>4. QED
    BY <1>8, <2>1, <2>2, <2>3 DEF Arrive, BucketOps
<1>9. ASSUME NEW g \in Slots, Proceed(g)
      PROVE  [Next]_vars
  BY <1>9, <1>2, <1>3, <1>4, <1>5
     DEF Proceed, At, GwDeleteBucket, Write, PutSaved, Undo, PutMeta, List,
         Lookup, Read, Unlink, GwDeleteObject
<1>10. ASSUME NEW h \in Handlers, LateWrite(h)
       PROVE  [Next]_vars
  BY <1>10, <1>6 DEF LateWrite
<1>11. CASE Fail
  <2>1. ASSUME NEW g \in Slots, ResponseLost(g)
        PROVE  [Next]_vars
    BY <2>1, <1>2, <1>4, <1>5 DEF ResponseLost, At
  <2>2. QED
    BY <1>11, <2>1, <1>1, <1>7
       DEF Fail, FirstLost, CallLost, GwRestart, MetaRestart
<1>12. CASE UNCHANGED allVars
  BY <1>12 DEF allVars
<1>13. QED
  BY <1>8, <1>9, <1>10, <1>11, <1>12 DEF GatewayNext

-----------------------------------------------------------------------------
(* What the handlers carry: one lemma per way a step changes the slots.    *)

\* GatewayTypeOK and CarriedOver, for one record of a slot.
RecordOK(r) ==
    /\ r \in Request
    /\ r.pc = "saving" <=> r.via # NoHandler
    /\ r.pc \in {"write", "saving", "undo"} => r.op = "PutObject"
    /\ r.pc = "unlink" => r.op = "DeleteObject"
    /\ r.pc = "lookup" => r.op \in {"GetObject", "HeadObject", "DeleteObject"}
    /\ r.op = "PutObject" => r.ref \in Refs
    /\ r.op = "DeleteObject" /\ r.pc \in {"unlink", "meta"} =>
         r.ref \in Refs /\ r.key \in StorableKeys

SlotsOK ==
    /\ slot \in [Slots -> Request \union {Free}]
    /\ \A g \in Slots : slot[g] # Free => RecordOK(slot[g])
    /\ \A g \in Slots : At(g, "saving") => pending[slot[g].via] # NoPut
    /\ PendingMatched

StorableOnly ==
    \A n \in Names, k \in Keys : LiveObject(n, k) => k \in StorableKeys

LEMMA SlotsFromInv ==
    ASSUME GatewayTypeOK, CarriedOver, PendingMatched
    PROVE  SlotsOK /\ StorableOnly
BY DEF GatewayTypeOK, CarriedOver, SlotsOK, StorableOnly, RecordOK, At

PCs == {"write", "meta", "saving", "undo", "lookup", "read", "unlink", "list"}

\* The same request, seen by its client.
SameRequest(q, r) ==
    q.op = r.op /\ q.who = r.who /\ q.name = r.name /\ q.key = r.key

\* The records a slot moves to.
Undone(r, status) ==
    [r EXCEPT !.pc = "undo", !.via = NoHandler, !.status = status]

FoundOf(r, ref, pc) == [r EXCEPT !.ref = ref, !.pc = pc]

\* The next call of a request: only pc changes.
LEMMA GotoUpdate ==
    ASSUME NEW r \in Request, NEW pc \in PCs
    PROVE  LET q == [r EXCEPT !.pc = pc]
           IN  /\ q \in Request /\ SameRequest(q, r)
               /\ q.pc = pc /\ q.via = r.via /\ q.ref = r.ref
BY DEF Request, PCs, SameRequest

\* A put that metadata-service has accepted.
LEMMA SaveUpdate ==
    ASSUME NEW r \in Request, NEW via \in Handlers
    PROVE  LET q == [r EXCEPT !.pc = "saving", !.via = via]
           IN  /\ q \in Request /\ SameRequest(q, r)
               /\ q.pc = "saving" /\ q.via = via /\ q.ref = r.ref
<1> DEFINE q1 == [r EXCEPT !.pc = "saving"]
           q2 == [q1 EXCEPT !.via = via]
<1>1. /\ q1 \in Request /\ SameRequest(q1, r)
      /\ q1.pc = "saving" /\ q1.ref = r.ref
  BY DEF Request, SameRequest
<1> HIDE DEF q1
<1>2. /\ q2 \in Request /\ SameRequest(q2, q1)
      /\ q2.pc = q1.pc /\ q2.ref = q1.ref /\ q2.via = via
  BY <1>1 DEF Request, SameRequest
<1> USE DEF q1
<1>3. [r EXCEPT !.pc = "saving", !.via = via] = q2
  OBVIOUS
<1> HIDE DEF q1, q2
<1>4. QED
  BY <1>1, <1>2, <1>3 DEF SameRequest

\* A put whose metadata call has failed.
LEMMA UndoUpdate ==
    ASSUME NEW r \in Request, NEW status \in {201, 400, 404, 502}
    PROVE  LET q == Undone(r, status)
           IN  /\ q \in Request /\ SameRequest(q, r)
               /\ q.pc = "undo" /\ q.via = NoHandler /\ q.ref = r.ref
               /\ q.status = status
<1> DEFINE q1 == [r EXCEPT !.pc = "undo"]
           q2 == [q1 EXCEPT !.via = NoHandler]
           q3 == [q2 EXCEPT !.status = status]
<1>1. /\ q1 \in Request /\ SameRequest(q1, r)
      /\ q1.pc = "undo" /\ q1.ref = r.ref
  BY DEF Request, SameRequest
<1> HIDE DEF q1
<1>2. /\ q2 \in Request /\ SameRequest(q2, q1)
      /\ q2.pc = q1.pc /\ q2.ref = q1.ref /\ q2.via = NoHandler
  BY <1>1 DEF Request, SameRequest
<1> HIDE DEF q2
<1>3. /\ q3 \in Request /\ SameRequest(q3, q2)
      /\ q3.pc = q2.pc /\ q3.ref = q2.ref /\ q3.via = q2.via
      /\ q3.status = status
  BY <1>2 DEF Request, SameRequest
<1> USE DEF q1, q2
<1>4. Undone(r, status) = q3
  BY DEF Undone
<1> HIDE DEF q1, q2, q3
<1>5. QED
  BY <1>1, <1>2, <1>3, <1>4 DEF SameRequest

\* A get or a delete that has found its object.
LEMMA FindUpdate ==
    ASSUME NEW r \in Request, NEW ref \in Refs, NEW pc \in PCs
    PROVE  LET q == FoundOf(r, ref, pc)
           IN  /\ q \in Request /\ SameRequest(q, r)
               /\ q.pc = pc /\ q.via = r.via /\ q.ref = ref
<1> DEFINE q1 == [r EXCEPT !.ref = ref]
           q2 == [q1 EXCEPT !.pc = pc]
<1>1. /\ q1 \in Request /\ SameRequest(q1, r)
      /\ q1.via = r.via /\ q1.ref = ref
  BY DEF Request, SameRequest
<1> HIDE DEF q1
<1>2. /\ q2 \in Request /\ SameRequest(q2, q1)
      /\ q2.pc = pc /\ q2.ref = q1.ref /\ q2.via = q1.via
  BY <1>1 DEF Request, SameRequest, PCs
<1> USE DEF q1
<1>3. FoundOf(r, ref, pc) = q2
  BY DEF FoundOf
<1> HIDE DEF q1, q2
<1>4. QED
  BY <1>1, <1>2, <1>3 DEF SameRequest

\* A slot gets another record, or none, and metadata-service is not involved.
LEMMA SlotStep ==
    ASSUME SlotsOK, NEW g \in Slots, NEW r, r = Free \/ (RecordOK(r) /\ r.pc # "saving"),
           slot' = [slot EXCEPT ![g] = r], pending' = pending,
           torn \subseteq torn', At(g, "saving") => Blob(g) \in torn'
    PROVE  SlotsOK'
<1>1. /\ slot'[g] = r
      /\ \A f \in Slots : f # g => slot'[f] = slot[f]
      /\ slot' \in [Slots -> Request \union {Free}]
  BY DEF SlotsOK, RecordOK
<1>2. \A f \in Slots : At(f, "saving")' => f # g /\ At(f, "saving")
  BY <1>1 DEF At
<1>3. \A f \in Slots : slot'[f] # Free => RecordOK(slot'[f])
  BY <1>1 DEF SlotsOK
<1>4. ASSUME NEW h \in Handlers, pending[h] # NoPut,
             \A f \in Slots : slot'[f] # Free => slot'[f].via # h
      PROVE  <<pending[h].name, pending[h].ref>> \in torn'
  <2>1. CASE \A f \in Slots : slot[f] # Free => slot[f].via # h
    BY <1>4, <2>1 DEF SlotsOK, PendingMatched
  <2>2. CASE slot[g] # Free /\ slot[g].via = h
    <3>1. At(g, "saving")
      BY <2>2, GatewayAssumption DEF SlotsOK, RecordOK, At
    <3>2. pending[h] = [name |-> slot[g].name, key |-> slot[g].key,
                        ref |-> slot[g].ref]
      BY <2>2, <3>1 DEF SlotsOK, PendingMatched
    <3>3. QED
      BY <3>1, <3>2 DEF Blob
  <2>3. QED
    BY <1>1, <1>4, <2>1, <2>2
<1>5. PendingMatched'
  <2>1. \A f \in Slots : At(f, "saving")' =>
          pending'[slot'[f].via] = [name |-> slot'[f].name, key |-> slot'[f].key,
                                    ref |-> slot'[f].ref]
    BY <1>1, <1>2 DEF SlotsOK, PendingMatched
  <2>2. \A e, f \in Slots : At(e, "saving")' /\ At(f, "saving")'
                             /\ slot'[e].via = slot'[f].via => e = f
    BY <1>1, <1>2 DEF SlotsOK, PendingMatched
  <2>3. QED
    BY <1>4, <2>1, <2>2 DEF PendingMatched
<1>6. QED
  BY <1>1, <1>2, <1>3, <1>5 DEF SlotsOK

\* metadata-service has accepted a put and looked its bucket up.
LEMMA SlotsAccept ==
    ASSUME SlotsOK, TypeOK, NEW g \in Slots, NEW h \in Handlers,
           At(g, "meta"), slot[g].op = "PutObject", pending[h] = NoPut,
           pending' = [pending EXCEPT ![h] =
                         [name |-> slot[g].name, key |-> slot[g].key,
                          ref |-> slot[g].ref]],
           pending'[h] # NoPut,
           slot' = [slot EXCEPT ![g] = [@ EXCEPT !.pc = "saving", !.via = h]],
           torn' = torn
    PROVE  SlotsOK'
<1> DEFINE r == [slot[g] EXCEPT !.pc = "saving", !.via = h]
<1>1. /\ slot[g] # Free /\ RecordOK(slot[g]) /\ slot[g].via = NoHandler
      /\ h # NoHandler
  BY GatewayAssumption DEF SlotsOK, At, RecordOK
<1>2. /\ slot' = [slot EXCEPT ![g] = r]
      /\ RecordOK(r) /\ r.pc = "saving" /\ r.via = h
      /\ r.name = slot[g].name /\ r.key = slot[g].key /\ r.ref = slot[g].ref
  <2>1. slot' = [slot EXCEPT ![g] = r]
    OBVIOUS
  <2>2. /\ r \in Request /\ SameRequest(r, slot[g])
        /\ r.pc = "saving" /\ r.via = h /\ r.ref = slot[g].ref
    BY <1>1, SaveUpdate DEF RecordOK
  <2> HIDE DEF r
  <2>3. QED
    BY <1>1, <2>1, <2>2 DEF RecordOK, SameRequest
<1> HIDE DEF r
<1>3. /\ slot'[g] = r
      /\ \A f \in Slots : f # g => slot'[f] = slot[f]
      /\ slot' \in [Slots -> Request \union {Free}]
  BY <1>2 DEF SlotsOK, RecordOK
<1>4. \A f \in Slots : At(f, "saving") => f # g /\ slot[f].via # h
  <2>1. \A f \in Slots : At(f, "saving") => pending[slot[f].via] # NoPut
    BY DEF SlotsOK
  <2>2. \A f \in Slots : At(f, "saving") => slot[f].via # h
    BY <2>1
  <2>3. \A f \in Slots : At(f, "saving") => f # g
    BY DEF At
  <2>4. QED
    BY <2>2, <2>3
<1>5. \A f \in Slots : At(f, "saving")' => f = g \/ (At(f, "saving") /\ f # g)
  BY <1>3 DEF At
<1>6. \A f \in Slots : At(f, "saving") => slot[f].via \in Handlers
  BY DEF At, SlotsOK, RecordOK, Request
<1>7. \A i \in Handlers : pending'[i] = IF i = h
                              THEN [name |-> slot[g].name, key |-> slot[g].key,
                                    ref |-> slot[g].ref]
                              ELSE pending[i]
  BY DEF TypeOK
<1>8. PendingMatched'
  <2>1. \A f \in Slots : At(f, "saving")' =>
          pending'[slot'[f].via] = [name |-> slot'[f].name, key |-> slot'[f].key,
                                    ref |-> slot'[f].ref]
    BY <1>2, <1>3, <1>4, <1>5, <1>6, <1>7 DEF SlotsOK, PendingMatched
  <2>2. \A e, f \in Slots : At(e, "saving")' /\ At(f, "saving")'
                             /\ slot'[e].via = slot'[f].via => e = f
    BY <1>2, <1>3, <1>4, <1>5 DEF SlotsOK, PendingMatched
  <2>3. \A i \in Handlers :
          pending'[i] # NoPut
          /\ (\A f \in Slots : slot'[f] # Free => slot'[f].via # i)
          => <<pending'[i].name, pending'[i].ref>> \in torn'
    <3>1. ASSUME NEW i \in Handlers, pending'[i] # NoPut,
                 \A f \in Slots : slot'[f] # Free => slot'[f].via # i
          PROVE  <<pending'[i].name, pending'[i].ref>> \in torn'
      <4>1. i # h
        BY <1>2, <1>3, <3>1, FreeAssumption DEF RecordOK
      <4>2. \A f \in Slots : slot[f] # Free => slot[f].via # i
        BY <1>1, <1>3, <3>1, GatewayAssumption
      <4>3. QED
        BY <1>7, <3>1, <4>1, <4>2 DEF SlotsOK, PendingMatched
    <3>2. QED
      BY <3>1
  <2>4. QED
    BY <2>1, <2>2, <2>3 DEF PendingMatched
<1>9. \A f \in Slots : slot'[f] # Free => RecordOK(slot'[f])
  BY <1>2, <1>3 DEF SlotsOK
<1>10. \A f \in Slots : At(f, "saving")' => pending'[slot'[f].via] # NoPut
  BY <1>2, <1>3, <1>4, <1>5, <1>6, <1>7 DEF SlotsOK
<1>11. QED
  BY <1>3, <1>8, <1>9, <1>10 DEF SlotsOK

\* metadata-service has written a put, and its caller, if it still waits,
\* moves on.
LEMMA SlotsWritten ==
    ASSUME SlotsOK, TypeOK, NEW h \in Handlers,
           pending' = [pending EXCEPT ![h] = NoPut], torn \subseteq torn',
           \/ /\ slot' = slot
              /\ \A g \in Slots : slot[g] # Free => slot[g].via # h
           \/ \E g \in Slots :
                /\ At(g, "saving") /\ slot[g].via = h
                /\ \E r : /\ r = Free \/ (RecordOK(r) /\ r.pc # "saving")
                          /\ slot' = [slot EXCEPT ![g] = r]
    PROVE  SlotsOK'
<1>1. \A i \in Handlers : pending'[i] = IF i = h THEN NoPut ELSE pending[i]
  BY DEF TypeOK
<1>2. \A f \in Slots : At(f, "saving") => slot[f].via \in Handlers
  BY DEF At, SlotsOK, RecordOK, Request
<1>3. CASE slot' = slot /\ \A g \in Slots : slot[g] # Free => slot[g].via # h
  <2>1. \A f \in Slots : At(f, "saving")' => At(f, "saving") /\ slot[f].via # h
    BY <1>3 DEF At
  <2>2. PendingMatched'
    BY <1>1, <1>2, <1>3, <2>1 DEF SlotsOK, PendingMatched
  <2>3. QED
    BY <1>1, <1>2, <1>3, <2>1, <2>2 DEF SlotsOK
<1>4. ASSUME NEW g \in Slots, At(g, "saving"), slot[g].via = h, NEW r,
             r = Free \/ (RecordOK(r) /\ r.pc # "saving"),
             slot' = [slot EXCEPT ![g] = r]
      PROVE  SlotsOK'
  <2>1. /\ slot'[g] = r
        /\ \A f \in Slots : f # g => slot'[f] = slot[f]
        /\ slot' \in [Slots -> Request \union {Free}]
    BY <1>4 DEF SlotsOK, RecordOK
  <2>2. \A f \in Slots : At(f, "saving")' => f # g /\ At(f, "saving")
    BY <1>4, <2>1 DEF At
  <2>3. \A f \in Slots : At(f, "saving")' => slot[f].via # h
    BY <1>4, <2>2 DEF SlotsOK, PendingMatched
  <2>4. \A f \in Slots : slot'[f] # Free => RecordOK(slot'[f])
    BY <1>4, <2>1 DEF SlotsOK
  <2>5. ASSUME NEW i \in Handlers, pending'[i] # NoPut,
               \A f \in Slots : slot'[f] # Free => slot'[f].via # i
        PROVE  <<pending'[i].name, pending'[i].ref>> \in torn'
    <3>1. i # h
      BY <1>1, <2>5
    <3>2. \A f \in Slots : slot[f] # Free => slot[f].via # i
      BY <1>4, <2>1, <2>5, <3>1
    <3>3. QED
      BY <1>1, <2>5, <3>1, <3>2 DEF SlotsOK, PendingMatched
  <2>6. \A f \in Slots : At(f, "saving")' =>
          pending'[slot'[f].via] = [name |-> slot'[f].name, key |-> slot'[f].key,
                                    ref |-> slot'[f].ref]
    BY <1>1, <1>2, <2>1, <2>2, <2>3 DEF SlotsOK, PendingMatched
  <2>7. \A e, f \in Slots : At(e, "saving")' /\ At(f, "saving")'
                             /\ slot'[e].via = slot'[f].via => e = f
    BY <2>1, <2>2 DEF SlotsOK, PendingMatched
  <2>8. PendingMatched'
    BY <2>5, <2>6, <2>7 DEF PendingMatched
  <2>9. \A f \in Slots : At(f, "saving")' => pending'[slot'[f].via] # NoPut
    BY <1>1, <1>2, <2>1, <2>2, <2>3 DEF SlotsOK
  <2>10. QED
    BY <2>1, <2>4, <2>8, <2>9 DEF SlotsOK
<1>5. QED
  BY <1>3, <1>4

\* api-service has lost its requests; metadata-service has not.
LEMMA SlotsRestart ==
    ASSUME SlotsOK, pending' = pending, slot' = [g \in Slots |-> Free],
           torn \subseteq torn',
           \A g \in Slots : At(g, "saving") => Blob(g) \in torn'
    PROVE  SlotsOK'
<1>1. \A f \in Slots : slot'[f] = Free
  OBVIOUS
<1>2. ASSUME NEW h \in Handlers, pending[h] # NoPut
      PROVE  <<pending[h].name, pending[h].ref>> \in torn'
  <2>1. CASE \A f \in Slots : slot[f] # Free => slot[f].via # h
    BY <1>2, <2>1 DEF SlotsOK, PendingMatched
  <2>2. ASSUME NEW g \in Slots, slot[g] # Free, slot[g].via = h
        PROVE  <<pending[h].name, pending[h].ref>> \in torn'
    <3>1. At(g, "saving")
      BY <2>2, GatewayAssumption DEF SlotsOK, RecordOK, At
    <3>2. pending[h] = [name |-> slot[g].name, key |-> slot[g].key,
                        ref |-> slot[g].ref]
      BY <2>2, <3>1 DEF SlotsOK, PendingMatched
    <3>3. QED
      BY <3>1, <3>2 DEF Blob
  <2>3. QED
    BY <2>1, <2>2
<1>3. PendingMatched'
  BY <1>1, <1>2 DEF PendingMatched, At
<1>4. QED
  BY <1>1, <1>3 DEF SlotsOK, At

\* metadata-service has lost its puts, and their callers undo them.
LEMMA SlotsCut ==
    ASSUME SlotsOK, pending' = [h \in Handlers |-> NoPut],
           \A f \in Slots : ~At(f, "saving") => slot'[f] = slot[f],
           \A f \in Slots : At(f, "saving") =>
             /\ slot'[f] \in Request /\ SameRequest(slot'[f], slot[f])
             /\ slot'[f].pc = "undo" /\ slot'[f].via = NoHandler
             /\ slot'[f].ref = slot[f].ref,
           slot' \in [Slots -> Request \union {Free}]
    PROVE  SlotsOK'
<1>1. \A f \in Slots : ~At(f, "saving")'
  BY FreeAssumption DEF At
<1>2. \A f \in Slots : slot'[f] # Free => RecordOK(slot'[f])
  <2>1. ASSUME NEW f \in Slots, At(f, "saving")
        PROVE  RecordOK(slot'[f])
    <3>1. /\ RecordOK(slot[f]) /\ slot'[f] \in Request
          /\ slot'[f].op = slot[f].op /\ slot'[f].pc = "undo"
          /\ slot'[f].via = NoHandler /\ slot'[f].ref = slot[f].ref
      BY <2>1 DEF SlotsOK, At, SameRequest
    <3>2. slot[f].op = "PutObject"
      BY <2>1, <3>1 DEF RecordOK, At
    <3>3. QED
      BY <3>1, <3>2 DEF RecordOK
  <2>2. QED
    BY <2>1 DEF SlotsOK
<1>3. PendingMatched'
  BY <1>1 DEF PendingMatched
<1>4. QED
  BY <1>1, <1>2, <1>3 DEF SlotsOK

-----------------------------------------------------------------------------
(* What one step does to a slot.                                           *)

\* A put has stored its bytes, or a delete has removed them.
LEMMA GotoMove ==
    ASSUME SlotsOK, NEW g \in Slots, At(g, "write") \/ At(g, "unlink"),
           Goto(g, "meta")
    PROVE  \E r \in Request :
             /\ slot' = [slot EXCEPT ![g] = r]
             /\ SameRequest(r, slot[g]) /\ r.pc = "meta"
             /\ r.ref = slot[g].ref /\ RecordOK(r)
<1> DEFINE r == [slot[g] EXCEPT !.pc = "meta"]
<1>1. slot[g] \in Request /\ RecordOK(slot[g])
  BY DEF SlotsOK, At, RecordOK
<1>2. slot' = [slot EXCEPT ![g] = r]
  BY DEF Goto
<1>3. /\ r \in Request /\ SameRequest(r, slot[g])
      /\ r.pc = "meta" /\ r.via = slot[g].via /\ r.ref = slot[g].ref
  BY <1>1, GotoUpdate DEF PCs
<1> HIDE DEF r
<1>4. RecordOK(r)
  <2>1. r.via = NoHandler
    BY <1>1, <1>3 DEF RecordOK, At
  <2>2. slot[g].op = "PutObject" \/ slot[g].pc = "unlink"
    BY <1>1 DEF RecordOK, At
  <2>3. QED
    BY <1>1, <1>3, <2>1, <2>2 DEF RecordOK, SameRequest
<1>5. QED
  BY <1>2, <1>3, <1>4

\* A put goes back.
LEMMA UndoMove ==
    ASSUME SlotsOK, NEW g \in Slots, slot[g] # Free,
           slot[g].op = "PutObject",
           NEW status \in {400, 404, 502}, GotoUndo(g, status)
    PROVE  \E r \in Request :
             /\ slot' = [slot EXCEPT ![g] = r]
             /\ SameRequest(r, slot[g]) /\ r.pc = "undo" /\ r.via = NoHandler
             /\ r.ref = slot[g].ref /\ r.status = status /\ RecordOK(r)
<1> DEFINE r == Undone(slot[g], status)
<1>1. slot[g] \in Request /\ RecordOK(slot[g])
  BY DEF SlotsOK, RecordOK
<1>2. slot' = [slot EXCEPT ![g] = r]
  BY DEF GotoUndo, Undone
<1>3. /\ r \in Request /\ SameRequest(r, slot[g])
      /\ r.pc = "undo" /\ r.via = NoHandler /\ r.ref = slot[g].ref
      /\ r.status = status
  <2>1. status \in {201, 400, 404, 502}
    OBVIOUS
  <2>2. QED
    BY <1>1, <2>1, UndoUpdate
<1> HIDE DEF r
<1>4. RecordOK(r)
  BY <1>1, <1>3 DEF RecordOK, SameRequest
<1>5. QED
  BY <1>2, <1>3, <1>4

\* A request begins.
LEMMA BeginMove ==
    ASSUME NEW g \in Slots, NEW who \in Principals, NEW op \in BucketOps,
           NEW n \in Names, NEW k \in Keys \union {Missing},
           NEW ref \in Refs \union {Missing},
           op = "PutObject" => ref \in Refs,
           op \in {"PutObject"} \/ ref = Missing,
           Authorize(g, who, op, n, k, ref), slot' # slot
    PROVE  \E r \in Request :
             /\ slot[g] = Free /\ slot' = [slot EXCEPT ![g] = r]
             /\ RecordOK(r) /\ r.pc \in {"write", "meta", "lookup", "list"}
             /\ r.pc = "meta" => r.op = "DeleteBucket"
             /\ r.op # "PutObject" => r.ref = Missing
             /\ r.pc = "list" => r.op = "ListObjects"
             /\ r.op = op /\ r.name = n /\ r.key = k /\ r.ref = ref
             /\ LiveBucket(r.name) /\ records[r.name].owner = r.who
             /\ UNCHANGED answer
<1> DEFINE r == [pc |-> FirstCall(op), op |-> op, who |-> who, name |-> n,
                 key |-> k, ref |-> ref, via |-> NoHandler, status |-> 201]
<1>1. /\ slot[g] = Free /\ slot' = [slot EXCEPT ![g] = r]
      /\ LiveBucket(n) /\ records[n].owner = who /\ UNCHANGED answer
  BY DEF Authorize
<1>2. /\ FirstCall(op) \in {"write", "meta", "lookup", "list"}
      /\ FirstCall(op) = "meta" => op = "DeleteBucket"
      /\ FirstCall(op) = "write" => op = "PutObject"
      /\ FirstCall(op) = "list" => op = "ListObjects"
      /\ FirstCall(op) = "lookup" => op \in {"GetObject", "HeadObject", "DeleteObject"}
  BY DEF FirstCall, BucketOps
<1>3. r \in Request
  BY <1>2 DEF Request
<1>4. /\ r.pc = FirstCall(op) /\ r.op = op /\ r.who = who /\ r.name = n
      /\ r.key = k /\ r.ref = ref /\ r.via = NoHandler
  OBVIOUS
<1> HIDE DEF r
<1>5. RecordOK(r)
  BY <1>2, <1>3, <1>4 DEF RecordOK
<1>6. QED
  BY <1>1, <1>2, <1>3, <1>4, <1>5

\* A get or a delete has found its object.
LEMMA FoundMove ==
    ASSUME SlotsOK, TypeOK, StorableOnly, NEW g \in Slots, At(g, "lookup"), Found(g),
           slot[g].op # "HeadObject",
           slot' = [slot EXCEPT ![g] =
               [@ EXCEPT !.ref = FoundRef(g),
                         !.pc = IF slot[g].op = "GetObject" THEN "read"
                                                            ELSE "unlink"]],
           slot[g].op \in {"GetObject", "DeleteObject"}
    PROVE  \E r \in Request :
             /\ slot' = [slot EXCEPT ![g] = r]
             /\ SameRequest(r, slot[g]) /\ RecordOK(r)
             /\ r.pc = IF slot[g].op = "GetObject" THEN "read" ELSE "unlink"
             /\ r.key \in Keys
             /\ r.ref \in Refs /\ RefersTo(UrlKey[r.key], <<r.name, r.ref>>)
<1> DEFINE pc == IF slot[g].op = "GetObject" THEN "read" ELSE "unlink"
           ref == FoundRef(g)
           r == FoundOf(slot[g], ref, pc)
<1>1. slot[g] \in Request /\ RecordOK(slot[g]) /\ slot[g].via = NoHandler
  BY DEF SlotsOK, At, RecordOK
<1>2. /\ slot[g].key \in StorableKeys /\ slot[g].key \in Keys
      /\ UrlKey[slot[g].key] \in Keys /\ slot[g].name \in Names
  BY <1>1, RepoAssumption, GatewayAssumption DEF Found, Addressable, Request
<1>3. LiveObject(slot[g].name, UrlKey[slot[g].key]) /\ ref \in Refs
  <2>1. LiveObject(slot[g].name, UrlKey[slot[g].key])
    BY DEF Found
  <2>2. objects[<<slot[g].name, UrlKey[slot[g].key]>>] \in Object \union {NoRecord}
    BY <1>2 DEF TypeOK, RepoTypeOK
  <2>3. objects[<<slot[g].name, UrlKey[slot[g].key]>>].ref \in Refs
    BY <2>1, <2>2 DEF LiveObject, Object
  <2>4. QED
    BY <2>1, <2>3 DEF FoundRef
<1>4. ref = objects[<<slot[g].name, UrlKey[slot[g].key]>>].ref
  BY DEF FoundRef
<1>5. slot' = [slot EXCEPT ![g] = r]
  BY DEF FoundOf
<1> HIDE DEF ref
<1>6. /\ r \in Request /\ SameRequest(r, slot[g])
      /\ r.pc = pc /\ r.via = slot[g].via /\ r.ref = ref
  <2>1. pc \in PCs
    BY DEF PCs
  <2> HIDE DEF pc
  <2>2. QED
    BY <1>1, <1>3, <2>1, FindUpdate
<1> HIDE DEF r
<1>7. RecordOK(r)
  BY <1>1, <1>2, <1>3, <1>6 DEF RecordOK, SameRequest
<1>8. r.key \in Keys /\ RefersTo(UrlKey[r.key], <<r.name, r.ref>>)
  BY <1>2, <1>3, <1>4, <1>6 DEF RefersTo, SameRequest
<1>9. QED
  BY <1>3, <1>5, <1>6, <1>7, <1>8

-----------------------------------------------------------------------------
(* What one step does to the slots, the bytes and the objects.             *)

\* A new request holds no bytes, and its caller owns the bucket.
Begins(q) ==
    /\ q.pc \in {"write", "meta", "lookup", "list"}
    /\ q.pc = "meta" => q.op = "DeleteBucket"
    /\ q.op # "PutObject" => q.ref = Missing
    /\ LiveBucket(q.name) /\ records[q.name].owner = q.who
    /\ UNCHANGED vars

GoesOn(r, q) ==
    \/ q.ref = r.ref /\ r.pc = "write" /\ q.pc = "meta"
         /\ <<r.name, r.ref>> \in blobs'
    \/ q.ref = r.ref /\ r.pc \in {"meta", "saving"} /\ r.op = "PutObject"
         /\ q.pc \in {"saving", "undo"}
    \/ q.ref = r.ref /\ r.pc = "unlink" /\ q.pc = "meta"
    \/ r.pc = "lookup" /\ q.pc = "read"
    \/ r.pc = "lookup" /\ q.pc = "unlink" /\ r.key \in Keys
         /\ RefersTo(UrlKey[r.key], <<r.name, q.ref>>)
         /\ UNCHANGED <<objects, blobs>>

\* After the step an object refers to the content.
SavedBy(name, ref) ==
    \E n \in Names, k \in Keys, r \in Refs :
      n = name /\ r = ref /\ RefersTo(k, <<n, r>>)'

\* A request that ends with its bytes in use: a put whose object refers to
\* them, or a delete whose object is gone.
Ends(r) ==
    \/ r.pc \in {"write", "lookup", "read", "list", "unlink", "undo"}
    \/ r.pc = "meta" /\ r.op = "DeleteBucket"
    \/ r.ref = Missing
    \/ r.pc = "saving" /\ SavedBy(r.name, r.ref)
    \/ r.pc = "meta" /\ r.op = "DeleteObject" /\ \E n \in Names, k \in Keys :
         n = r.name /\ k = UrlKey[r.key] /\ ~LiveObject(n, k)'
    \/ <<r.name, r.ref>> \in torn'

SlotMove(g) ==
    \/ slot'[g] = slot[g]
    \/ slot[g] = Free /\ slot'[g] # Free /\ Begins(slot'[g])
    \/ slot[g] # Free /\ slot'[g] # Free /\ SameRequest(slot'[g], slot[g])
         /\ GoesOn(slot[g], slot'[g])
    \/ slot[g] # Free /\ slot'[g] = Free /\ Ends(slot[g])

BlobMoves ==
    /\ \A x \in blobs : x \notin blobs' =>
         \/ x \in torn'
         \/ \E g \in Slots : At(g, "undo") /\ Blob(g) = x /\ slot'[g] = Free
         \/ \E g \in Slots : At(g, "unlink") /\ Blob(g) = x
                             /\ slot'[g] # Free /\ slot'[g].pc = "meta"
    /\ \A x \in blobs' : x \notin blobs =>
         \/ x \in torn'
         \/ \E g \in Slots : At(g, "write") /\ Blob(g) = x
                             /\ slot'[g] # Free /\ slot'[g].pc = "meta"

\* An object comes to refer to a content.
RefMoves ==
    \A n \in Names, k \in Keys, ref \in Refs :
        RefersTo(k, <<n, ref>>)' /\ ~RefersTo(k, <<n, ref>>) =>
            \/ <<n, ref>> \in torn'
            \/ \E g \in Slots : At(g, "saving") /\ Blob(g) = <<n, ref>>

StepFacts == SlotsOK' /\ (\A g \in Slots : SlotMove(g)) /\ BlobMoves /\ RefMoves

LEMMA BlobsSame ==
    ASSUME blobs' = blobs
    PROVE  BlobMoves
BY DEF BlobMoves

LEMMA RefsSame ==
    ASSUME objects' = objects
    PROVE  RefMoves
BY DEF RefMoves, RefersTo, LiveObject

LEMMA Focus ==
    ASSUME SlotsOK, NEW g \in Slots, NEW r, slot' = [slot EXCEPT ![g] = r],
           slot'[g] = r => SlotMove(g)
    PROVE  slot'[g] = r /\ \A f \in Slots : SlotMove(f)
<1>1. slot'[g] = r /\ \A f \in Slots : f # g => slot'[f] = slot[f]
  BY DEF SlotsOK
<1>2. QED
  BY <1>1 DEF SlotMove

\* A step that only ends a request that was not being saved.
LEMMA EndsOnly ==
    ASSUME SlotsOK, NEW g \in Slots, slot[g] # Free, slot[g].pc # "saving",
           slot' = [slot EXCEPT ![g] = Free], Ends(slot[g]),
           pending' = pending, torn \subseteq torn', BlobMoves, RefMoves
    PROVE  StepFacts
<1>1. SlotsOK'
  BY SlotStep DEF At
<1>2. \A f \in Slots : SlotMove(f)
  BY Focus DEF SlotMove
<1>3. QED
  BY <1>1, <1>2 DEF StepFacts

\* A step that does nothing to the slots.
LEMMA SlotsSame ==
    ASSUME SlotsOK, slot' = slot, pending' = pending, torn \subseteq torn',
           BlobMoves, RefMoves
    PROVE  StepFacts
<1>1. SlotsOK'
  BY DEF SlotsOK, At, PendingMatched
<1>2. \A f \in Slots : SlotMove(f)
  BY DEF SlotMove
<1>3. QED
  BY <1>1, <1>2 DEF StepFacts

-----------------------------------------------------------------------------
(* The steps, one by one.                                                  *)

\* Requests that arrive.
LEMMA ArriveFacts ==
    ASSUME SlotsOK, Arrive, torn' = torn
    PROVE  StepFacts
<1>1. ASSUME NEW o \in Principals, GwListBuckets(o)
      PROVE  StepFacts
  <2>1. UNCHANGED <<slot, blobs, objects, pending>>
    BY <1>1 DEF GwListBuckets, vars, repo
  <2>2. QED
    BY <2>1, BlobsSame, RefsSame, SlotsSame
<1>2. ASSUME NEW o \in Principals, NEW n \in Names, GwCreateBucket(n, o)
      PROVE  StepFacts
  <2>1. UNCHANGED <<slot, blobs, objects, pending>>
    BY <1>2, BucketEffect, GatewayAssumption DEF GwCreateBucket
  <2>2. QED
    BY <2>1, BlobsSame, RefsSame, SlotsSame
<1>3. ASSUME NEW g \in Slots, NEW who \in Principals, NEW op \in BucketOps,
             NEW n \in Names, NEW k \in Keys \union {Missing},
             NEW ref \in Refs \union {Missing},
             op = "PutObject" => ref \in Refs, op = "PutObject" \/ ref = Missing,
             Authorize(g, who, op, n, k, ref)
      PROVE  StepFacts
  <2>1. UNCHANGED <<blobs, objects, pending, vars>>
    BY <1>3 DEF Authorize, vars, repo
  <2>2. CASE slot' = slot
    BY <2>1, <2>2, BlobsSame, RefsSame, SlotsSame
  <2>3. CASE slot' # slot
    <3>1. PICK r \in Request :
             /\ slot[g] = Free /\ slot' = [slot EXCEPT ![g] = r]
             /\ RecordOK(r) /\ r.pc \in {"write", "meta", "lookup", "list"}
             /\ r.pc = "meta" => r.op = "DeleteBucket"
             /\ r.op # "PutObject" => r.ref = Missing
             /\ LiveBucket(r.name) /\ records[r.name].owner = r.who
      BY <1>3, <2>3, BeginMove
    <3>2. SlotsOK'
      BY <2>1, <3>1, SlotStep DEF At
    <3>3. \A f \in Slots : SlotMove(f)
      BY <2>1, <3>1, Focus, FreeAssumption DEF SlotMove, Begins
    <3>4. QED
      BY <2>1, <3>2, <3>3, BlobsSame, RefsSame DEF StepFacts
  <2>4. QED
    BY <2>2, <2>3
<1>4. QED
  <2>1. Missing \notin Refs
    BY MetadataAssumption
  <2>2. QED
    BY <1>1, <1>2, <1>3, <2>1 DEF Arrive, BucketOps

LEMMA WriteFacts ==
    ASSUME SlotsOK, NEW g \in Slots, Write(g), torn' = torn
    PROVE  StepFacts
<1>1. At(g, "write") /\ slot[g] # Free /\ slot[g].pc = "write"
  BY DEF Write, At
<1>2. UNCHANGED <<objects, pending>> /\ RefMoves
  BY RefsSame DEF Write, vars, repo
<1>3. CASE blobs' = blobs \union {Blob(g)} /\ Goto(g, "meta")
  <2>1. PICK r \in Request :
             /\ slot' = [slot EXCEPT ![g] = r]
             /\ SameRequest(r, slot[g]) /\ r.pc = "meta"
             /\ r.ref = slot[g].ref /\ RecordOK(r)
    BY <1>1, <1>3, GotoMove
  <2>2. SlotsOK'
    BY <1>1, <1>2, <2>1, SlotStep DEF At
  <2>3. GoesOn(slot[g], r)
    BY <1>1, <1>3, <2>1 DEF GoesOn, Blob
  <2>4. slot'[g] = r /\ \A f \in Slots : SlotMove(f)
    BY <1>1, <2>1, <2>3, Focus, FreeAssumption DEF SlotMove
  <2>5. BlobMoves
    BY <1>1, <1>3, <2>1, <2>4, FreeAssumption DEF BlobMoves
  <2>6. QED
    BY <1>2, <2>2, <2>4, <2>5 DEF StepFacts
<1>4. CASE Finish(g, 502, Missing) /\ UNCHANGED blobs
  <2>1. slot' = [slot EXCEPT ![g] = Free] /\ Ends(slot[g])
    BY <1>1, <1>4 DEF Finish, Ends
  <2>2. QED
    BY <1>1, <1>2, <1>4, <2>1, BlobsSame, EndsOnly
<1>5. QED
  BY <1>3, <1>4 DEF Write

\* A put that has failed goes back, whether it was being saved or not.
LEMMA UndoFacts ==
    ASSUME SlotsOK, NEW g \in Slots, slot[g] # Free,
           slot[g].pc \in {"meta", "saving"}, slot[g].op = "PutObject",
           NEW status \in {400, 404, 502}, GotoUndo(g, status),
           torn \subseteq torn', RefMoves, BlobMoves,
           \/ pending' = pending /\ (At(g, "saving") => Blob(g) \in torn')
           \/ /\ At(g, "saving") /\ TypeOK /\ slot[g].via \in Handlers
              /\ pending' = [pending EXCEPT ![slot[g].via] = NoPut]
    PROVE  StepFacts
<1>1. PICK r \in Request :
             /\ slot' = [slot EXCEPT ![g] = r]
             /\ SameRequest(r, slot[g]) /\ r.pc = "undo" /\ r.via = NoHandler
             /\ r.ref = slot[g].ref /\ RecordOK(r)
  BY UndoMove
<1>2. SlotsOK'
  <2>1. CASE pending' = pending /\ (At(g, "saving") => Blob(g) \in torn')
    BY <1>1, <2>1, SlotStep
  <2>2. CASE /\ At(g, "saving") /\ TypeOK /\ slot[g].via \in Handlers
             /\ pending' = [pending EXCEPT ![slot[g].via] = NoPut]
    BY <1>1, <2>2, SlotsWritten
  <2>3. QED
    BY <2>1, <2>2
<1>3. GoesOn(slot[g], r)
  BY <1>1 DEF GoesOn
<1>4. \A f \in Slots : SlotMove(f)
  BY <1>1, <1>3, Focus, FreeAssumption DEF SlotMove
<1>5. QED
  BY <1>2, <1>4 DEF StepFacts

\* What the upsert of a put and the deletion of an object do to the
\* references.
LEMMA WriteRefs ==
    ASSUME TypeOK, NEW h \in Handlers, PutObjectWrite(h)
    PROVE  /\ \A n \in Names, k \in Keys, ref \in Refs :
                RefersTo(k, <<n, ref>>)' /\ ~RefersTo(k, <<n, ref>>) =>
                  n = pending[h].name /\ ref = pending[h].ref
           /\ reply'.status # 500 => SavedBy(pending[h].name, pending[h].ref)
           /\ reply'.status \in {201, 500}
<1> DEFINE put == pending[h]
<1>1. /\ put \in [name : Names, key : Keys, ref : Refs]
      /\ \/ /\ reply'.status = 500
            /\ objects' = objects
         \/ /\ reply'.status = 201
            /\ objects' = [objects EXCEPT ![<<put.name, put.key>>] =
                             [ref |-> put.ref, deleted |-> FALSE]]
  BY WriteEffect
<1>2. CASE reply'.status = 500 /\ objects' = objects
  BY <1>2 DEF RefersTo, LiveObject
<1>3. CASE /\ reply'.status = 201
           /\ objects' = [objects EXCEPT ![<<put.name, put.key>>] =
                            [ref |-> put.ref, deleted |-> FALSE]]
  <2> DEFINE obj == [ref |-> put.ref, deleted |-> FALSE]
  <2>1. put.name \in Names /\ put.key \in Keys /\ put.ref \in Refs
    BY <1>1
  <2>2. obj.ref = put.ref /\ ~obj.deleted /\ obj # NoRecord
    <3>1. obj \in Object
      BY <2>1 DEF Object
    <3> QED
      BY <3>1, RepoAssumption
  <2> HIDE DEF obj, put
  <2>3. /\ objects'[<<put.name, put.key>>] = obj
        /\ \A n \in Names, k \in Keys : <<n, k>> # <<put.name, put.key>> =>
             objects'[<<n, k>>] = objects[<<n, k>>]
    BY <1>3, <2>1 DEF TypeOK, RepoTypeOK, obj
  <2>4. ASSUME NEW n \in Names, NEW k \in Keys, NEW ref \in Refs,
               n = put.name, k = put.key, ref = put.ref
        PROVE  RefersTo(k, <<n, ref>>)'
    BY <2>2, <2>3, <2>4 DEF RefersTo, LiveObject
  <2>5. SavedBy(put.name, put.ref)
    BY <2>1, <2>4 DEF SavedBy
  <2>6. ASSUME NEW n \in Names, NEW k \in Keys, NEW ref \in Refs,
               RefersTo(k, <<n, ref>>)', ~RefersTo(k, <<n, ref>>)
        PROVE  n = put.name /\ ref = put.ref
    <3>1. CASE <<n, k>> # <<put.name, put.key>>
      BY <2>3, <2>6, <3>1 DEF RefersTo, LiveObject
    <3>2. CASE <<n, k>> = <<put.name, put.key>>
      BY <2>2, <2>3, <2>6, <3>2 DEF RefersTo, LiveObject
    <3>3. QED
      BY <3>1, <3>2
  <2>7. QED
    BY <1>3, <2>6, <2>5 DEF put
<1>4. QED
  BY <1>1, <1>2, <1>3

LEMMA DeleteRefs ==
    ASSUME TypeOK, StorableOnly, NEW n \in Names, NEW k \in Keys,
           DeleteObject(n, k)
    PROVE  RefMoves /\ ~LiveObject(n, k)' /\ pending' = pending
<1>1. CASE objects' = objects /\ (~LiveObject(n, k) \/ k \notin StorableKeys)
  BY <1>1, RefsSame, DeleteEffect DEF StorableOnly, LiveObject
<1>2. CASE /\ LiveObject(n, k)
           /\ objects' = [objects EXCEPT ![<<n, k>>].deleted = TRUE]
  <2>1. objects[<<n, k>>] \in Object
    BY <1>2 DEF TypeOK, RepoTypeOK, LiveObject
  <2>2. objects'[<<n, k>>].deleted
    BY <1>2, <2>1 DEF TypeOK, RepoTypeOK, Object
  <2>3. \A m \in Names, j \in Keys : <<m, j>> # <<n, k>> =>
          objects'[<<m, j>>] = objects[<<m, j>>]
    BY <1>2 DEF TypeOK, RepoTypeOK
  <2>4. RefMoves
    <3>1. ASSUME NEW m \in Names, NEW j \in Keys, NEW ref \in Refs,
                 RefersTo(j, <<m, ref>>)'
          PROVE  RefersTo(j, <<m, ref>>)
      <4>1. <<m, j>> # <<n, k>>
        BY <2>2, <3>1 DEF RefersTo, LiveObject
      <4>2. QED
        BY <2>3, <3>1, <4>1 DEF RefersTo, LiveObject
    <3>2. QED
      BY <3>1 DEF RefMoves
  <2>5. QED
    BY <2>2, <2>4, DeleteEffect DEF LiveObject
<1>3. QED
  BY <1>1, <1>2, DeleteEffect

LEMMA PutMetaFacts ==
    ASSUME SlotsOK, TypeOK, NEW g \in Slots, NEW h \in Handlers, PutMeta(g, h),
           torn' = torn
    PROVE  StepFacts
<1>1. /\ At(g, "meta") /\ slot[g] # Free /\ slot[g].op = "PutObject"
      /\ blobs' = blobs /\ PutObjectCheck(h, slot[g].name, slot[g].key, slot[g].ref)
  BY DEF PutMeta, At
<1>2. /\ RecordOK(slot[g]) /\ slot[g].name \in Names
      /\ slot[g].key \in Keys \union {Missing} /\ slot[g].ref \in Refs \union {Missing}
  BY <1>1 DEF SlotsOK, RecordOK, Request
<1>3. /\ objects' = objects
      /\ pending[h] = NoPut
      /\ \/ /\ pending' = pending
            /\ reply'.status \in {400, 404}
         \/ /\ pending' = [pending EXCEPT ![h] =
                             [name |-> slot[g].name, key |-> slot[g].key,
                              ref |-> slot[g].ref]]
            /\ pending'[h] # NoPut
  BY <1>1, <1>2, CheckEffect
<1>4. BlobMoves /\ RefMoves
  BY <1>1, <1>3, BlobsSame, RefsSame
<1>5. CASE /\ pending'[h] # NoPut
           /\ slot' = [slot EXCEPT ![g] = [@ EXCEPT !.pc = "saving", !.via = h]]
  <2>1. SlotsOK'
    BY <1>1, <1>3, <1>5, SlotsAccept
  <2> DEFINE r == [slot[g] EXCEPT !.pc = "saving", !.via = h]
  <2>2. SameRequest(r, slot[g]) /\ r.pc = "saving" /\ r.ref = slot[g].ref
        /\ r \in Request
    BY <1>2, SaveUpdate DEF RecordOK
  <2>3. slot' = [slot EXCEPT ![g] = r]
    BY <1>5
  <2> HIDE DEF r
  <2>4. GoesOn(slot[g], r)
    BY <1>1, <2>2 DEF GoesOn, At
  <2>5. \A f \in Slots : SlotMove(f)
    BY <1>1, <2>2, <2>3, <2>4, Focus, FreeAssumption DEF SlotMove
  <2>6. QED
    BY <1>4, <2>1, <2>5 DEF StepFacts
<1>6. CASE pending'[h] = NoPut /\ GotoUndo(g, Upstream(reply'.status))
  <2>1. pending' = pending /\ reply'.status \in {400, 404}
    BY <1>3, <1>6
  <2>2. Upstream(reply'.status) \in {400, 404, 502}
    BY <2>1 DEF Upstream
  <2>3. ~At(g, "saving") /\ slot[g].pc = "meta"
    BY <1>1 DEF At
  <2>4. QED
    BY <1>1, <1>4, <1>6, <2>1, <2>2, <2>3, UndoFacts
<1>7. QED
  BY <1>5, <1>6 DEF PutMeta

\* A put whose metadata call returns: 201 and the object refers to the bytes,
\* or a 500 that starts the undo.  Also when the response is lost.
LEMMA SavedFacts ==
    ASSUME SlotsOK, TypeOK, NEW g \in Slots, At(g, "saving"),
           PutObjectWrite(slot[g].via), blobs' = blobs, torn \subseteq torn',
           \/ slot' = [slot EXCEPT ![g] = Free] /\ reply'.status = 201
           \/ \E status \in {400, 404, 502} : GotoUndo(g, status)
    PROVE  StepFacts
<1>1. /\ slot[g] # Free /\ slot[g].pc = "saving" /\ RecordOK(slot[g])
      /\ slot[g].via \in Handlers /\ slot[g].op = "PutObject"
  BY DEF SlotsOK, At, RecordOK, Request
<1>2. /\ pending[slot[g].via].name = slot[g].name
      /\ pending[slot[g].via].ref = slot[g].ref
  <2>1. pending[slot[g].via] = [name |-> slot[g].name, key |-> slot[g].key,
                                ref |-> slot[g].ref]
    BY DEF SlotsOK, PendingMatched
  <2>2. QED
    BY <2>1
<1>3. pending' = [pending EXCEPT ![slot[g].via] = NoPut]
  BY <1>1, WriteEffect
<1>4. RefMoves
  BY <1>1, <1>2, WriteRefs DEF RefMoves, Blob
<1>5. BlobMoves
  BY BlobsSame
<1>6. CASE slot' = [slot EXCEPT ![g] = Free] /\ reply'.status = 201
  <2>1. SlotsOK'
    <3>1. \E f \in Slots :
            /\ At(f, "saving") /\ slot[f].via = slot[g].via
            /\ \E r : /\ r = Free \/ (RecordOK(r) /\ r.pc # "saving")
                      /\ slot' = [slot EXCEPT ![f] = r]
      BY <1>6
    <3>2. QED
      BY <1>1, <1>3, <3>1, SlotsWritten
  <2>2. SavedBy(slot[g].name, slot[g].ref)
    <3>1. reply'.status # 500
      BY <1>6
    <3>2. PICK h \in Handlers : h = slot[g].via /\ PutObjectWrite(h)
      BY <1>1
    <3>3. SavedBy(pending[h].name, pending[h].ref)
      BY <3>1, <3>2, WriteRefs
    <3>4. QED
      BY <1>2, <3>2, <3>3
  <2>3. Ends(slot[g])
    BY <1>1, <2>2 DEF Ends
  <2>4. \A f \in Slots : SlotMove(f)
    BY <1>1, <1>6, <2>3, Focus DEF SlotMove
  <2>5. QED
    BY <1>4, <1>5, <2>1, <2>4 DEF StepFacts
<1>7. ASSUME NEW status \in {400, 404, 502}, GotoUndo(g, status)
      PROVE  StepFacts
  <2>1. \/ pending' = pending /\ (At(g, "saving") => Blob(g) \in torn')
        \/ /\ At(g, "saving") /\ TypeOK /\ slot[g].via \in Handlers
           /\ pending' = [pending EXCEPT ![slot[g].via] = NoPut]
    BY <1>1, <1>3
  <2>2. slot[g].pc \in {"meta", "saving"}
    BY <1>1
  <2>3. QED
    BY <1>1, <1>4, <1>5, <1>7, <2>1, <2>2, UndoFacts
<1>8. QED
  BY <1>6, <1>7

LEMMA PutSavedFacts ==
    ASSUME SlotsOK, TypeOK, NEW g \in Slots, PutSaved(g), torn' = torn
    PROVE  StepFacts
<1>1. /\ At(g, "saving") /\ PutObjectWrite(slot[g].via) /\ blobs' = blobs
      /\ slot[g].via \in Handlers
  BY DEF PutSaved, SlotsOK, At, RecordOK, Request
<1>2. reply'.status \in {201, 500}
  BY <1>1, WriteRefs
<1>3. CASE reply'.status = 201 /\ Finish(g, 201, Missing)
  <2>1. slot' = [slot EXCEPT ![g] = Free]
    BY <1>3 DEF Finish
  <2>2. QED
    BY <1>1, <1>3, <2>1, SavedFacts
<1>4. CASE reply'.status # 201 /\ GotoUndo(g, Upstream(reply'.status))
  <2>1. Upstream(reply'.status) = 502
    BY <1>2, <1>4 DEF Upstream
  <2>2. GotoUndo(g, 502)
    BY <1>4, <2>1
  <2>3. QED
    BY <1>1, <2>2, SavedFacts
<1>5. QED
  BY <1>3, <1>4 DEF PutSaved

\* The undo of a put, a get and a listing end a request without a word to
\* metadata-service.
LEMMA LastCallFacts ==
    ASSUME SlotsOK, NEW g \in Slots, Undo(g) \/ Read(g) \/ List(g), torn' = torn
    PROVE  StepFacts
<1>1. /\ slot[g] # Free /\ slot[g].pc \in {"undo", "read", "list"}
      /\ UNCHANGED <<objects, pending>> /\ slot' = [slot EXCEPT ![g] = Free]
  BY DEF Undo, Read, List, At, Finish, vars, repo
<1>2. BlobMoves
  <2>1. CASE Undo(g)
    <3>1. /\ At(g, "undo") /\ blobs' \in {blobs, blobs \ {Blob(g)}}
          /\ slot'[g] = Free
      BY <1>1, <2>1 DEF Undo, SlotsOK
    <3>2. QED
      BY <3>1 DEF BlobMoves
  <2>2. CASE Read(g) \/ List(g)
    BY <2>2, BlobsSame DEF Read, List
  <2>3. QED
    BY <2>1, <2>2
<1>3. Ends(slot[g])
  BY <1>1 DEF Ends
<1>4. QED
  BY <1>1, <1>2, <1>3, RefsSame, EndsOnly

LEMMA LookupFacts ==
    ASSUME SlotsOK, TypeOK, StorableOnly, NEW g \in Slots, Lookup(g),
           torn' = torn
    PROVE  StepFacts
<1>1. /\ At(g, "lookup") /\ slot[g] # Free /\ slot[g].pc = "lookup"
      /\ slot[g].op \in {"GetObject", "HeadObject", "DeleteObject"}
      /\ UNCHANGED <<objects, pending, blobs>>
  BY DEF Lookup, At, vars, repo, SlotsOK, RecordOK
<1>2. BlobMoves /\ RefMoves
  BY <1>1, BlobsSame, RefsSame
<1>3. CASE slot' = [slot EXCEPT ![g] = Free]
  BY <1>1, <1>2, <1>3, EndsOnly DEF Ends
<1>4. CASE /\ Found(g) /\ slot[g].op # "HeadObject"
           /\ slot' = [slot EXCEPT ![g] =
                [@ EXCEPT !.ref = FoundRef(g),
                          !.pc = IF slot[g].op = "GetObject" THEN "read"
                                                             ELSE "unlink"]]
  <2>1. PICK r \in Request :
             /\ slot' = [slot EXCEPT ![g] = r]
             /\ SameRequest(r, slot[g]) /\ RecordOK(r)
             /\ r.pc = IF slot[g].op = "GetObject" THEN "read" ELSE "unlink"
             /\ r.key \in Keys
             /\ r.ref \in Refs /\ RefersTo(UrlKey[r.key], <<r.name, r.ref>>)
    BY <1>1, <1>4, FoundMove
  <2>2. SlotsOK'
    BY <1>1, <2>1, SlotStep DEF At
  <2>3. GoesOn(slot[g], r)
    BY <1>1, <2>1 DEF GoesOn, SameRequest
  <2>4. \A f \in Slots : SlotMove(f)
    BY <1>1, <2>1, <2>3, Focus, FreeAssumption DEF SlotMove
  <2>5. QED
    BY <1>2, <2>2, <2>4 DEF StepFacts
<1>5. QED
  BY <1>3, <1>4 DEF Lookup, Finish

LEMMA UnlinkFacts ==
    ASSUME SlotsOK, NEW g \in Slots, Unlink(g), torn' = torn
    PROVE  StepFacts
<1>1. At(g, "unlink") /\ slot[g] # Free /\ slot[g].pc = "unlink"
  BY DEF Unlink, At
<1>2. UNCHANGED <<objects, pending>> /\ RefMoves
  BY RefsSame DEF Unlink, vars, repo
<1>3. CASE blobs' = blobs \ {Blob(g)} /\ Goto(g, "meta")
  <2>1. PICK r \in Request :
             /\ slot' = [slot EXCEPT ![g] = r]
             /\ SameRequest(r, slot[g]) /\ r.pc = "meta"
             /\ r.ref = slot[g].ref /\ RecordOK(r)
    BY <1>1, <1>3, GotoMove
  <2>2. SlotsOK'
    BY <1>1, <1>2, <2>1, SlotStep DEF At
  <2>3. GoesOn(slot[g], r)
    BY <1>1, <2>1 DEF GoesOn
  <2>4. slot'[g] = r /\ \A f \in Slots : SlotMove(f)
    BY <1>1, <2>1, <2>3, Focus, FreeAssumption DEF SlotMove
  <2>5. BlobMoves
    BY <1>1, <1>3, <2>1, <2>4, FreeAssumption DEF BlobMoves
  <2>6. QED
    BY <1>2, <2>2, <2>4, <2>5 DEF StepFacts
<1>4. CASE Finish(g, 502, Missing) /\ UNCHANGED blobs
  <2>1. slot' = [slot EXCEPT ![g] = Free] /\ Ends(slot[g])
    BY <1>1, <1>4 DEF Finish, Ends
  <2>2. QED
    BY <1>1, <1>2, <1>4, <2>1, BlobsSame, EndsOnly
<1>5. QED
  BY <1>3, <1>4 DEF Unlink

\* The calls that delete an object or a bucket; their requests end there,
\* whether the response arrives or not.
LEMMA DeleteFacts ==
    ASSUME SlotsOK, TypeOK, StorableOnly, NEW g \in Slots, At(g, "meta"),
           \/ /\ slot[g].op = "DeleteObject"
              /\ DeleteObject(slot[g].name, UrlKey[slot[g].key])
           \/ /\ slot[g].op = "DeleteBucket"
              /\ DeleteBucket(slot[g].name),
           blobs' = blobs, torn \subseteq torn',
           slot' = [slot EXCEPT ![g] = Free]
    PROVE  StepFacts
<1>1. /\ slot[g] # Free /\ slot[g].pc = "meta" /\ RecordOK(slot[g])
      /\ slot[g].name \in Names
  BY DEF SlotsOK, RecordOK, Request, At
<1>2. CASE slot[g].op = "DeleteObject" /\ DeleteObject(slot[g].name, UrlKey[slot[g].key])
  <2>1. PICK n \in Names, k \in Keys :
          n = slot[g].name /\ k = UrlKey[slot[g].key] /\ DeleteObject(n, k)
    BY <1>1, <1>2, RepoAssumption, GatewayAssumption DEF RecordOK
  <2>2. RefMoves /\ ~LiveObject(n, k)' /\ pending' = pending
    BY <2>1, DeleteRefs
  <2>3. Ends(slot[g])
    BY <1>1, <1>2, <2>1, <2>2 DEF Ends
  <2>4. QED
    BY <1>1, <2>2, <2>3, BlobsSame, EndsOnly
<1>3. CASE slot[g].op = "DeleteBucket" /\ DeleteBucket(slot[g].name)
  <2>1. UNCHANGED <<objects, pending>>
    BY <1>1, <1>3, BucketEffect
  <2>2. Ends(slot[g])
    BY <1>1, <1>3 DEF Ends
  <2>3. QED
    BY <1>1, <2>1, <2>2, BlobsSame, RefsSame, EndsOnly
<1>4. QED
  BY <1>2, <1>3

LEMMA LateFacts ==
    ASSUME SlotsOK, TypeOK, NEW h \in Handlers, LateWrite(h), torn' = torn
    PROVE  StepFacts
<1>1. /\ \A g \in Slots : slot[g] # Free => slot[g].via # h
      /\ PutObjectWrite(h) /\ slot' = slot /\ blobs' = blobs
  BY DEF LateWrite, gateway
<1>2. pending' = [pending EXCEPT ![h] = NoPut] /\ pending[h] # NoPut
  <2>1. pending' = [pending EXCEPT ![h] = NoPut]
    BY <1>1, WriteEffect
  <2>2. pending[h] # NoPut
    BY <1>1 DEF PutObjectWrite
  <2>3. QED
    BY <2>1, <2>2
<1>3. SlotsOK'
  BY <1>1, <1>2, SlotsWritten
<1>4. <<pending[h].name, pending[h].ref>> \in torn'
  BY <1>1, <1>2 DEF SlotsOK, PendingMatched
<1>5. RefMoves
  <2>1. \A n \in Names, k \in Keys, ref \in Refs :
          RefersTo(k, <<n, ref>>)' /\ ~RefersTo(k, <<n, ref>>) =>
            n = pending[h].name /\ ref = pending[h].ref
    BY <1>1, WriteRefs
  <2>2. QED
    BY <1>4, <2>1 DEF RefMoves
<1>6. (\A f \in Slots : SlotMove(f)) /\ BlobMoves
  BY <1>1, BlobsSame DEF SlotMove
<1>7. QED
  BY <1>3, <1>5, <1>6 DEF StepFacts

\* A fault grows torn, by the bytes of the requests it hits.
LEMMA FaultTorn ==
    ASSUME NEW hit \in SUBSET Slots, Fault(hit)
    PROVE  /\ torn \subseteq torn'
           /\ \A g \in hit : slot[g] # Free /\ slot[g].ref # Missing =>
                               Blob(g) \in torn'
BY DEF Fault, Holding

\* The response of a request that gives up ends it, and says nothing of what
\* the call has done.
LEMMA GiveUpFacts ==
    ASSUME SlotsOK, NEW g \in Slots, slot[g] # Free,
           ~(slot[g].op = "PutObject" /\ slot[g].pc \in {"meta", "saving"}),
           GiveUp(g), torn \subseteq torn',
           slot[g].ref # Missing => Blob(g) \in torn',
           pending' = pending, BlobMoves, RefMoves
    PROVE  StepFacts
<1>1. slot' = [slot EXCEPT ![g] = Free]
  BY DEF GiveUp, Finish
<1>2. slot[g].pc # "saving"
  BY DEF SlotsOK, RecordOK
<1>3. Ends(slot[g])
  BY DEF Ends, Blob
<1>4. QED
  BY <1>1, <1>2, <1>3, EndsOnly

LEMMA CallLostFacts ==
    ASSUME SlotsOK, NEW g \in Slots, CallLost(g)
    PROVE  StepFacts
<1>1. /\ slot[g] # Free /\ GiveUp(g) /\ UNCHANGED <<pending, objects, blobs>>
      /\ torn \subseteq torn'
      /\ slot[g].ref # Missing => Blob(g) \in torn'
  BY FaultTorn DEF CallLost, vars, repo
<1>2. BlobMoves /\ RefMoves
  BY <1>1, BlobsSame, RefsSame
<1>3. CASE slot[g].op = "PutObject" /\ slot[g].pc \in {"meta", "saving"}
  <2>1. GotoUndo(g, 502)
    BY <1>1, <1>3 DEF GiveUp
  <2>2. slot[g].ref # Missing
    BY <1>1, <1>3, MetadataAssumption DEF SlotsOK, RecordOK
  <2>3. pending' = pending /\ (At(g, "saving") => Blob(g) \in torn')
    BY <1>1, <2>2
  <2>4. QED
    BY <1>1, <1>2, <1>3, <2>1, <2>3, UndoFacts
<1>4. QED
  BY <1>1, <1>2, <1>3, GiveUpFacts

LEMMA ResponseLostFacts ==
    ASSUME SlotsOK, TypeOK, StorableOnly, NEW g \in Slots, ResponseLost(g)
    PROVE  StepFacts
<1>1. /\ GiveUp(g) /\ torn \subseteq torn'
      /\ slot[g] # Free => (slot[g].ref # Missing => Blob(g) \in torn')
  BY FaultTorn DEF ResponseLost
<1>2. CASE At(g, "write") /\ blobs' = blobs \union {Blob(g)} /\ UNCHANGED vars
  <2>1. slot[g] # Free /\ slot[g].ref # Missing /\ slot[g].pc = "write"
    BY <1>2, MetadataAssumption DEF SlotsOK, RecordOK, At
  <2>2. BlobMoves /\ RefMoves /\ pending' = pending
    BY <1>1, <1>2, <2>1, RefsSame DEF BlobMoves, vars, repo
  <2>3. QED
    BY <1>1, <2>1, <2>2, GiveUpFacts
<1>3. CASE At(g, "unlink") /\ blobs' = blobs \ {Blob(g)} /\ UNCHANGED vars
  <2>1. slot[g] # Free /\ slot[g].ref # Missing /\ slot[g].pc = "unlink"
    BY <1>3, MetadataAssumption DEF SlotsOK, RecordOK, At
  <2>2. BlobMoves /\ RefMoves /\ pending' = pending
    BY <1>1, <1>3, <2>1, RefsSame DEF BlobMoves, vars, repo
  <2>3. QED
    BY <1>1, <2>1, <2>2, GiveUpFacts
<1>4. CASE At(g, "saving") /\ PutObjectWrite(slot[g].via) /\ UNCHANGED blobs
  <2>1. slot[g].op = "PutObject" /\ slot[g].pc = "saving"
    BY <1>4 DEF SlotsOK, RecordOK, At
  <2>2. \E status \in {400, 404, 502} : GotoUndo(g, status)
    BY <1>1, <2>1 DEF GiveUp
  <2>3. QED
    BY <1>1, <1>4, <2>2, SavedFacts
<1>5. CASE /\ At(g, "meta")
           /\ \/ /\ slot[g].op = "DeleteObject"
                 /\ DeleteObject(slot[g].name, UrlKey[slot[g].key])
              \/ /\ slot[g].op = "DeleteBucket"
                 /\ DeleteBucket(slot[g].name)
           /\ UNCHANGED blobs
  <2>1. slot' = [slot EXCEPT ![g] = Free]
    BY <1>1, <1>5 DEF GiveUp, Finish
  <2>2. QED
    BY <1>1, <1>5, <2>1, DeleteFacts
<1>6. QED
  BY <1>2, <1>3, <1>4, <1>5 DEF ResponseLost

LEMMA GwRestartFacts ==
    ASSUME SlotsOK, GwRestart
    PROVE  StepFacts
<1>1. /\ slot' = [g \in Slots |-> Free] /\ UNCHANGED <<pending, objects, blobs>>
      /\ torn \subseteq torn'
      /\ \A g \in Slots : slot[g] # Free /\ slot[g].ref # Missing =>
                            Blob(g) \in torn'
  BY FaultTorn DEF GwRestart, vars, repo
<1>2. SlotsOK'
  <2>1. \A g \in Slots : At(g, "saving") => Blob(g) \in torn'
    BY <1>1, MetadataAssumption DEF SlotsOK, RecordOK, At
  <2>2. QED
    BY <1>1, <2>1, SlotsRestart
<1>3. ASSUME NEW g \in Slots
      PROVE  SlotMove(g)
  BY <1>1 DEF SlotMove, Ends, Blob
<1>4. QED
  BY <1>1, <1>2, <1>3, BlobsSame, RefsSame DEF StepFacts

LEMMA MetaRestartFacts ==
    ASSUME SlotsOK, MetaRestart
    PROVE  StepFacts
<1>1. /\ pending' = [h \in Handlers |-> NoPut] /\ UNCHANGED <<objects, blobs>>
  BY DEF MetaRestart, Restart, repo
<1>2. \A f \in Slots : slot'[f] = IF At(f, "saving") THEN Undone(slot[f], 502)
                                                     ELSE slot[f]
  BY DEF MetaRestart, Undone
<1>3. slot' = [f \in Slots |-> IF At(f, "saving") THEN Undone(slot[f], 502)
                                                  ELSE slot[f]]
  BY DEF MetaRestart, Undone
<1>4. \A f \in Slots : At(f, "saving") =>
             /\ slot'[f] \in Request /\ SameRequest(slot'[f], slot[f])
             /\ slot'[f].pc = "undo" /\ slot'[f].via = NoHandler
             /\ slot'[f].ref = slot[f].ref
  <2>1. ASSUME NEW f \in Slots, At(f, "saving")
        PROVE  slot[f] \in Request /\ slot'[f] = Undone(slot[f], 502)
    BY <1>2, <2>1 DEF SlotsOK, RecordOK, At
  <2>2. QED
    BY <2>1, UndoUpdate
<1>5. slot' \in [Slots -> Request \union {Free}]
  <2>1. \A f \in Slots : slot'[f] \in Request \union {Free}
    BY <1>2, <1>4 DEF SlotsOK
  <2>2. QED
    BY <1>3, <2>1
<1>6. SlotsOK'
  BY <1>1, <1>2, <1>4, <1>5, SlotsCut
<1>7. ASSUME NEW g \in Slots, At(g, "saving")
      PROVE  SlotMove(g)
  <2>1. slot[g] # Free /\ slot[g].pc = "saving" /\ slot[g].op = "PutObject"
    BY <1>7 DEF SlotsOK, RecordOK, At
  <2>2. GoesOn(slot[g], slot'[g])
    BY <1>4, <1>7, <2>1 DEF GoesOn
  <2>3. QED
    BY <1>4, <1>7, <2>1, <2>2, FreeAssumption DEF SlotMove
<1>8. \A g \in Slots : SlotMove(g)
  BY <1>2, <1>7 DEF SlotMove
<1>9. QED
  BY <1>1, <1>6, <1>8, BlobsSame, RefsSame DEF StepFacts

LEMMA AllFacts ==
    ASSUME GatewayTypeOK, CarriedOver, PendingMatched, GatewayNext
    PROVE  StepFacts /\ torn \subseteq torn' /\ Record
<1>1. TypeOK /\ SlotsOK /\ StorableOnly
  BY SlotsFromInv DEF GatewayTypeOK
<1>2. CASE /\ Arrive \/ (\E g \in Slots : Proceed(g))
                     \/ (\E h \in Handlers : LateWrite(h))
           /\ NoFault
  <2>1. torn' = torn /\ Record
    BY <1>2 DEF NoFault
  <2>2. CASE Arrive
    BY <1>1, <2>1, <2>2, ArriveFacts
  <2>3. ASSUME NEW g \in Slots, GwDeleteBucket(g)
        PROVE  StepFacts
    BY <1>1, <2>1, <2>3, DeleteFacts DEF GwDeleteBucket, Finish
  <2>4. ASSUME NEW g \in Slots, GwDeleteObject(g)
        PROVE  StepFacts
    BY <1>1, <2>1, <2>4, DeleteFacts DEF GwDeleteObject, Finish
  <2>5. ASSUME NEW g \in Slots, NEW h \in Handlers, PutMeta(g, h)
        PROVE  StepFacts
    BY <1>1, <2>1, <2>5, PutMetaFacts
  <2>6. ASSUME NEW g \in Slots, Proceed(g)
        PROVE  StepFacts
    BY <1>1, <2>1, <2>3, <2>4, <2>5, <2>6, WriteFacts, PutSavedFacts,
       LastCallFacts, LookupFacts, UnlinkFacts
       DEF Proceed
  <2>7. ASSUME NEW h \in Handlers, LateWrite(h)
        PROVE  StepFacts
    BY <1>1, <2>1, <2>7, LateFacts
  <2>8. QED
    BY <1>2, <2>1, <2>2, <2>6, <2>7
<1>3. CASE Fail /\ Record
  <2>1. ASSUME NEW op \in ClientOps, NEW n \in Names,
               NEW k \in Keys \union {Missing}, NEW o \in Principals,
               FirstLost(op, n, k, o)
        PROVE  StepFacts /\ torn \subseteq torn'
    <3>1. UNCHANGED <<slot, blobs>> /\ torn \subseteq torn'
      BY <2>1, FaultTorn DEF FirstLost
    <3>2. UNCHANGED <<objects, pending>>
      BY <2>1, BucketEffect, GatewayAssumption DEF FirstLost, vars, repo
    <3>3. QED
      BY <1>1, <3>1, <3>2, BlobsSame, RefsSame, SlotsSame
  <2>2. ASSUME NEW g \in Slots, CallLost(g)
        PROVE  StepFacts /\ torn \subseteq torn'
    BY <1>1, <2>2, CallLostFacts, FaultTorn DEF CallLost
  <2>3. ASSUME NEW g \in Slots, ResponseLost(g)
        PROVE  StepFacts /\ torn \subseteq torn'
    BY <1>1, <2>3, ResponseLostFacts, FaultTorn DEF ResponseLost
  <2>4. CASE GwRestart
    BY <1>1, <1>3, <2>4, GwRestartFacts, FaultTorn DEF GwRestart
  <2>5. CASE MetaRestart
    <3>1. torn \subseteq torn'
      BY <2>5 DEF MetaRestart, Fault
    <3>2. QED
      BY <1>1, <1>3, <2>5, <3>1, MetaRestartFacts
  <2>6. QED
    BY <1>3, <2>1, <2>2, <2>3, <2>4, <2>5 DEF Fail
<1>4. QED
  BY <1>2, <1>3 DEF GatewayNext

-----------------------------------------------------------------------------
(* The invariant, part by part.                                            *)

\* The answers are answers.
AnswerOK ==
    answer \in [op : ClientOps, at : Subjects,
                status : {200, 201, 204, 400, 403, 404, 409, 502},
                body : Bodies] \union {Missing}

LEMMA BodyTypes ==
    /\ Missing \in Bodies
    /\ \A ref \in Refs : ref \in Bodies
    /\ \A names \in SUBSET Names : names \in Bodies
    /\ \A keys \in SUBSET Keys : keys \in Bodies
BY DEF Bodies

LEMMA AnswerFinish ==
    ASSUME GatewayTypeOK, NEW g \in Slots, slot[g] # Free,
           NEW status \in {200, 201, 204, 400, 403, 404, 409, 502},
           NEW body \in Bodies, Finish(g, status, body)
    PROVE  AnswerOK'
BY FinishTypes DEF AnswerOK

LEMMA AnswerTypes ==
    ASSUME GatewayTypeOK, CarriedOver, PendingMatched, GatewayNext
    PROVE  AnswerOK'
<1>1. Missing \in Bodies
  BY BodyTypes
<1>2. ASSUME UNCHANGED answer
      PROVE  AnswerOK'
  BY <1>2 DEF AnswerOK, GatewayTypeOK
<1>3. ASSUME NEW op \in ClientOps, NEW n \in Names \union Principals,
             NEW k \in Keys \union {Missing}, NEW body \in Bodies,
             NEW status \in {200, 201, 204, 400, 403, 404, 409, 502},
             Answer(op, n, k, status, body)
      PROVE  AnswerOK'
  BY <1>3 DEF Answer, AnswerOK, Subjects
<1>4. ASSUME NEW g \in Slots, slot[g] # Free, GiveUp(g)
      PROVE  AnswerOK'
  BY <1>1, <1>2, <1>4, AnswerFinish DEF GiveUp, GotoUndo
<1>5. CASE Arrive
  <2>1. ASSUME NEW o \in Principals, GwListBuckets(o)
        PROVE  AnswerOK'
    <3>1. ListByOwner(o) \in Bodies
      BY BodyTypes DEF ListByOwner
    <3>2. "ListBuckets" \in ClientOps
      BY DEF ClientOps
    <3>3. QED
      BY <1>3, <2>1, <3>1, <3>2 DEF GwListBuckets
  <2>2. ASSUME NEW o \in Principals, NEW n \in Names, GwCreateBucket(n, o)
        PROVE  AnswerOK'
    <3>1. "CreateBucket" \in ClientOps
      BY DEF ClientOps
    <3>2. (IF reply'.status = 201 THEN 201 ELSE Upstream(reply'.status))
            \in {200, 201, 204, 400, 403, 404, 409, 502}
      BY UpstreamTypes
    <3>3. QED
      BY <1>1, <1>3, <2>2, <3>1, <3>2 DEF GwCreateBucket
  <2>3. ASSUME NEW g \in Slots, NEW who \in Principals, NEW op \in BucketOps,
               NEW n \in Names, NEW k \in Keys \union {Missing},
               NEW ref \in Refs \union {Missing},
               Authorize(g, who, op, n, k, ref)
        PROVE  AnswerOK'
    <3>1. op \in ClientOps
      BY DEF ClientOps
    <3>2. QED
      BY <1>1, <1>2, <1>3, <2>3, <3>1 DEF Authorize
  <2>4. QED
    BY <1>5, <2>1, <2>2, <2>3 DEF Arrive, BucketOps
<1>6. ASSUME NEW g \in Slots, Proceed(g)
      PROVE  AnswerOK'
  <2>1. slot[g] # Free
    BY <1>6 DEF Proceed, At, GwDeleteBucket, Write, PutSaved, Undo, PutMeta,
                List, Lookup, Read, Unlink, GwDeleteObject
  <2>2. ASSUME NEW status, NEW body \in Bodies,
               Finish(g, Upstream(status), body) \/ Finish(g, 502, body)
                 \/ Finish(g, 200, body) \/ Finish(g, 201, body)
                 \/ Finish(g, 404, body)
        PROVE  AnswerOK'
    BY <2>1, <2>2, UpstreamTypes, AnswerFinish
  <2>3. CASE GwDeleteBucket(g) \/ GwDeleteObject(g)
    <3>1. (IF reply'.status = 204 THEN 204 ELSE Upstream(reply'.status))
            \in {200, 201, 204, 400, 403, 404, 409, 502}
      BY UpstreamTypes
    <3>2. QED
      BY <1>1, <2>1, <2>3, <3>1, AnswerFinish DEF GwDeleteBucket, GwDeleteObject
  <2>4. CASE Write(g) \/ Unlink(g)
    BY <1>1, <1>2, <2>2, <2>4 DEF Write, Unlink, Goto
  <2>5. CASE PutSaved(g)
    BY <1>1, <1>2, <2>2, <2>5 DEF PutSaved, GotoUndo
  <2>6. ASSUME NEW h \in Handlers, PutMeta(g, h)
        PROVE  AnswerOK'
    BY <1>2, <2>6 DEF PutMeta, GotoUndo
  <2>7. CASE Undo(g)
    <3>1. slot[g].status \in {201, 400, 404, 502}
      BY <2>1, SlotTypes DEF Request
    <3>2. QED
      BY <1>1, <2>1, <2>7, <3>1, AnswerFinish DEF Undo
  <2>8. CASE List(g)
    <3>1. PICK listed \in SUBSET LiveKeys(slot[g].name) : Finish(g, 200, listed)
      BY <2>8 DEF List
    <3>2. LiveKeys(slot[g].name) \subseteq Keys
      BY DEF LiveKeys
    <3>3. listed \in Bodies
      BY <3>1, <3>2, BodyTypes
    <3>4. QED
      BY <2>1, <3>1, <3>3, AnswerFinish
  <2>9. CASE Lookup(g)
    <3>1. Found(g) => FoundRef(g) \in Bodies
      <4>1. SUFFICES ASSUME Found(g) PROVE FoundRef(g) \in Refs
        BY BodyTypes
      <4>2. slot[g].name \in Names /\ UrlKey[slot[g].key] \in Keys
        <5>1. slot[g].key \in StorableKeys
          BY <4>1 DEF Found, Addressable
        <5>2. slot[g].name \in Names
          BY <2>1, SlotTypes
        <5>3. QED
          BY <5>1, <5>2, RepoAssumption, GatewayAssumption
      <4>3. objects[<<slot[g].name, UrlKey[slot[g].key]>>] \in Object
        BY <4>1, <4>2 DEF Found, LiveObject, GatewayTypeOK, TypeOK, RepoTypeOK
      <4>4. QED
        BY <4>3 DEF FoundRef, Object
    <3>2. (IF Addressable(g) THEN 404 ELSE 502)
            \in {200, 201, 204, 400, 403, 404, 409, 502}
      OBVIOUS
    <3>3. QED
      BY <1>1, <1>2, <2>1, <2>9, <3>1, <3>2, AnswerFinish DEF Lookup
  <2>10. CASE Read(g)
    <3>1. slot[g].ref \in Bodies
      BY <2>1, SlotTypes, BodyTypes
    <3>2. QED
      BY <1>1, <2>2, <2>10, <3>1 DEF Read
  <2>11. QED
    BY <1>6, <2>3, <2>4, <2>5, <2>6, <2>7, <2>8, <2>9, <2>10 DEF Proceed
<1>7. ASSUME NEW h \in Handlers, LateWrite(h)
      PROVE  AnswerOK'
  BY <1>2, <1>7 DEF LateWrite, gateway
<1>8. CASE Fail
  <2>1. ASSUME NEW op \in ClientOps, NEW n \in Names,
               NEW k \in Keys \union {Missing}, NEW o \in Principals,
               FirstLost(op, n, k, o)
        PROVE  AnswerOK'
    BY <1>1, <1>3, <2>1 DEF FirstLost
  <2>2. ASSUME NEW g \in Slots, CallLost(g) \/ ResponseLost(g)
        PROVE  AnswerOK'
    BY <1>4, <2>2 DEF CallLost, ResponseLost, At
  <2>3. CASE GwRestart \/ MetaRestart
    BY <1>2, <2>3 DEF GwRestart, MetaRestart
  <2>4. QED
    BY <1>8, <2>1, <2>2, <2>3 DEF Fail
<1>9. QED
  BY <1>5, <1>6, <1>7, <1>8 DEF GatewayNext

\* Only a put of metadata-service makes an object live, under a key the store
\* takes.
LEMMA LiveStorable ==
    ASSUME TypeOK, [Next]_vars, NEW n \in Names, NEW k \in Keys,
           LiveObject(n, k)', ~LiveObject(n, k)
    PROVE  k \in StorableKeys
<1>1. objects' # objects
  BY DEF LiveObject
<1>2. ASSUME NEW h \in Handlers, PutObjectWrite(h)
      PROVE  k \in StorableKeys
  <2>1. PICK m \in Names, j \in StorableKeys, obj \in Object :
          objects' = [objects EXCEPT ![<<m, j>>] = obj]
    <3>1. /\ pending[h].name \in Names /\ pending[h].key \in StorableKeys
          /\ objects' = [objects EXCEPT ![<<pending[h].name, pending[h].key>>] =
                            [ref |-> pending[h].ref, deleted |-> FALSE]]
      BY <1>1, <1>2, WriteEffect
    <3>2. pending[h].ref \in Refs
      BY <1>2, WriteEffect
    <3>3. [ref |-> pending[h].ref, deleted |-> FALSE] \in Object
      BY <3>2 DEF Object
    <3>4. QED
      BY <3>1, <3>3
  <2>2. <<n, k>> = <<m, j>>
    BY <2>1 DEF LiveObject, TypeOK, RepoTypeOK
  <2>3. QED
    BY <2>1, <2>2
<1>3. ASSUME NEW m \in Names, NEW j \in Keys \union {Missing}, DeleteObject(m, j)
      PROVE  FALSE
  <2>1. CASE j \in Keys
    <3>1. objects' = [objects EXCEPT ![<<m, j>>].deleted = TRUE]
      BY <1>1, <1>3, <2>1, DeleteEffect
    <3>2. LiveObject(m, j)
      BY <1>1, <1>3, <2>1, DeleteEffect
    <3>3. objects[<<m, j>>] \in Object
      BY <2>1, <3>2 DEF LiveObject, TypeOK, RepoTypeOK
    <3>4. QED
      BY <2>1, <3>1, <3>3 DEF LiveObject, TypeOK, RepoTypeOK, Object
  <2>2. CASE j = Missing
    BY <1>1, <1>3, <2>2 DEF DeleteObject, Reject, ObjectDelete, repo
  <2>3. QED
    BY <2>1, <2>2
<1>4. ASSUME NEW m \in Names, NEW o \in Owners \union {Missing},
             CreateBucket(m, o) \/ DeleteBucket(m)
      PROVE  FALSE
  BY <1>1, <1>4, BucketEffect
<1>5. ASSUME NEW h \in Handlers, NEW m \in Names, NEW j \in Keys \union {Missing},
             NEW ref \in Refs \union {Missing}, PutObjectCheck(h, m, j, ref)
      PROVE  FALSE
  BY <1>1, <1>5, CheckEffect
<1>6. ~Restart /\ ~(UNCHANGED vars)
  BY <1>1 DEF Restart, vars, repo
<1>7. QED
  BY <1>2, <1>3, <1>4, <1>5, <1>6 DEF Next

LEMMA FaultTypes ==
    ASSUME GatewayTypeOK, GatewayNext
    PROVE  faults' \in 0..MaxFaults /\ torn' \subseteq Blobs
<1>1. faults \in 0..MaxFaults /\ torn \subseteq Blobs /\ MaxFaults \in Nat
  BY GatewayAssumption DEF GatewayTypeOK
<1>2. ASSUME NEW hit \in SUBSET Slots, Fault(hit)
      PROVE  faults' \in 0..MaxFaults /\ torn' \subseteq Blobs
  <2>1. faults' \in 0..MaxFaults
    BY <1>1, <1>2 DEF Fault
  <2>2. \A g \in hit : Holding(g) => Blob(g) \in Blobs
    BY SlotTypes DEF Holding, Blob, Blobs
  <2>3. torn' \subseteq Blobs
    BY <1>1, <1>2, <2>2 DEF Fault
  <2>4. QED
    BY <2>1, <2>3
<1>3. CASE NoFault
  BY <1>1, <1>3 DEF NoFault
<1>4. CASE Fail
  BY <1>2, <1>4 DEF Fail, FirstLost, CallLost, ResponseLost, GwRestart, MetaRestart
<1>5. QED
  BY <1>3, <1>4 DEF GatewayNext

\* The inductive invariant's first half: types, and what the handlers carry.
HandlersInv == GatewayTypeOK /\ CarriedOver /\ PendingMatched

LEMMA HandlersStep ==
    ASSUME HandlersInv, [GatewayNext]_allVars
    PROVE  HandlersInv'
<1>1. CASE GatewayNext
  <2>1. StepFacts /\ torn \subseteq torn' /\ Record
    BY <1>1, AllFacts DEF HandlersInv
  <2>2. TypeOK'
    BY MetadataStep, TypeStep DEF HandlersInv, GatewayTypeOK
  <2>3. SlotsOK'
    BY <2>1 DEF StepFacts
  <2>4. faults' \in 0..MaxFaults /\ torn' \subseteq Blobs
    BY <1>1, FaultTypes DEF HandlersInv
  <2>5. blobs' \subseteq Blobs
    <3>1. ASSUME NEW g \in Slots, At(g, "write")
          PROVE  Blob(g) \in Blobs
      BY <3>1, SlotTypes DEF HandlersInv, CarriedOver, At, Blob, Blobs
    <3>2. blobs \subseteq Blobs
      BY DEF HandlersInv, GatewayTypeOK
    <3>3. QED
      BY <2>1, <2>4, <3>1, <3>2 DEF StepFacts, BlobMoves
  <2>6. /\ shared' \subseteq Blobs /\ strays' \subseteq Blobs /\ moved' \subseteq Slots
    BY <2>1, <2>5 DEF Record, Overwritten, CrossedByDelete, NotUndone, Overtaken,
                      HandlersInv, GatewayTypeOK
  <2>7. AnswerOK'
    BY <1>1, AnswerTypes DEF HandlersInv
  <2>8. \A g \in Slots : slot'[g] # Free =>
          /\ slot'[g].pc = "saving" <=> slot'[g].via # NoHandler
          /\ slot'[g].pc = "saving" => pending'[slot'[g].via] # NoPut
    BY <2>3 DEF SlotsOK, RecordOK, At
  <2>9. GatewayTypeOK'
    BY <2>2, <2>3, <2>4, <2>5, <2>6, <2>7, <2>8 DEF GatewayTypeOK, SlotsOK, AnswerOK
  <2>10. CarriedOver'
    <3>1. StorableOnly'
      <4>1. ASSUME NEW n \in Names, NEW k \in Keys, LiveObject(n, k)',
                   ~LiveObject(n, k)
            PROVE  k \in StorableKeys
        BY <4>1, MetadataStep, LiveStorable DEF HandlersInv, GatewayTypeOK
      <4>2. QED
        BY <4>1 DEF HandlersInv, CarriedOver, StorableOnly
    <3>2. QED
      BY <2>3, <3>1 DEF CarriedOver, StorableOnly, SlotsOK, RecordOK
  <2>11. QED
    BY <2>3, <2>9, <2>10 DEF HandlersInv, SlotsOK
<1>2. CASE UNCHANGED allVars
  BY <1>2 DEF allVars, vars, repo, gateway, history, HandlersInv, GatewayTypeOK,
              TypeOK, RepoTypeOK, CarriedOver, PendingMatched, LiveObject, At
<1>3. QED
  BY <1>1, <1>2

-----------------------------------------------------------------------------
(* The bytes.                                                              *)

\* What excuses missing bytes is remembered.
LEMMA ExcusedKept ==
    ASSUME torn \subseteq torn', Record, NEW x \in Blobs, Excused(x)
    PROVE  x \in shared' \union torn'
BY DEF Excused, Record

\* A slot that holds a blob before the step, and what it is then.
LEMMA HolderIs ==
    ASSUME NEW g \in Slots, NEW x
    PROVE  g \in Holders(x) <=>
             /\ slot[g] # Free /\ slot[g].pc \in {"meta", "saving", "undo", "unlink"}
             /\ slot[g].ref # Missing /\ <<slot[g].name, slot[g].ref>> = x
BY DEF Holders, Holding, Blob

LEMMA TwoHolders ==
    ASSUME NEW x, NEW f \in Holders(x), NEW g \in Holders(x), f # g
    PROVE  Excused(x)
BY DEF Excused, HasTwoUsers

\* The record of a slot that a step brings to a blob.
LEMMA NewHolder ==
    ASSUME HandlersInv, HandlersInv', NEW g \in Slots, SlotMove(g), slot'[g] # Free,
           slot'[g].pc \in {"meta", "saving", "undo", "unlink"},
           slot'[g].ref # Missing,
           slot'[g].op \in BucketOps
    PROVE  LET x == <<slot'[g].name, slot'[g].ref>>
           IN  \/ g \in Holders(x) /\ slot[g].op = slot'[g].op
               \/ slot'[g].op = "PutObject" /\ x \in blobs'
               \/ /\ slot'[g].pc = "unlink" /\ slot[g] # Free /\ slot[g].pc = "lookup"
                  /\ slot'[g].op = "DeleteObject" /\ slot'[g].key \in Keys
                  /\ RefersTo(UrlKey[slot'[g].key], x)
                  /\ UNCHANGED <<objects, blobs>>
<1> DEFINE x == <<slot'[g].name, slot'[g].ref>>
<1>1. CASE slot'[g] = slot[g]
  BY <1>1, HolderIs
<1>2. CASE slot[g] = Free /\ Begins(slot'[g])
  BY <1>2 DEF Begins
<1>3. CASE slot[g] # Free /\ SameRequest(slot'[g], slot[g]) /\ GoesOn(slot[g], slot'[g])
  <2>1. CASE /\ slot'[g].ref = slot[g].ref
             /\ slot[g].pc \in {"meta", "saving", "unlink"}
    BY <1>3, <2>1, HolderIs DEF SameRequest
  <2>2. CASE slot'[g].ref = slot[g].ref /\ slot[g].pc = "write"
    <3>1. slot[g].op = "PutObject"
      BY <1>3, <2>2 DEF HandlersInv, CarriedOver
    <3>2. <<slot[g].name, slot[g].ref>> \in blobs'
      BY <1>3, <2>2 DEF GoesOn
    <3>3. QED
      BY <1>3, <2>2, <3>1, <3>2 DEF SameRequest
  <2>3. CASE slot[g].pc = "lookup"
    <3>1. /\ slot'[g].pc = "unlink" /\ slot[g].key \in Keys
          /\ RefersTo(UrlKey[slot[g].key], <<slot[g].name, slot'[g].ref>>)
          /\ UNCHANGED <<objects, blobs>>
      BY <1>3, <2>3 DEF GoesOn
    <3>2. slot'[g].op = "DeleteObject"
      BY <3>1 DEF HandlersInv, CarriedOver
    <3>3. QED
      BY <1>3, <2>3, <3>1, <3>2 DEF SameRequest
  <2>4. QED
    BY <1>3, <2>1, <2>2, <2>3 DEF GoesOn
<1>4. QED
  BY <1>1, <1>2, <1>3 DEF SlotMove

\* A request that holds a blob.
LEMMA HeldBlob ==
    ASSUME HandlersInv, NEW x, NEW g \in Holders(x)
    PROVE  /\ g \in Slots /\ slot[g] # Free /\ Blob(g) = x /\ x \in Blobs
           /\ slot[g].name \in Names /\ slot[g].ref \in Refs
           /\ slot[g].op \in BucketOps
<1>1. g \in Slots /\ slot[g] # Free /\ slot[g].ref # Missing /\ Blob(g) = x
  BY DEF Holders, Holding
<1>2. slot[g].name \in Names /\ slot[g].ref \in Refs /\ slot[g].op \in BucketOps
  BY <1>1, SlotTypes DEF HandlersInv
<1>3. QED
  BY <1>1, <1>2 DEF Blob, Blobs

\* Bytes go at the hands of a request that holds them.
LEMMA BytesGo ==
    ASSUME HandlersInv, HandlersInv', StepFacts, NEW x \in blobs, x \notin blobs',
           x \notin torn'
    PROVE  \E g \in Holders(x) :
             \/ At(g, "undo") /\ slot[g].op = "PutObject" /\ slot'[g] = Free
             \/ /\ At(g, "unlink") /\ slot[g].op = "DeleteObject"
                /\ slot'[g] # Free /\ slot'[g].pc = "meta"
                /\ SameRequest(slot'[g], slot[g]) /\ slot'[g].ref = slot[g].ref
<1>1. PICK g \in Slots :
        /\ Blob(g) = x
        /\ \/ At(g, "undo") /\ slot'[g] = Free
           \/ At(g, "unlink") /\ slot'[g] # Free /\ slot'[g].pc = "meta"
  BY DEF StepFacts, BlobMoves
<1>2. slot[g] # Free /\ slot[g].ref \in Refs /\ slot[g].ref # Missing
  BY <1>1, MetadataAssumption DEF HandlersInv, CarriedOver, At
<1>3. g \in Holders(x)
  BY <1>1, <1>2 DEF Holders, Holding, At
<1>4. CASE At(g, "undo") /\ slot'[g] = Free
  <2>1. slot[g].op = "PutObject"
    BY <1>4 DEF HandlersInv, CarriedOver, At
  <2>2. QED
    BY <1>3, <1>4, <2>1
<1>5. CASE At(g, "unlink") /\ slot'[g] # Free /\ slot'[g].pc = "meta"
  <2>1. slot[g].op = "DeleteObject" /\ slot[g] # Free /\ slot[g].pc = "unlink"
    BY <1>5 DEF HandlersInv, CarriedOver, At
  <2>2. SameRequest(slot'[g], slot[g]) /\ slot'[g].ref = slot[g].ref
    BY <1>5, <2>1 DEF StepFacts, SlotMove, GoesOn
  <2>3. QED
    BY <1>3, <1>5, <2>1, <2>2
<1>6. QED
  BY <1>1, <1>4, <1>5

LEMMA PutsBackedStep ==
    ASSUME HandlersInv, HandlersInv', PutsBacked, StepFacts, Record,
           torn \subseteq torn'
    PROVE  PutsBacked'
<1>1. SUFFICES ASSUME NEW x \in Blobs, NEW p \in Slots, p \in Putting(x)',
                      x \notin blobs', x \notin shared' \union torn'
               PROVE  FALSE
  BY DEF PutsBacked, Excused, Putting, Holders
<1>2. ~Excused(x)
  BY <1>1, ExcusedKept
<1>3. /\ slot'[p] # Free /\ slot'[p].pc \in {"meta", "saving", "undo", "unlink"}
      /\ slot'[p].ref # Missing /\ <<slot'[p].name, slot'[p].ref>> = x
      /\ slot'[p].op = "PutObject"
  BY <1>1 DEF Putting, Holders, Holding, Blob
<1>4. p \in Holders(x) /\ slot[p].op = "PutObject"
  <2>1. SlotMove(p) /\ slot'[p].op \in BucketOps
    BY <1>3 DEF StepFacts, BucketOps
  <2>2. QED
    BY <1>1, <1>3, <2>1, NewHolder
<1>5. x \in blobs
  BY <1>2, <1>4 DEF PutsBacked, Putting
<1>6. PICK g \in Holders(x) :
             \/ At(g, "undo") /\ slot[g].op = "PutObject" /\ slot'[g] = Free
             \/ /\ At(g, "unlink") /\ slot[g].op = "DeleteObject"
                /\ slot'[g] # Free /\ slot'[g].pc = "meta"
                /\ SameRequest(slot'[g], slot[g]) /\ slot'[g].ref = slot[g].ref
  BY <1>1, <1>5, BytesGo
<1>7. g # p
  BY <1>3, <1>4, <1>6
<1>8. QED
  BY <1>2, <1>4, <1>6, <1>7, TwoHolders

LEMMA DeletesOwnStep ==
    ASSUME HandlersInv, HandlersInv', DeletesOwn, StepFacts, Record,
           torn \subseteq torn'
    PROVE  DeletesOwn'
<1>1. SUFFICES ASSUME NEW g \in Slots, NEW k \in Keys, NEW x \in Blobs,
                      slot'[g] # Free, slot'[g].pc = "unlink",
                      x = <<slot'[g].name, slot'[g].ref>>, RefersTo(k, x)',
                      x \notin shared' \union torn', ~HasTwoUsers(x)'
               PROVE  k = UrlKey[slot'[g].key]
  BY DEF DeletesOwn, At, Blob, Excused
<1>2. ~Excused(x)
  BY <1>1, ExcusedKept
<1>3. SlotMove(g) /\ slot'[g].op = "DeleteObject" /\ slot'[g].ref \in Refs
      /\ slot'[g].ref # Missing /\ slot'[g].op \in BucketOps
  BY <1>1, MetadataAssumption DEF StepFacts, HandlersInv, CarriedOver, BucketOps
<1>4. CASE g \in Holders(x) /\ slot[g].op = slot'[g].op
  <2>1. slot'[g] = slot[g] /\ At(g, "unlink") /\ Blob(g) = x
    <3>1. slot[g].pc \in {"meta", "saving", "undo", "unlink"} /\ slot[g] # Free
          /\ Blob(g) = x
      BY <1>4 DEF Holders
    <3>2. QED
      BY <1>1, <1>3, <1>4, <3>1 DEF SlotMove, GoesOn, At
  <2>2. CASE RefersTo(k, x)
    BY <1>2, <2>1, <2>2 DEF DeletesOwn
  <2>3. CASE ~RefersTo(k, x)
    <3>1. PICK n \in Names, ref \in Refs : x = <<n, ref>>
      BY DEF Blobs
    <3>2. PICK f \in Slots : At(f, "saving") /\ Blob(f) = x
      BY <1>1, <2>3, <3>1 DEF StepFacts, RefMoves
    <3>3. f \in Holders(x)
      BY <3>2, MetadataAssumption DEF HandlersInv, CarriedOver, At, Holders, Holding
    <3>4. f # g
      BY <2>1, <3>2 DEF At
    <3>5. QED
      BY <1>2, <1>4, <3>3, <3>4, TwoHolders
  <2>4. QED
    BY <2>2, <2>3
<1>5. CASE /\ slot'[g].key \in Keys /\ RefersTo(UrlKey[slot'[g].key], x)
           /\ UNCHANGED <<objects, blobs>>
  <2>1. RefersTo(k, x)
    BY <1>1, <1>5 DEF RefersTo, LiveObject
  <2>2. UrlKey[slot'[g].key] \in Keys
    BY <1>5, GatewayAssumption
  <2>3. QED
    BY <1>2, <1>5, <2>1, <2>2 DEF Excused, HasTwoUsers
<1>6. QED
  BY <1>1, <1>3, <1>4, <1>5, NewHolder

\* DanglingExplained, one object at a time.
LEMMA DanglingStep ==
    ASSUME HandlersInv, HandlersInv', PutsBacked, DeletesOwn, DanglingExplained,
           StepFacts, Record, torn \subseteq torn'
    PROVE  DanglingExplained'
<1>1. SUFFICES ASSUME NEW x \in Blobs, NEW k \in Keys, RefersTo(k, x)',
                      x \notin blobs', x \notin shared' \union torn'
               PROVE  \E g \in Slots :
                        /\ slot'[g] # Free /\ slot'[g].pc = "meta"
                        /\ slot'[g].op = "DeleteObject"
                        /\ <<slot'[g].name, slot'[g].ref>> = x
                        /\ UrlKey[slot'[g].key] = k
  BY DEF DanglingExplained, At, Blob
<1>2. PICK n \in Names, ref \in Refs : x = <<n, ref>>
  BY DEF Blobs
<1>3. ~Excused(x)
  BY <1>1, ExcusedKept
<1>4. CASE RefersTo(k, x) /\ x \notin blobs
  <2>2. PICK g \in Slots : /\ At(g, "meta")
                           /\ slot[g].op = "DeleteObject"
                           /\ Blob(g) = x
                           /\ UrlKey[slot[g].key] = k
    BY <1>3, <1>4 DEF DanglingExplained, Excused
  <2>3. slot[g] # Free /\ slot[g].pc = "meta" /\ slot[g].ref \in Refs
        /\ slot[g].ref # Missing /\ SlotMove(g)
    BY <2>2, MetadataAssumption DEF At, HandlersInv, CarriedOver, StepFacts
  <2>4. ~Ends(slot[g])
    BY <1>1, <1>2, <2>2, <2>3 DEF Ends, Blob, RefersTo
  <2>5. ~GoesOn(slot[g], slot'[g])
    BY <2>2, <2>3 DEF GoesOn
  <2>6. slot'[g] = slot[g]
    BY <2>3, <2>4, <2>5 DEF SlotMove
  <2>7. QED
    BY <2>2, <2>3, <2>6 DEF Blob
<1>5. CASE RefersTo(k, x) /\ x \in blobs
  <2>1. PICK g \in Holders(x) :
             \/ At(g, "undo") /\ slot[g].op = "PutObject" /\ slot'[g] = Free
             \/ /\ At(g, "unlink") /\ slot[g].op = "DeleteObject"
                /\ slot'[g] # Free /\ slot'[g].pc = "meta"
                /\ SameRequest(slot'[g], slot[g]) /\ slot'[g].ref = slot[g].ref
    BY <1>1, <1>5, BytesGo
  <2>2. g \in Slots /\ Blob(g) = x
    BY <2>1, HeldBlob
  <2>3. ~(At(g, "undo") /\ slot[g].op = "PutObject")
    BY <1>3, <1>5, <2>1 DEF Excused, HasTwoUsers, Putting
  <2>4. k = UrlKey[slot[g].key]
    BY <1>3, <1>5, <2>1, <2>2, <2>3 DEF DeletesOwn
  <2>5. QED
    BY <2>1, <2>2, <2>3, <2>4 DEF SameRequest, Blob
<1>6. CASE ~RefersTo(k, x)
  <2>1. PICK f \in Slots : At(f, "saving") /\ Blob(f) = x
    BY <1>1, <1>2, <1>6 DEF StepFacts, RefMoves
  <2>2. slot[f].op = "PutObject" /\ slot[f].ref \in Refs /\ slot[f].ref # Missing
    BY <2>1, MetadataAssumption DEF HandlersInv, CarriedOver, At
  <2>3. f \in Holders(x) /\ f \in Putting(x)
    BY <2>1, <2>2 DEF At, Holders, Holding, Putting
  <2>4. x \in blobs
    BY <1>3, <2>3 DEF PutsBacked
  <2>5. PICK g \in Holders(x) : At(g, "undo") \/ At(g, "unlink")
    BY <1>1, <2>4, BytesGo
  <2>6. f # g
    BY <2>1, <2>5 DEF At
  <2>7. QED
    BY <1>3, <2>3, <2>5, <2>6, TwoHolders
<1>7. QED
  BY <1>4, <1>5, <1>6

\* GatewayInv is inductive.
LEMMA GatewayInvStep ==
    GatewayInv /\ [GatewayNext]_allVars => GatewayInv'
<1> SUFFICES ASSUME GatewayInv, [GatewayNext]_allVars
             PROVE  GatewayInv'
  OBVIOUS
<1>1. HandlersInv /\ HandlersInv'
  BY HandlersStep DEF GatewayInv, HandlersInv
<1>2. CASE GatewayNext
  <2>1. StepFacts /\ torn \subseteq torn' /\ Record
    BY <1>2, AllFacts DEF GatewayInv
  <2>2. QED
    BY <1>1, <2>1, PutsBackedStep, DeletesOwnStep, DanglingStep
       DEF GatewayInv, HandlersInv
<1>3. CASE UNCHANGED allVars
  <2>1. UNCHANGED <<objects, blobs, slot, shared, torn>>
    BY <1>3 DEF allVars, vars, repo, gateway, history
  <2>2. \A g \in Slots : Blob(g)' = Blob(g) /\ \A pc : At(g, pc)' <=> At(g, pc)
    BY <2>1 DEF Blob, At
  <2>3. \A k, x : RefersTo(k, x)' <=> RefersTo(k, x)
    BY <2>1 DEF RefersTo, LiveObject
  <2>4. \A x : Holders(x)' = Holders(x) /\ Putting(x)' = Putting(x)
    BY <2>1 DEF Holders, Holding, Blob, Putting
  <2>5. \A x : HasTwoUsers(x)' <=> HasTwoUsers(x)
    BY <2>3, <2>4 DEF HasTwoUsers
  <2>6. \A x : Excused(x)' <=> Excused(x)
    BY <2>1, <2>5 DEF Excused
  <2>7. PutsBacked'
    BY <2>1, <2>4, <2>6 DEF GatewayInv, PutsBacked
  <2>8. DeletesOwn'
    BY <2>1, <2>2, <2>3, <2>6 DEF GatewayInv, DeletesOwn
  <2>9. DanglingExplained'
    BY <2>1, <2>2, <2>3, <2>5 DEF GatewayInv, DanglingExplained
  <2>10. QED
    BY <1>1, <2>7, <2>8, <2>9 DEF GatewayInv, HandlersInv
<1>4. QED
  BY <1>2, <1>3

LEMMA GatewayInvInit == GatewayInit => GatewayInv
<1> SUFFICES ASSUME GatewayInit
             PROVE  GatewayInv
  OBVIOUS
<1>1. \A g \in Slots : slot[g] = Free
  BY DEF GatewayInit
<1>2. \A n \in Names, k \in Keys : ~LiveObject(n, k)
  BY DEF GatewayInit, Init, RepoInit, LiveObject
<1>3. TypeOK
  BY DEF GatewayInit, Init, RepoInit, TypeOK, RepoTypeOK
<1>4. GatewayTypeOK
  BY <1>1, <1>3, GatewayAssumption DEF GatewayInit, GatewayTypeOK
<1>5. CarriedOver
  BY <1>1, <1>2 DEF CarriedOver
<1>6. PendingMatched
  BY <1>1 DEF PendingMatched, At, GatewayInit, Init
<1>7. PutsBacked /\ DeletesOwn
  BY <1>1 DEF PutsBacked, DeletesOwn, Putting, Holders, At
<1>8. DanglingExplained
  <2>1. \A x \in Blobs : x[1] \in Names
    BY DEF Blobs
  <2>2. QED
    BY <1>2, <2>1 DEF DanglingExplained, RefersTo
<1>9. QED
  BY <1>4, <1>5, <1>6, <1>7, <1>8 DEF GatewayInv

\* No byte becomes garbage unnoticed.
LEMMA GarbageStep ==
    ASSUME HandlersInv, HandlersInv', GarbageExplained, StepFacts, Record,
           torn \subseteq torn'
    PROVE  GarbageExplained'
<1>1. SUFFICES ASSUME NEW x \in blobs', \A k \in Keys : ~RefersTo(k, x)',
                      x \notin strays' \union torn',
                      \A p \in Slots :
                        ~(/\ slot'[p] # Free
                          /\ slot'[p].pc \in {"meta", "saving", "undo", "unlink"}
                          /\ slot'[p].ref # Missing
                          /\ <<slot'[p].name, slot'[p].ref>> = x
                          /\ slot'[p].op = "PutObject")
               PROVE  FALSE
  BY DEF GarbageExplained, Putting, Holders, Holding, Blob
<1>2. x \in Blobs
  BY DEF HandlersInv, GatewayTypeOK
<1>3. strays \subseteq strays' /\ Overwritten \subseteq strays'
      /\ CrossedByDelete \subseteq strays' /\ NotUndone \subseteq strays'
  BY DEF Record
<1>4. CASE x \notin blobs
  <2>1. PICK g \in Slots : At(g, "write") /\ Blob(g) = x
                           /\ slot'[g] # Free /\ slot'[g].pc = "meta"
    BY <1>1, <1>4 DEF StepFacts, BlobMoves
  <2>2. slot[g] # Free /\ slot[g].pc = "write" /\ slot[g].op = "PutObject"
        /\ slot[g].ref # Missing
    BY <2>1, MetadataAssumption DEF HandlersInv, CarriedOver, At
  <2>3. SameRequest(slot'[g], slot[g]) /\ slot'[g].ref = slot[g].ref
    BY <2>1, <2>2 DEF StepFacts, SlotMove, GoesOn
  <2>4. QED
    BY <1>1, <2>1, <2>2, <2>3 DEF SameRequest, Blob
<1>5. ASSUME NEW k \in Keys, RefersTo(k, x), x \in blobs
      PROVE  FALSE
  <2>1. CASE LiveObject(x[1], k)'
    BY <1>1, <1>2, <1>3, <1>5, <2>1 DEF Overwritten
  <2>2. CASE ~LiveObject(x[1], k)'
    BY <1>1, <1>3, <1>5, <2>2 DEF CrossedByDelete
  <2>3. QED
    BY <2>1, <2>2
<1>6. ASSUME NEW p \in Holders(x), slot[p].op = "PutObject"
      PROVE  FALSE
  <2>1. /\ p \in Slots /\ slot[p] # Free /\ slot[p].ref # Missing
        /\ slot[p].pc \in {"meta", "saving", "undo", "unlink"}
        /\ <<slot[p].name, slot[p].ref>> = x /\ SlotMove(p)
        /\ slot[p].pc # "unlink"
    BY <1>6, HolderIs DEF StepFacts, Holders, HandlersInv, CarriedOver
  <2>2. slot'[p] = Free
    <3>1. CASE slot'[p] = slot[p]
      BY <1>1, <1>6, <2>1, <3>1
    <3>2. CASE slot'[p] # Free /\ SameRequest(slot'[p], slot[p])
               /\ GoesOn(slot[p], slot'[p])
      BY <1>1, <1>6, <2>1, <3>2 DEF SameRequest, GoesOn
    <3>3. QED
      BY <2>1, <3>1, <3>2 DEF SlotMove
  <2>3. Ends(slot[p])
    BY <2>1, <2>2 DEF SlotMove
  <2>4. ~SavedBy(slot[p].name, slot[p].ref)
    BY <1>1, <2>1 DEF SavedBy
  <2>5. slot[p].pc = "undo"
    BY <1>1, <1>6, <2>1, <2>3, <2>4 DEF Ends
  <2>6. x \in NotUndone
    BY <2>1, <2>2, <2>5 DEF NotUndone, At, Blob
  <2>7. QED
    BY <1>1, <1>3, <2>6
<1>7. CASE x \in strays \union torn
  BY <1>1, <1>3, <1>7
<1>8. QED
  BY <1>4, <1>5, <1>6, <1>7 DEF GarbageExplained, Putting

-----------------------------------------------------------------------------
(* The theorems.                                                           *)

\* Whatever requests, retries, restarts and lost calls there are, the types
\* are kept and the handlers carry what they looked up.
THEOREM GatewayInvariance == GatewaySpec => []GatewayInv
BY GatewayInvInit, GatewayInvStep, PTL DEF GatewaySpec

\* The types of the composition.
THEOREM GatewayTypeCorrect == GatewaySpec => []GatewayTypeOK
<1>1. GatewayInv => GatewayTypeOK
  BY DEF GatewayInv
<1>2. QED
  BY <1>1, GatewayInvariance, PTL

\* handlePutObject and handleDeleteObject: an object loses its bytes in no
\* other way than DanglingExplained names.
THEOREM DanglingAccounted == GatewaySpec => []DanglingExplained
<1>1. GatewayInv => DanglingExplained
  BY DEF GatewayInv
<1>2. QED
  BY <1>1, GatewayInvariance, PTL

\* handlePutObject and handleDeleteObject: bytes are left behind in no other
\* way than GarbageExplained names.
THEOREM GarbageAccounted == GatewaySpec => []GarbageExplained
<1>1. GatewayInit => GarbageExplained
  BY DEF GatewayInit, GarbageExplained
<1>2. GatewayInv /\ GatewayInv' /\ GarbageExplained /\ [GatewayNext]_allVars
        => GarbageExplained'
  <2>1. CASE GatewayInv /\ GatewayInv' /\ GarbageExplained /\ GatewayNext
    BY <2>1, AllFacts, GarbageStep DEF GatewayInv, HandlersInv
  <2>2. CASE GarbageExplained /\ UNCHANGED allVars
    BY <2>2 DEF GarbageExplained, allVars, vars, repo, gateway, history, RefersTo,
                LiveObject, Putting, Holders, Holding, Blob
  <2>3. QED
    BY <2>1, <2>2
<1>3. QED
  BY <1>1, <1>2, GatewayInvariance, PTL DEF GatewaySpec

\* metadata-service inside the composition behaves as it does alone, so what
\* is proved of it holds under api-service too.
THEOREM MetadataInGateway == GatewaySpec => Spec
<1>1. GatewayInit => Init
  BY DEF GatewayInit
<1>2. GatewayInv /\ [GatewayNext]_allVars => [Next]_vars
  BY MetadataStep DEF GatewayInv
<1>3. QED
  BY <1>1, <1>2, GatewayInvariance, PTL DEF GatewaySpec, Spec

\* authorizeBucketOwner looks the owner up once: that is enough until somebody
\* deletes the bucket.
THEOREM OwnerStays == GatewaySpec => []OwnerUntilDeleted
<1>1. GatewayInit => OwnerUntilDeleted
  BY DEF GatewayInit, OwnerUntilDeleted
<1>2. GatewayInv /\ OwnerUntilDeleted /\ [GatewayNext]_allVars => OwnerUntilDeleted'
  <2>1. CASE OwnerUntilDeleted /\ UNCHANGED allVars
    BY <2>1 DEF OwnerUntilDeleted, allVars, vars, repo, gateway, history, LiveBucket
  <2>2. CASE GatewayInv /\ OwnerUntilDeleted /\ GatewayNext
    <3>1. StepFacts /\ Record
      BY <2>2, AllFacts DEF GatewayInv
    <3>2. ASSUME NEW g \in Slots \ moved', slot'[g] # Free
          PROVE  LET b == records'[slot'[g].name]
                 IN  b # NoRecord /\ ~b.deleted /\ b.owner = slot'[g].who
      <4>1. SlotMove(g)
        BY <3>1, <3>2 DEF StepFacts
      <4>2. CASE slot[g] = Free
        BY <3>2, <4>1, <4>2 DEF SlotMove, Begins, LiveBucket, vars, repo
      <4>3. CASE slot[g] # Free
        <5>1. SameRequest(slot'[g], slot[g])
          BY <3>2, <4>1, <4>3 DEF SlotMove, SameRequest
        <5>2. PICK n \in Names : n = slot[g].name
          BY <2>2, <4>3, SlotTypes DEF GatewayInv
        <5>3. g \notin moved /\ ~(LiveBucket(n) /\ ~LiveBucket(n)')
          BY <3>1, <3>2, <4>3, <5>2 DEF Record, Overtaken
        <5>4. LiveBucket(n) /\ records[n].owner = slot[g].who
          BY <2>2, <4>3, <5>2, <5>3 DEF OwnerUntilDeleted
        <5>5. LiveBucket(n)' /\ records'[n].owner = records[n].owner
          BY <2>2, <5>3, <5>4, MetadataStep, OwnerKept DEF GatewayInv, GatewayTypeOK
        <5>6. QED
          BY <5>1, <5>2, <5>4, <5>5 DEF SameRequest, LiveBucket
      <4>4. QED
        BY <4>2, <4>3
    <3>3. QED
      BY <3>2 DEF OwnerUntilDeleted, LiveBucket
  <2>3. QED
    BY <2>1, <2>2
<1>3. QED
  BY <1>1, <1>2, GatewayInvariance, PTL DEF GatewaySpec

-----------------------------------------------------------------------------
(* What a response of metadata-service says about the buckets and objects. *)

LEMMA CreateAnswered ==
    ASSUME TypeOK, NEW n \in Names, NEW o \in Owners, CreateBucket(n, o)
    PROVE  \/ /\ reply'.status = 201
              /\ DirOwner[n] = NoRecord
              /\ DirOwner' = [DirOwner EXCEPT ![n] = o]
              /\ DirContent' = DirContent
           \/ /\ reply'.status = 409
              /\ DirOwner[n] # NoRecord
              /\ UNCHANGED <<DirOwner, DirContent>>
           \/ /\ reply'.status \in {400, 500}
              /\ UNCHANGED <<DirOwner, DirContent>>
<1>1. CASE Reject("CreateBucket", n, Missing, "InvalidInput")
  BY <1>1, QuietMapped DEF Reject, Respond, WriteError, repo
<1>2. ASSUME NEW err \in RepoErrors, BucketCreate(n, o, err),
             Respond("CreateBucket", n, Missing, err)
      PROVE  \/ /\ reply'.status = 201
                /\ DirOwner[n] = NoRecord
                /\ DirOwner' = [DirOwner EXCEPT ![n] = o]
                /\ DirContent' = DirContent
             \/ /\ reply'.status = 409
                /\ DirOwner[n] # NoRecord
                /\ UNCHANGED <<DirOwner, DirContent>>
             \/ /\ reply'.status \in {400, 500}
                /\ UNCHANGED <<DirOwner, DirContent>>
  <2>1. CASE err = "ok"
    <3>1. reply'.status = 201
      BY <1>2, <2>1 DEF Respond, Success
    <3>2. QED
      BY <1>2, <2>1, <3>1, CreateMapped, Mapped
  <2>2. CASE err = "AlreadyExists"
    BY <1>2, <2>2, QuietMapped, Mapped DEF BucketCreate, Respond, WriteError, repo
  <2>3. CASE err = "Internal"
    BY <1>2, <2>3, QuietMapped DEF BucketCreate, Respond, WriteError, repo
  <2>4. QED
    BY <1>2, <2>1, <2>2, <2>3 DEF BucketCreate
<1>3. QED
  BY <1>1, <1>2 DEF CreateBucket

LEMMA DeleteAnswered ==
    ASSUME TypeOK, NEW n \in Names, DeleteBucket(n)
    PROVE  \/ /\ reply'.status = 204
              /\ DirOwner[n] # NoRecord
              /\ \A k \in Keys : DirContent[<<n, k>>] = NoRecord
              /\ DirOwner' = [DirOwner EXCEPT ![n] = NoRecord]
              /\ DirContent' = DirContent
           \/ /\ reply'.status = 404
              /\ DirOwner[n] = NoRecord
              /\ UNCHANGED <<DirOwner, DirContent>>
           \/ /\ reply'.status = 409
              /\ \E k \in Keys : DirContent[<<n, k>>] # NoRecord
              /\ UNCHANGED <<DirOwner, DirContent>>
           \/ /\ reply'.status = 500
              /\ UNCHANGED <<DirOwner, DirContent>>
<1>1. PICK err \in RepoErrors :
        BucketDelete(n, err) /\ Respond("DeleteBucket", n, Missing, err)
  BY DEF DeleteBucket
<1>2. LiveKeys(n) = {} <=> \A k \in Keys : DirContent[<<n, k>>] = NoRecord
  BY Mapped DEF LiveKeys
<1>3. CASE err = "ok"
  <2>1. reply'.status = 204
    BY <1>1, <1>3 DEF Respond, Success
  <2>2. QED
    BY <1>1, <1>2, <1>3, <2>1, DeleteMapped, Mapped
<1>4. CASE err = "NotFound"
  BY <1>1, <1>4, QuietMapped, Mapped DEF BucketDelete, Respond, WriteError, repo
<1>5. CASE err = "NotEmpty"
  BY <1>1, <1>2, <1>5, QuietMapped DEF BucketDelete, Respond, WriteError, repo
<1>6. CASE err = "Internal"
  BY <1>1, <1>6, QuietMapped DEF BucketDelete, Respond, WriteError, repo
<1>7. QED
  BY <1>1, <1>3, <1>4, <1>5, <1>6 DEF BucketDelete

LEMMA CheckAnswered ==
    ASSUME NEW h \in Handlers, NEW n \in Names,
           NEW k \in Keys \union {Missing}, NEW ref \in Refs,
           LiveBucket(n), pending'[h] = NoPut, TypeOK,
           PutObjectCheck(h, n, k, ref)
    PROVE  k = Missing /\ reply'.status = 400
<1>1. ref # Missing
  BY MetadataAssumption
<1>2. CASE k = Missing /\ Reject("PutObject", n, k, "InvalidInput")
  BY <1>2 DEF Reject, Respond, WriteError
<1>3. CASE k # Missing
  BY <1>1, <1>3, CheckEffect, MetadataAssumption DEF PutObjectCheck, TypeOK
<1>4. QED
  BY <1>1, <1>2, <1>3 DEF PutObjectCheck

LEMMA WriteAnswered ==
    ASSUME TypeOK, NEW h \in Handlers, NEW n \in Names, NEW k \in Keys,
           NEW ref \in Refs, pending[h] = [name |-> n, key |-> k, ref |-> ref],
           PutObjectWrite(h)
    PROVE  /\ UNCHANGED records
           /\ \/ /\ reply'.status = 201
                 /\ objects' = [objects EXCEPT ![<<n, k>>] =
                                  [ref |-> ref, deleted |-> FALSE]]
                 /\ DirContent' = [DirContent EXCEPT ![<<n, k>>] = ref]
                 /\ DirOwner' = DirOwner
              \/ /\ reply'.status = 500
                 /\ k \notin StorableKeys
                 /\ objects' = objects
                 /\ UNCHANGED <<DirOwner, DirContent>>
<1>1. /\ pending[h].name = n /\ pending[h].key = k /\ pending[h].ref = ref
  OBVIOUS
<1>2. PICK err \in RepoErrors :
        ObjectPut(n, k, ref, err) /\ Respond("PutObject", n, k, err)
  BY <1>1 DEF PutObjectWrite
<1>3. CASE err = "ok"
  <2>1. reply'.status = 201
    BY <1>2, <1>3 DEF Respond, Success
  <2>2. QED
    BY <1>2, <1>3, <2>1, PutMapped DEF ObjectPut
<1>4. CASE err = "Internal"
  BY <1>2, <1>4, QuietMapped DEF ObjectPut, Respond, WriteError, repo
<1>5. QED
  BY <1>2, <1>3, <1>4 DEF ObjectPut

LEMMA UnlinkAnswered ==
    ASSUME TypeOK, NEW n \in Names, NEW k \in StorableKeys, LiveObject(n, k),
           DeleteObject(n, k)
    PROVE  /\ reply'.status = 204
           /\ UNCHANGED records
           /\ objects' = [objects EXCEPT ![<<n, k>>].deleted = TRUE]
           /\ DirContent' = [DirContent EXCEPT ![<<n, k>>] = NoRecord]
           /\ DirOwner' = DirOwner
<1>1. k \in Keys /\ k # Missing
  BY RepoAssumption, MetadataAssumption
<1>2. PICK err \in RepoErrors :
        ObjectDelete(n, k, err) /\ Respond("DeleteObject", n, k, err)
  BY <1>1 DEF DeleteObject
<1>3. err = "ok"
  BY <1>2 DEF ObjectDelete
<1>4. QED
  BY <1>1, <1>2, <1>3, UnlinkMapped DEF Respond, Success, ObjectDelete

-----------------------------------------------------------------------------
(* Clients that take turns: what their requests count on.                  *)

\* The slot a step moves is the only one.
LEMMA OneSlot ==
    ASSUME TakingTurns, SlotsOK, NEW g \in Slots, NEW r,
           slot' = [slot EXCEPT ![g] = r]
    PROVE  \A f \in Slots : f = g /\ slot'[f] = r
BY DEF TakingTurns, SlotsOK

LEMMA NobodyLeft ==
    ASSUME TakingTurns, SlotsOK, NEW g \in Slots,
           slot' = [slot EXCEPT ![g] = Free]
    PROVE  NoneDisturbed'
BY OneSlot DEF NoneDisturbed

LEMMA NextIsUndisturbed ==
    ASSUME TakingTurns, SlotsOK, NEW g \in Slots, NEW r \in Request,
           slot' = [slot EXCEPT ![g] = r], Undisturbed(r)'
    PROVE  NoneDisturbed'
<1>1. \A f \in Slots : f = g /\ slot'[f] = r
  BY OneSlot
<1>2. QED
  BY <1>1 DEF NoneDisturbed, Undisturbed, Looked

\* What the requests count on stays while live buckets stay, objects do not
\* change and no bytes go.
LEMMA UndisturbedStays ==
    ASSUME NEW r \in Request, Undisturbed(r), blobs \subseteq blobs',
           objects' = objects, \A n \in Names : LiveBucket(n) => LiveBucket(n)'
    PROVE  Undisturbed(r)'
<1>1. r.name \in Names
  BY DEF Request
<1>2. LiveBucket(r.name)'
  BY <1>1 DEF Undisturbed
<1>3. Looked(r) => Looked(r)'
  BY DEF Looked, RefersTo, LiveObject
<1>4. QED
  BY <1>2, <1>3 DEF Undisturbed

LEMMA ContentsStay ==
    ASSUME ContentsKept, blobs \subseteq blobs', objects' = objects,
           \A n \in Names, k \in Keys : BeingDeleted(n, k) => BeingDeleted(n, k)'
    PROVE  ContentsKept'
BY DEF ContentsKept, LiveObject, Backed

LEMMA NotDeleting ==
    ASSUME TakingTurns, NEW g \in Slots,
           slot[g] = Free \/ slot[g].pc # "meta" \/ slot[g].op # "DeleteObject"
    PROVE  \A n \in Names, k \in Keys : ~BeingDeleted(n, k)
BY DEF TakingTurns, BeingDeleted, At

\* Two live objects of a bucket have different contents, and no put of a key
\* that cannot be stored has the content of one.
LEMMA OneKey ==
    ASSUME TakingTurns, StorableOnly, ContentsKept, TypeOK,
           NEW n \in Names, NEW k \in Keys, LiveObject(n, k),
           NEW j \in Keys \union {Missing},
           <<j, objects[<<n, k>>].ref>> \in Uploads
    PROVE  j = k
<1>1. k \in StorableKeys /\ objects[<<n, k>>].ref \in Refs
  BY DEF StorableOnly, LiveObject, TypeOK, RepoTypeOK, Object
<1>2. <<k, objects[<<n, k>>].ref>> \in Uploads
  BY DEF ContentsKept
<1>3. QED
  BY <1>1, <1>2 DEF TakingTurns

\* A create never ends a bucket.
LEMMA CreateKeeps ==
    ASSUME TypeOK, NEW n \in Names, NEW o \in Owners, CreateBucket(n, o)
    PROVE  /\ objects' = objects
           /\ \A m \in Names : LiveBucket(m) => LiveBucket(m)'
<1>1. CASE UNCHANGED repo
  BY <1>1 DEF repo, LiveBucket
<1>2. CASE BucketCreate(n, o, "ok")
  BY <1>2 DEF BucketCreate, LiveBucket, TypeOK, RepoTypeOK
<1>3. QED
  BY <1>1, <1>2 DEF CreateBucket, Reject, BucketCreate, RepoErrors

LEMMA ArriveTurns ==
    ASSUME TakingTurns, SlotsOK, StorableOnly, TypeOK, TurnsInv, Arrive
    PROVE  NoneDisturbed' /\ ContentsKept'
<1>1. ASSUME UNCHANGED <<slot, blobs, objects>>,
             \A m \in Names : LiveBucket(m) => LiveBucket(m)'
      PROVE  NoneDisturbed' /\ ContentsKept'
  <2>1. ContentsKept'
    <3>1. \A n \in Names, k \in Keys : BeingDeleted(n, k) => BeingDeleted(n, k)'
      BY <1>1 DEF BeingDeleted, At
    <3>2. QED
      BY <1>1, <3>1, ContentsStay DEF TurnsInv
  <2>2. ASSUME NEW g \in Slots, slot'[g] # Free
        PROVE  Undisturbed(slot[g])'
    <3>1. PICK r \in Request : r = slot[g]
      BY <1>1, <2>2 DEF SlotsOK
    <3>2. Undisturbed(r)
      BY <1>1, <2>2, <3>1 DEF TurnsInv, NoneDisturbed
    <3>3. Undisturbed(r)' /\ slot'[g] = r
      BY <1>1, <3>1, <3>2, UndisturbedStays
    <3>4. QED
      BY <3>3 DEF Undisturbed, Looked
  <2>3. QED
    BY <2>1, <2>2 DEF NoneDisturbed
<1>2. ASSUME NEW o \in Principals, GwListBuckets(o)
      PROVE  NoneDisturbed' /\ ContentsKept'
  BY <1>1, <1>2 DEF GwListBuckets, vars, repo, LiveBucket
<1>3. ASSUME NEW o \in Principals, NEW n \in Names, GwCreateBucket(n, o)
      PROVE  NoneDisturbed' /\ ContentsKept'
  BY <1>1, <1>3, CreateKeeps, GatewayAssumption DEF GwCreateBucket
<1>4. ASSUME NEW g \in Slots, NEW who \in Principals, NEW op \in BucketOps,
             NEW n \in Names, NEW k \in Keys \union {Missing},
             NEW ref \in Refs \union {Missing},
             op = "PutObject" => ref \in Refs /\ <<k, ref>> \in Uploads,
             op = "PutObject" \/ ref = Missing,
             op \in {"DeleteBucket", "ListObjects"} => k = Missing,
             Authorize(g, who, op, n, k, ref)
      PROVE  NoneDisturbed' /\ ContentsKept'
  <2>1. UNCHANGED <<blobs, objects, records>>
    BY <1>4 DEF Authorize, vars, repo
  <2>2. CASE slot' = slot
    BY <1>1, <2>1, <2>2 DEF LiveBucket
  <2>3. CASE slot' # slot
    <3>1. PICK r \in Request :
             /\ slot[g] = Free /\ slot' = [slot EXCEPT ![g] = r]
             /\ RecordOK(r) /\ r.pc \in {"write", "meta", "lookup", "list"}
             /\ r.pc = "meta" => r.op = "DeleteBucket"
             /\ r.pc = "list" => r.op = "ListObjects"
             /\ r.op = op /\ r.key = k /\ r.ref = ref
             /\ LiveBucket(r.name)
      BY <1>4, <2>3, BeginMove
    <3>2. LiveBucket(r.name)'
      BY <2>1, <3>1 DEF LiveBucket
    <3>3. Undisturbed(r)'
      BY <1>4, <3>1, <3>2 DEF Undisturbed
    <3>4. \A m \in Names, j \in Keys : ~BeingDeleted(m, j)
      BY <3>1, NotDeleting
    <3>5. QED
      BY <2>1, <3>1, <3>3, <3>4, NextIsUndisturbed, ContentsStay DEF TurnsInv
  <2>4. QED
    BY <2>2, <2>3
<1>5. QED
  <2>1. Missing \notin Refs
    BY MetadataAssumption
  <2>2. QED
    BY <1>2, <1>3, <1>4, <2>1 DEF Arrive, BucketOps

\* A step that ends a request and takes no bytes and no object away.
LEMMA EndTurns ==
    ASSUME TakingTurns, SlotsOK, TurnsInv, NEW g \in Slots,
           slot[g].pc # "meta" \/ slot[g].op # "DeleteObject",
           slot' = [slot EXCEPT ![g] = Free], blobs' = blobs, objects' = objects
    PROVE  NoneDisturbed' /\ ContentsKept'
<1>1. \A n \in Names, k \in Keys : ~BeingDeleted(n, k)
  BY NotDeleting
<1>2. QED
  BY <1>1, NobodyLeft, ContentsStay DEF TurnsInv

LEMMA WriteTurns ==
    ASSUME TakingTurns, SlotsOK, TurnsInv, NEW g \in Slots, Write(g)
    PROVE  NoneDisturbed' /\ ContentsKept'
<1>1. /\ slot[g] # Free /\ slot[g].pc = "write" /\ slot[g].op = "PutObject"
      /\ UNCHANGED <<records, objects>>
  BY DEF Write, At, SlotsOK, RecordOK, vars
<1>2. CASE Finish(g, 502, Missing) /\ UNCHANGED blobs
  BY <1>1, <1>2, EndTurns DEF Finish
<1>3. CASE blobs' = blobs \union {Blob(g)} /\ Goto(g, "meta")
  <2>1. PICK r \in Request :
          /\ slot' = [slot EXCEPT ![g] = r]
          /\ SameRequest(r, slot[g]) /\ r.pc = "meta" /\ r.ref = slot[g].ref
    BY <1>1, <1>3, GotoMove DEF At
  <2>2. Undisturbed(slot[g])
    BY <1>1 DEF TurnsInv, NoneDisturbed
  <2>3. LiveBucket(r.name)' /\ <<r.key, r.ref>> \in Uploads
        /\ <<r.name, r.ref>> \in blobs'
    BY <1>1, <1>3, <2>1, <2>2 DEF Undisturbed, SameRequest, LiveBucket, Blob
  <2>4. Undisturbed(r)'
    BY <1>1, <2>1, <2>3 DEF Undisturbed, SameRequest
  <2>5. \A n \in Names, k \in Keys : ~BeingDeleted(n, k)
    BY <1>1, NotDeleting
  <2>6. QED
    BY <1>1, <1>3, <2>1, <2>4, <2>5, NextIsUndisturbed, ContentsStay DEF TurnsInv
<1>4. QED
  BY <1>2, <1>3 DEF Write

LEMMA PutMetaTurns ==
    ASSUME TakingTurns, SlotsOK, TypeOK, TurnsInv, NEW g \in Slots,
           NEW h \in Handlers, PutMeta(g, h)
    PROVE  NoneDisturbed' /\ ContentsKept'
<1>1. /\ slot[g] # Free /\ slot[g].pc = "meta" /\ slot[g].op = "PutObject"
      /\ PutObjectCheck(h, slot[g].name, slot[g].key, slot[g].ref)
      /\ UNCHANGED <<records, objects, blobs>>
  BY DEF PutMeta, At, PutObjectCheck, Reject, repo
<1>2. PICK q \in Request : q = slot[g]
  BY <1>1 DEF SlotsOK
<1>3. /\ q.name \in Names /\ q.key \in Keys \union {Missing} /\ q.ref \in Refs
      /\ RecordOK(q) /\ Undisturbed(q)
  BY <1>1, <1>2 DEF SlotsOK, RecordOK, Request, TurnsInv, NoneDisturbed
<1>4. \A n \in Names, k \in Keys : ~BeingDeleted(n, k)
  BY <1>1, NotDeleting
<1>5. ContentsKept'
  BY <1>1, <1>4, ContentsStay DEF TurnsInv
<1>6. /\ LiveBucket(q.name)' /\ LiveBucket(q.name)
      /\ <<q.key, q.ref>> \in Uploads /\ <<q.name, q.ref>> \in blobs'
  BY <1>1, <1>2, <1>3 DEF Undisturbed, LiveBucket
<1>7. CASE slot' = [slot EXCEPT ![g] = [@ EXCEPT !.pc = "saving", !.via = h]]
  <2> DEFINE r == [slot[g] EXCEPT !.pc = "saving", !.via = h]
  <2>1. slot' = [slot EXCEPT ![g] = r]
    BY <1>7
  <2>2. /\ SameRequest(r, slot[g]) /\ r.pc = "saving" /\ r.ref = slot[g].ref
        /\ r \in Request
    <3>1. slot[g] \in Request
      BY <1>2
    <3>2. QED
      BY <3>1, SaveUpdate
  <2> HIDE DEF r
  <2>3. PICK s \in Request : s = r
    BY <2>2
  <2>4. Undisturbed(s)'
    BY <1>1, <1>2, <1>6, <2>2, <2>3 DEF Undisturbed, SameRequest
  <2>5. QED
    BY <1>5, <2>1, <2>3, <2>4, NextIsUndisturbed
<1>8. CASE pending'[h] = NoPut /\ GotoUndo(g, Upstream(reply'.status))
  <2>1. q.key = Missing /\ Upstream(reply'.status) = 400
    BY <1>1, <1>2, <1>3, <1>6, <1>8, CheckAnswered DEF Upstream
  <2>2. PICK r \in Request :
          /\ slot' = [slot EXCEPT ![g] = r]
          /\ SameRequest(r, slot[g]) /\ r.pc = "undo"
          /\ r.ref = slot[g].ref /\ r.status = 400
    BY <1>1, <1>8, <2>1, UndoMove
  <2>3. r.key \notin StorableKeys
    BY <1>2, <2>1, <2>2, RepoAssumption, MetadataAssumption DEF SameRequest
  <2>4. Undisturbed(r)'
    BY <1>1, <1>2, <1>6, <2>2, <2>3 DEF Undisturbed, SameRequest
  <2>5. QED
    BY <1>5, <2>2, <2>4, NextIsUndisturbed
<1>9. QED
  BY <1>7, <1>8 DEF PutMeta

\* The put that is being saved.
LEMMA SavingPut ==
    ASSUME SlotsOK, TypeOK, NEW g \in Slots, PutSaved(g)
    PROVE  /\ slot[g] # Free /\ slot[g].pc = "saving" /\ slot[g].op = "PutObject"
           /\ slot[g].name \in Names /\ slot[g].key \in Keys /\ slot[g].ref \in Refs
           /\ slot[g].via \in Handlers /\ PutObjectWrite(slot[g].via)
           /\ pending[slot[g].via] =
                [name |-> slot[g].name, key |-> slot[g].key, ref |-> slot[g].ref]
<1>1. /\ slot[g] # Free /\ slot[g].pc = "saving" /\ slot[g].op = "PutObject"
      /\ PutObjectWrite(slot[g].via) /\ At(g, "saving")
  BY DEF PutSaved, At, SlotsOK, RecordOK
<1>2. slot[g].via \in Handlers
  BY <1>1 DEF SlotsOK, RecordOK, Request
<1>3. pending[slot[g].via] =
        [name |-> slot[g].name, key |-> slot[g].key, ref |-> slot[g].ref]
  BY <1>1 DEF SlotsOK, PendingMatched
<1>4. pending[slot[g].via] \in [name : Names, key : Keys, ref : Refs]
  BY <1>1, <1>2 DEF PutObjectWrite, TypeOK
<1>5. QED
  BY <1>1, <1>2, <1>3, <1>4

\* What its write did.
LEMMA SavingAnswered ==
    ASSUME SlotsOK, TypeOK, NEW g \in Slots, PutSaved(g),
           NEW n \in Names, NEW k \in Keys, NEW ref \in Refs,
           slot[g].name = n, slot[g].key = k, slot[g].ref = ref
    PROVE  /\ UNCHANGED <<records, blobs>>
           /\ \/ /\ Finish(g, 201, Missing)
                 /\ objects' = [objects EXCEPT ![<<n, k>>] =
                                  [ref |-> ref, deleted |-> FALSE]]
                 /\ DirContent' = [DirContent EXCEPT ![<<n, k>>] = ref]
                 /\ DirOwner' = DirOwner
              \/ /\ GotoUndo(g, 502)
                 /\ k \notin StorableKeys
                 /\ objects' = objects
                 /\ UNCHANGED <<DirOwner, DirContent>>
<1>1. PICK h \in Handlers : h = slot[g].via
  BY SavingPut
<1>2. pending[h] = [name |-> n, key |-> k, ref |-> ref] /\ PutObjectWrite(h)
  BY <1>1, SavingPut
<1>3. /\ UNCHANGED records
      /\ \/ /\ reply'.status = 201
            /\ objects' = [objects EXCEPT ![<<n, k>>] =
                             [ref |-> ref, deleted |-> FALSE]]
            /\ DirContent' = [DirContent EXCEPT ![<<n, k>>] = ref]
            /\ DirOwner' = DirOwner
         \/ /\ reply'.status = 500
            /\ k \notin StorableKeys
            /\ objects' = objects
            /\ UNCHANGED <<DirOwner, DirContent>>
  BY <1>2, WriteAnswered
<1>4. reply'.status = 201 => Finish(g, 201, Missing)
  BY DEF PutSaved
<1>5. reply'.status = 500 => GotoUndo(g, 502)
  <2>1. Upstream(500) = 502
    BY DEF Upstream
  <2>2. QED
    BY <2>1 DEF PutSaved
<1>6. blobs' = blobs
  BY DEF PutSaved
<1>7. QED
  BY <1>3, <1>4, <1>5, <1>6

LEMMA PutSavedTurns ==
    ASSUME TakingTurns, SlotsOK, TypeOK, TurnsInv, NEW g \in Slots, PutSaved(g)
    PROVE  NoneDisturbed' /\ ContentsKept'
<1>1. PICK n \in Names, k \in Keys, ref \in Refs :
        /\ slot[g].name = n /\ slot[g].key = k /\ slot[g].ref = ref
        /\ slot[g] # Free /\ slot[g].op = "PutObject" /\ slot[g].pc = "saving"
  BY SavingPut
<1>2. /\ UNCHANGED <<records, blobs>>
      /\ \/ /\ Finish(g, 201, Missing)
            /\ objects' = [objects EXCEPT ![<<n, k>>] =
                             [ref |-> ref, deleted |-> FALSE]]
         \/ /\ GotoUndo(g, 502)
            /\ k \notin StorableKeys
            /\ objects' = objects
  BY <1>1, SavingAnswered
<1>3. \A m \in Names, j \in Keys : ~BeingDeleted(m, j)
  BY <1>1, NotDeleting
<1>4. <<k, ref>> \in Uploads /\ <<n, ref>> \in blobs /\ LiveBucket(n)
  <2>1. Undisturbed(slot[g])
    BY <1>1 DEF TurnsInv, NoneDisturbed
  <2>2. QED
    BY <1>1, <2>1 DEF Undisturbed
<1>5. CASE /\ Finish(g, 201, Missing)
           /\ objects' = [objects EXCEPT ![<<n, k>>] =
                            [ref |-> ref, deleted |-> FALSE]]
  <2>1. NoneDisturbed'
    BY <1>5, NobodyLeft DEF Finish
  <2>2. ASSUME NEW m \in Names, NEW j \in Keys, LiveObject(m, j)'
        PROVE  <<j, objects'[<<m, j>>].ref>> \in Uploads
               /\ <<m, objects'[<<m, j>>].ref>> \in blobs'
    <3>1. CASE m = n /\ j = k
      BY <1>2, <1>4, <1>5, <3>1 DEF TypeOK, RepoTypeOK
    <3>2. CASE ~(m = n /\ j = k)
      <4>1. objects'[<<m, j>>] = objects[<<m, j>>]
        BY <1>5, <3>2 DEF TypeOK, RepoTypeOK
      <4>2. LiveObject(m, j)
        BY <2>2, <4>1 DEF LiveObject
      <4>3. QED
        BY <1>2, <1>3, <4>1, <4>2 DEF TurnsInv, ContentsKept, Backed
    <3>3. QED
      BY <3>1, <3>2
  <2>3. QED
    BY <2>1, <2>2 DEF ContentsKept, Backed
<1>6. CASE GotoUndo(g, 502) /\ k \notin StorableKeys /\ objects' = objects
  <2>1. PICK r \in Request :
          /\ slot' = [slot EXCEPT ![g] = r]
          /\ SameRequest(r, slot[g]) /\ r.pc = "undo"
          /\ r.ref = slot[g].ref /\ r.status = 502
    BY <1>1, <1>6, UndoMove
  <2>2. /\ r.name = n /\ r.key = k /\ r.ref = ref /\ r.op = "PutObject"
        /\ LiveBucket(r.name)'
    BY <1>1, <1>2, <1>4, <2>1 DEF SameRequest, LiveBucket
  <2>3. Undisturbed(r)'
    BY <1>4, <1>6, <2>1, <2>2 DEF Undisturbed
  <2>4. NoneDisturbed'
    BY <2>1, <2>3, NextIsUndisturbed
  <2>5. ContentsKept'
    BY <1>2, <1>3, <1>6, ContentsStay DEF TurnsInv
  <2>6. QED
    BY <2>4, <2>5
<1>7. QED
  BY <1>2, <1>5, <1>6

LEMMA UndoTurns ==
    ASSUME TakingTurns, SlotsOK, StorableOnly, TypeOK, TurnsInv,
           NEW g \in Slots, Undo(g)
    PROVE  NoneDisturbed' /\ ContentsKept'
<1>1. /\ slot[g] # Free /\ slot[g].pc = "undo" /\ slot[g].op = "PutObject"
      /\ slot' = [slot EXCEPT ![g] = Free] /\ UNCHANGED objects
      /\ \A x \in blobs \ {Blob(g)} : x \in blobs'
  BY DEF Undo, At, Finish, SlotsOK, RecordOK, vars
<1>2. NoneDisturbed'
  BY <1>1, NobodyLeft
<1>3. <<slot[g].key, slot[g].ref>> \in Uploads /\ slot[g].key \notin StorableKeys
      /\ slot[g].key \in Keys \union {Missing}
  <2>1. Undisturbed(slot[g]) /\ slot[g] \in Request
    BY <1>1 DEF TurnsInv, NoneDisturbed, SlotsOK
  <2>2. QED
    BY <1>1, <2>1 DEF Undisturbed, Request
<1>4. \A n \in Names, k \in Keys : ~BeingDeleted(n, k)
  BY <1>1, NotDeleting
<1>5. ASSUME NEW n \in Names, NEW k \in Keys, LiveObject(n, k)
      PROVE  <<n, objects[<<n, k>>].ref>> \in blobs'
  <2>1. <<n, objects[<<n, k>>].ref>> \in blobs
    BY <1>4, <1>5 DEF TurnsInv, ContentsKept, Backed
  <2>2. objects[<<n, k>>].ref # slot[g].ref
    <3>1. SUFFICES ASSUME objects[<<n, k>>].ref = slot[g].ref
                   PROVE  FALSE
      OBVIOUS
    <3>2. PICK j \in Keys \union {Missing} : j = slot[g].key
      BY <1>3
    <3>3. j = k
      BY <1>3, <1>5, <3>1, <3>2, OneKey DEF TurnsInv
    <3>4. QED
      BY <1>3, <1>5, <3>2, <3>3 DEF StorableOnly
  <2>3. QED
    BY <1>1, <2>1, <2>2 DEF Blob
<1>6. ContentsKept'
  BY <1>1, <1>5 DEF TurnsInv, ContentsKept, LiveObject, Backed
<1>7. QED
  BY <1>2, <1>6

\* What a get, a head or a delete finds is the object of its key.
LEMMA FoundHere ==
    ASSUME TakingTurns, NEW g \in Slots, Found(g)
    PROVE  /\ slot[g].key \in StorableKeys
           /\ LiveObject(slot[g].name, slot[g].key)
           /\ FoundRef(g) = objects[<<slot[g].name, slot[g].key>>].ref
BY DEF Found, Addressable, FoundRef, TakingTurns

LEMMA ReadTurns ==
    ASSUME TakingTurns, SlotsOK, StorableOnly, TypeOK, TurnsInv,
           NEW g \in Slots, List(g) \/ Lookup(g) \/ Read(g)
    PROVE  NoneDisturbed' /\ ContentsKept'
<1>1. /\ slot[g] # Free /\ slot[g].pc \in {"list", "lookup", "read"}
      /\ UNCHANGED <<records, objects, blobs>>
  BY DEF List, Lookup, Read, At, vars
<1>2. CASE slot' = [slot EXCEPT ![g] = Free]
  BY <1>1, <1>2, EndTurns
<1>3. CASE /\ At(g, "lookup") /\ Found(g) /\ slot[g].op # "HeadObject"
           /\ slot' = [slot EXCEPT ![g] =
                [@ EXCEPT !.ref = FoundRef(g),
                          !.pc = IF slot[g].op = "GetObject" THEN "read"
                                                             ELSE "unlink"]]
  <2>1. slot[g].op \in {"GetObject", "DeleteObject"}
    BY <1>1, <1>3 DEF At, SlotsOK, RecordOK
  <2>2. PICK r \in Request :
          /\ slot' = [slot EXCEPT ![g] = r]
          /\ SameRequest(r, slot[g])
          /\ r.pc = IF slot[g].op = "GetObject" THEN "read" ELSE "unlink"
          /\ r.key \in Keys
          /\ r.ref \in Refs /\ RefersTo(UrlKey[r.key], <<r.name, r.ref>>)
    BY <1>3, <2>1, FoundMove
  <2>3. r.key \in StorableKeys /\ UrlKey[r.key] = r.key
    BY <1>3, <2>2, FoundHere DEF SameRequest, TakingTurns
  <2>4. Looked(r) /\ LiveBucket(r.name)
    BY <1>1, <2>2, <2>3
       DEF Looked, TurnsInv, NoneDisturbed, Undisturbed, SameRequest
  <2>5. Looked(r)' /\ LiveBucket(r.name)'
    BY <1>1, <2>4 DEF Looked, RefersTo, LiveObject, LiveBucket
  <2>6. Undisturbed(r)'
    BY <2>1, <2>2, <2>5 DEF Undisturbed, SameRequest
  <2>7. NoneDisturbed'
    BY <2>2, <2>6, NextIsUndisturbed
  <2>8. \A n \in Names, k \in Keys : ~BeingDeleted(n, k)
    BY <1>1, NotDeleting
  <2>9. ContentsKept'
    BY <1>1, <2>8, ContentsStay DEF TurnsInv
  <2>10. QED
    BY <2>7, <2>9
<1>4. QED
  BY <1>2, <1>3 DEF List, Lookup, Read, Finish

LEMMA UnlinkTurns ==
    ASSUME TakingTurns, SlotsOK, StorableOnly, TypeOK, TurnsInv,
           NEW g \in Slots, Unlink(g)
    PROVE  NoneDisturbed' /\ ContentsKept'
<1>1. /\ slot[g] # Free /\ slot[g].pc = "unlink" /\ slot[g].op = "DeleteObject"
      /\ UNCHANGED <<records, objects>>
  BY DEF Unlink, At, SlotsOK, RecordOK, vars
<1>2. CASE Finish(g, 502, Missing) /\ UNCHANGED blobs
  BY <1>1, <1>2, EndTurns DEF Finish
<1>3. CASE blobs' = blobs \ {Blob(g)} /\ Goto(g, "meta")
  <2>1. PICK r \in Request :
          /\ slot' = [slot EXCEPT ![g] = r]
          /\ SameRequest(r, slot[g]) /\ r.pc = "meta" /\ r.ref = slot[g].ref
    BY <1>1, <1>3, GotoMove DEF At
  <2>2. Looked(r) /\ LiveBucket(r.name)
    BY <1>1, <2>1
       DEF TurnsInv, NoneDisturbed, Undisturbed, SameRequest, Looked
  <2>3. Looked(r)' /\ LiveBucket(r.name)'
    BY <1>1, <2>2 DEF Looked, RefersTo, LiveObject, LiveBucket
  <2>4. Undisturbed(r)'
    BY <1>1, <2>1, <2>3 DEF Undisturbed, SameRequest
  <2>5. NoneDisturbed'
    BY <2>1, <2>4, NextIsUndisturbed
  <2>6. r.name \in Names /\ r.key \in Keys /\ r.op = "DeleteObject" /\ r # Free
    BY <1>1, <2>1, <2>2, RepoAssumption, FreeAssumption
       DEF Request, Looked, SameRequest
  <2>7. BeingDeleted(r.name, r.key)'
    <3>1. slot'[g] = r
      BY <2>1 DEF SlotsOK
    <3>2. QED
      BY <2>1, <2>6, <3>1 DEF BeingDeleted, At
  <2>8. ASSUME NEW n \in Names, NEW k \in Keys, LiveObject(n, k)
        PROVE  <<n, objects[<<n, k>>].ref>> \in blobs' \/ (n = r.name /\ k = r.key)
    <3>1. <<n, objects[<<n, k>>].ref>> \in blobs
      BY <1>1, <2>8, NotDeleting DEF TurnsInv, ContentsKept, Backed
    <3>2. CASE n = r.name /\ objects[<<n, k>>].ref = r.ref
      <4>1. objects[<<r.name, r.key>>].ref = r.ref /\ LiveObject(r.name, r.key)
        BY <2>2 DEF Looked, RefersTo
      <4>2. <<r.key, r.ref>> \in Uploads
        BY <2>6, <4>1 DEF TurnsInv, ContentsKept
      <4>3. PICK j \in Keys \union {Missing} : j = r.key
        BY <2>6
      <4>4. <<j, objects[<<n, k>>].ref>> \in Uploads
        BY <3>2, <4>2, <4>3
      <4>5. j = k
        BY <2>8, <4>4, OneKey DEF TurnsInv
      <4>6. QED
        BY <3>2, <4>3, <4>5
    <3>3. CASE ~(n = r.name /\ objects[<<n, k>>].ref = r.ref)
      <4>1. Blob(g) = <<r.name, r.ref>>
        BY <2>1 DEF Blob, SameRequest
      <4>2. blobs' = blobs \ {<<r.name, r.ref>>}
        BY <1>3, <4>1
      <4>3. <<n, objects[<<n, k>>].ref>> # <<r.name, r.ref>>
        BY <3>3
      <4>4. QED
        BY <3>1, <4>2, <4>3
    <3>4. QED
      BY <3>2, <3>3
  <2>9. ContentsKept'
    <3> SUFFICES ASSUME NEW n \in Names, NEW k \in Keys, LiveObject(n, k)'
                 PROVE  /\ <<k, objects'[<<n, k>>].ref>> \in Uploads
                        /\ <<n, objects'[<<n, k>>].ref>> \in blobs'
                           \/ BeingDeleted(n, k)'
      BY DEF ContentsKept, Backed
    <3>1. LiveObject(n, k)
      BY <1>1 DEF LiveObject
    <3>2. <<k, objects'[<<n, k>>].ref>> \in Uploads
      BY <1>1, <3>1 DEF TurnsInv, ContentsKept
    <3>3. QED
      BY <1>1, <2>7, <2>8, <3>1, <3>2
  <2>10. QED
    BY <2>5, <2>9
<1>4. QED
  BY <1>2, <1>3 DEF Unlink

\* A delete is answered only when its object has gone.
LEMMA GoneAnswered ==
    ASSUME TakingTurns, SlotsOK, TypeOK, TurnsInv, NEW g \in Slots,
           GwDeleteObject(g),
           NEW n \in Names, NEW k \in StorableKeys, k \in Keys,
           slot[g].name = n, slot[g].key = k
    PROVE  /\ LiveObject(n, k)
           /\ Finish(g, 204, Missing)
           /\ UNCHANGED <<records, blobs>>
           /\ objects' = [objects EXCEPT ![<<n, k>>].deleted = TRUE]
           /\ DirContent' = [DirContent EXCEPT ![<<n, k>>] = NoRecord]
           /\ DirOwner' = DirOwner
<1>1. /\ slot[g] # Free /\ slot[g].op = "DeleteObject" /\ slot[g].pc = "meta"
      /\ UrlKey[k] = k
  BY DEF GwDeleteObject, At, TakingTurns
<1>2. LiveObject(n, k)
  BY <1>1 DEF TurnsInv, NoneDisturbed, Undisturbed, Looked, RefersTo
<1>3. DeleteObject(n, k)
  BY <1>1 DEF GwDeleteObject
<1>4. /\ reply'.status = 204
      /\ UNCHANGED records
      /\ objects' = [objects EXCEPT ![<<n, k>>].deleted = TRUE]
      /\ DirContent' = [DirContent EXCEPT ![<<n, k>>] = NoRecord]
      /\ DirOwner' = DirOwner
  BY <1>2, <1>3, UnlinkAnswered
<1>5. Finish(g, 204, Missing) /\ blobs' = blobs
  BY <1>4 DEF GwDeleteObject
<1>6. QED
  BY <1>2, <1>4, <1>5

\* Its key, and its bucket.
LEMMA GoneKey ==
    ASSUME SlotsOK, NEW g \in Slots, GwDeleteObject(g)
    PROVE  /\ slot[g].name \in Names
           /\ slot[g].key \in StorableKeys /\ slot[g].key \in Keys
           /\ slot[g] # Free /\ slot[g].op = "DeleteObject"
BY RepoAssumption DEF GwDeleteObject, At, SlotsOK, RecordOK, Request

LEMMA GoneTurns ==
    ASSUME TakingTurns, SlotsOK, TypeOK, TurnsInv, NEW g \in Slots,
           GwDeleteObject(g)
    PROVE  NoneDisturbed' /\ ContentsKept'
<1>1. PICK n \in Names, k \in StorableKeys :
        k \in Keys /\ slot[g].name = n /\ slot[g].key = k
  BY GoneKey
<1>2. /\ LiveObject(n, k)
      /\ Finish(g, 204, Missing)
      /\ UNCHANGED <<records, blobs>>
      /\ objects' = [objects EXCEPT ![<<n, k>>].deleted = TRUE]
  BY <1>1, GoneAnswered
<1>3. NoneDisturbed'
  BY <1>2, NobodyLeft DEF Finish
<1>4. ASSUME NEW m \in Names, NEW j \in Keys, LiveObject(m, j)'
      PROVE  <<j, objects'[<<m, j>>].ref>> \in Uploads
             /\ <<m, objects'[<<m, j>>].ref>> \in blobs'
  <2>1. CASE m = n /\ j = k
    <3>1. objects'[<<n, k>>] = [objects[<<n, k>>] EXCEPT !.deleted = TRUE]
      BY <1>1, <1>2 DEF TypeOK, RepoTypeOK
    <3>2. objects[<<n, k>>] \in Object
      BY <1>1, <1>2 DEF TypeOK, RepoTypeOK, LiveObject
    <3>3. objects'[<<n, k>>].deleted = TRUE
      BY <3>1, <3>2 DEF Object
    <3>4. QED
      BY <1>4, <2>1, <3>3 DEF LiveObject
  <2>2. CASE ~(m = n /\ j = k)
    <3>1. objects'[<<m, j>>] = objects[<<m, j>>]
      BY <1>2, <2>2 DEF TypeOK, RepoTypeOK
    <3>2. LiveObject(m, j)
      BY <1>4, <3>1 DEF LiveObject
    <3>3. ~BeingDeleted(m, j)
      BY <1>1, <2>2 DEF BeingDeleted, TakingTurns
    <3>4. QED
      BY <1>2, <3>1, <3>2, <3>3 DEF TurnsInv, ContentsKept, Backed
  <2>3. QED
    BY <2>1, <2>2
<1>5. QED
  BY <1>3, <1>4 DEF ContentsKept, Backed

LEMMA BucketTurns ==
    ASSUME TakingTurns, SlotsOK, TypeOK, TurnsInv, NEW g \in Slots,
           GwDeleteBucket(g)
    PROVE  NoneDisturbed' /\ ContentsKept'
<1>1. /\ slot[g] # Free /\ slot[g].op = "DeleteBucket"
      /\ DeleteBucket(slot[g].name) /\ UNCHANGED blobs
      /\ slot' = [slot EXCEPT ![g] = Free]
  BY DEF GwDeleteBucket, At, Finish
<1>2. objects' = objects
  BY <1>1, BucketEffect DEF SlotsOK, Request
<1>3. QED
  BY <1>1, <1>2, EndTurns

\* Without faults, nothing fails and no put outlives its request.
LEMMA OnlyTurns ==
    ASSUME TakingTurns, GatewayInv, TurnsInv, GatewayNext
    PROVE  /\ Arrive \/ \E g \in Slots : Proceed(g)
           /\ UNCHANGED <<faults, torn>>
<1>1. \A hit : ~Fault(hit)
  BY DEF Fault, TakingTurns, TurnsInv
<1>2. ~Fail
  BY <1>1 DEF Fail, FirstLost, CallLost, ResponseLost, GwRestart, MetaRestart
<1>3. ASSUME NEW h \in Handlers, LateWrite(h)
      PROVE  FALSE
  BY <1>3 DEF LateWrite, PutObjectWrite, GatewayInv, PendingMatched, TurnsInv
<1>4. QED
  BY <1>2, <1>3 DEF GatewayNext, NoFault

LEMMA TurnsStep ==
    ASSUME TakingTurns, GatewayInv, TurnsInv, [GatewayNext]_allVars
    PROVE  TurnsInv'
<1>1. SlotsOK /\ StorableOnly /\ TypeOK
  BY SlotsFromInv DEF GatewayInv, GatewayTypeOK
<1>2. CASE GatewayNext
  <2>1. ASSUME NEW g \in Slots, Proceed(g)
        PROVE  NoneDisturbed' /\ ContentsKept'
    BY <1>1, <2>1, WriteTurns, PutMetaTurns, PutSavedTurns, UndoTurns, ReadTurns,
       UnlinkTurns, GoneTurns, BucketTurns DEF Proceed
  <2>2. QED
    BY <1>1, <1>2, <2>1, OnlyTurns, ArriveTurns DEF TurnsInv
<1>3. CASE UNCHANGED allVars
  <2>1. UNCHANGED <<records, objects, blobs, slot, faults, torn>>
    BY <1>3 DEF allVars, vars, gateway, history
  <2>2. NoneDisturbed'
    BY <2>1 DEF TurnsInv, NoneDisturbed, Undisturbed, Looked, RefersTo, LiveObject,
                LiveBucket
  <2>3. ContentsKept'
    BY <2>1 DEF TurnsInv, ContentsKept, Backed, BeingDeleted, At, LiveObject
  <2>4. QED
    BY <2>1, <2>2, <2>3 DEF TurnsInv
<1>4. QED
  BY <1>2, <1>3

LEMMA TurnsInit == TakingTurns /\ GatewayInit => TurnsInv
BY DEF GatewayInit, Init, RepoInit, TurnsInv, NoneDisturbed, ContentsKept, LiveObject

-----------------------------------------------------------------------------
(* The object store they see: one lemma per handler.                       *)

\* Steps a client does not see.
LEMMA Unseen ==
    ASSUME UNCHANGED <<DirOwner, DirContent, answer>>
    PROVE  [Store!Next]_(Store!vars)
BY DEF Store!vars

\* A request that is refused for a reason.
LEMMA StoreRefuses ==
    ASSUME UNCHANGED <<DirOwner, DirContent>>,
           NEW n \in Names, NEW k \in Keys \union {Missing},
           NEW op, op \in Store!ObjectOps \/ (op \in Store!BucketOps /\ k = Missing),
           NEW status \in {400, 403, 404, 409, 502},
           Store!Refused(op, n, k, status), Answer(op, n, k, status, Missing)
    PROVE  Store!Next
<1>1. Store!Refuse(op, n, k, status)
  BY DEF Store!Refuse, Store!Answer, Answer
<1>2. QED
  BY <1>1 DEF Store!Next

\* A listing of buckets holds the caller's.
LEMMA OwnersSeen ==
    ASSUME TypeOK, OwnerIndexExact, NEW o \in Principals
    PROVE  ListByOwner(o) = {n \in Names : DirOwner[n] = o}
<1>1. o # NoRecord
  BY GatewayAssumption
<1>2. \A n \in Names : <<o, n>> \in ownerIdx /\ LiveBucket(n)
                         <=> LiveBucket(n) /\ records[n].owner = o
  <2>1. CASE o \in IndexableOwners
    BY <2>1 DEF OwnerIndexExact
  <2>2. CASE o \notin IndexableOwners
    BY <2>2 DEF TypeOK, RepoTypeOK, LiveBucket, Bucket
  <2>3. QED
    BY <2>1, <2>2
<1>3. \A n \in Names : DirOwner[n] = o <=> LiveBucket(n) /\ records[n].owner = o
  BY <1>1 DEF DirOwner
<1>4. QED
  BY <1>2, <1>3 DEF ListByOwner

LEMMA ArriveStores ==
    ASSUME TypeOK, OwnerIndexExact, Arrive
    PROVE  [Store!Next]_(Store!vars)
<1>1. ASSUME NEW o \in Principals, GwListBuckets(o)
      PROVE  [Store!Next]_(Store!vars)
  <2>1. UNCHANGED <<DirOwner, DirContent>>
    BY <1>1, QuietMapped DEF GwListBuckets, vars
  <2>2. Store!ListBuckets(o)
    BY <1>1, <2>1, OwnersSeen DEF GwListBuckets, Answer, Store!ListBuckets, Store!Answer
  <2>3. QED
    BY <2>2 DEF Store!Next
<1>2. ASSUME NEW o \in Principals, NEW n \in Names, GwCreateBucket(n, o)
      PROVE  [Store!Next]_(Store!vars)
  <2>1. CreateBucket(n, o) /\ o \in Owners
    BY <1>2, GatewayAssumption DEF GwCreateBucket
  <2>2. CASE /\ reply'.status = 201
             /\ DirOwner[n] = NoRecord
             /\ DirOwner' = [DirOwner EXCEPT ![n] = o]
             /\ DirContent' = DirContent
    <3>1. Answer("CreateBucket", n, Missing, 201, Missing)
      BY <1>2, <2>2 DEF GwCreateBucket
    <3>2. Store!CreateBucket(n, o)
      BY <2>2, <3>1 DEF Store!CreateBucket, Store!Answer, Answer
    <3>3. QED
      BY <3>2 DEF Store!Next
  <2>3. CASE /\ reply'.status \in {400, 409, 500}
             /\ reply'.status = 409 => DirOwner[n] # NoRecord
             /\ UNCHANGED <<DirOwner, DirContent>>
    <3>1. PICK status \in {400, 409, 502} :
            /\ status = 409 => DirOwner[n] # NoRecord
            /\ Answer("CreateBucket", n, Missing, status, Missing)
      BY <1>2, <2>3 DEF GwCreateBucket, Upstream
    <3>2. Store!Refused("CreateBucket", n, Missing, status)
      BY <3>1 DEF Store!Refused
    <3>3. QED
      BY <2>3, <3>1, <3>2, StoreRefuses DEF Store!BucketOps
  <2>4. QED
    BY <2>1, <2>2, <2>3, CreateAnswered
<1>3. ASSUME NEW g \in Slots, NEW who \in Principals, NEW op \in BucketOps,
             NEW n \in Names, NEW k \in Keys \union {Missing},
             NEW ref \in Refs \union {Missing},
             op \in {"DeleteBucket", "ListObjects"} => k = Missing,
             Authorize(g, who, op, n, k, ref)
      PROVE  [Store!Next]_(Store!vars)
  <2>1. UNCHANGED <<DirOwner, DirContent>>
    BY <1>3, QuietMapped DEF Authorize, vars
  <2>2. op \in Store!ObjectOps \/ (op \in Store!BucketOps /\ k = Missing)
    BY <1>3 DEF BucketOps, Store!ObjectOps, Store!BucketOps
  <2>3. CASE UNCHANGED answer
    BY <2>1, <2>3, Unseen
  <2>4. CASE ~LiveBucket(n) /\ Answer(op, n, k, 404, Missing)
    <3>1. Store!Refused(op, n, k, 404)
      BY <2>4, Mapped DEF Store!Refused
    <3>2. QED
      BY <2>1, <2>2, <2>4, <3>1, StoreRefuses
  <2>5. CASE LiveBucket(n) /\ Answer(op, n, k, 403, Missing)
    <3>1. Store!Refused(op, n, k, 403)
      BY <2>5, Mapped DEF Store!Refused
    <3>2. QED
      BY <2>1, <2>2, <2>5, <3>1, StoreRefuses
  <2>6. QED
    BY <1>3, <2>3, <2>4, <2>5 DEF Authorize
<1>4. QED
  BY <1>1, <1>2, <1>3 DEF Arrive, BucketOps

\* A request about an object that ends with an error the store may give too.
LEMMA EndRefused ==
    ASSUME SlotsOK, UNCHANGED <<DirOwner, DirContent>>,
           NEW g \in Slots, slot[g] # Free,
           slot[g].op \in {"PutObject", "GetObject", "HeadObject", "DeleteObject"},
           NEW n \in Names, NEW k \in Keys \union {Missing},
           slot[g].name = n, slot[g].key = k,
           NEW status \in {400, 404, 502},
           Store!Refused(slot[g].op, n, k, status), Finish(g, status, Missing)
    PROVE  Store!Next
<1>1. Answer(slot[g].op, n, k, status, Missing)
  BY DEF Finish
<1>2. slot[g].op \in Store!ObjectOps
  BY DEF Store!ObjectOps
<1>3. QED
  BY <1>1, <1>2, StoreRefuses

\* An upstream call that fails becomes a 502.
LEMMA UpstreamFails ==
    ASSUME SlotsOK, UNCHANGED <<DirOwner, DirContent>>,
           NEW g \in Slots, slot[g] # Free,
           slot[g].op \in {"PutObject", "GetObject", "HeadObject", "DeleteObject"},
           Finish(g, 502, Missing)
    PROVE  Store!Next
<1>1. PICK n \in Names, k \in Keys \union {Missing} :
        slot[g].name = n /\ slot[g].key = k
  BY DEF SlotsOK, Request
<1>2. Store!Refused(slot[g].op, n, k, 502)
  BY DEF Store!Refused
<1>3. QED
  BY <1>1, <1>2, EndRefused

LEMMA WriteStores ==
    ASSUME SlotsOK, NEW g \in Slots, Write(g)
    PROVE  [Store!Next]_(Store!vars)
<1>1. slot[g] # Free /\ slot[g].op = "PutObject" /\ UNCHANGED <<DirOwner, DirContent>>
  BY QuietMapped DEF Write, At, SlotsOK, RecordOK, vars
<1>2. CASE Finish(g, 502, Missing)
  BY <1>1, <1>2, UpstreamFails
<1>3. CASE UNCHANGED answer
  BY <1>1, <1>3, Unseen
<1>4. QED
  BY <1>2, <1>3 DEF Write, Goto

LEMMA PutMetaStores ==
    ASSUME NEW g \in Slots, NEW h \in Handlers, PutMeta(g, h)
    PROVE  [Store!Next]_(Store!vars)
<1>1. UNCHANGED <<DirOwner, DirContent>>
  BY QuietMapped DEF PutMeta, PutObjectCheck, Reject, repo
<1>2. UNCHANGED answer
  BY DEF PutMeta, GotoUndo
<1>3. QED
  BY <1>1, <1>2, Unseen

LEMMA PutSavedStores ==
    ASSUME SlotsOK, TypeOK, TurnsInv, NEW g \in Slots, PutSaved(g)
    PROVE  [Store!Next]_(Store!vars)
<1>1. PICK n \in Names, k \in Keys, ref \in Refs :
        /\ slot[g].name = n /\ slot[g].key = k /\ slot[g].ref = ref
        /\ slot[g] # Free /\ slot[g].op = "PutObject"
  BY SavingPut
<1>2. /\ UNCHANGED <<records, blobs>>
      /\ \/ /\ Finish(g, 201, Missing)
            /\ objects' = [objects EXCEPT ![<<n, k>>] =
                             [ref |-> ref, deleted |-> FALSE]]
            /\ DirContent' = [DirContent EXCEPT ![<<n, k>>] = ref]
            /\ DirOwner' = DirOwner
         \/ /\ GotoUndo(g, 502)
            /\ k \notin StorableKeys
            /\ objects' = objects
            /\ UNCHANGED <<DirOwner, DirContent>>
  BY <1>1, SavingAnswered
<1>3. CASE /\ Finish(g, 201, Missing)
           /\ DirContent' = [DirContent EXCEPT ![<<n, k>>] = ref]
           /\ DirOwner' = DirOwner
  <2>1. DirOwner[n] # NoRecord
    BY <1>1, Mapped DEF TurnsInv, NoneDisturbed, Undisturbed
  <2>2. Answer("PutObject", n, k, 201, Missing)
    BY <1>1, <1>3 DEF Finish
  <2>3. Store!Put(n, k, ref)
    BY <1>3, <2>1, <2>2 DEF Store!Put, Store!Answer, Answer
  <2>4. QED
    BY <2>3 DEF Store!Next
<1>4. CASE GotoUndo(g, 502) /\ UNCHANGED <<DirOwner, DirContent>>
  BY <1>4, Unseen DEF GotoUndo
<1>5. QED
  BY <1>2, <1>3, <1>4

LEMMA UndoStores ==
    ASSUME SlotsOK, TurnsInv, NEW g \in Slots, Undo(g)
    PROVE  [Store!Next]_(Store!vars)
<1>1. /\ slot[g] # Free /\ slot[g].pc = "undo" /\ slot[g].op = "PutObject"
      /\ UNCHANGED <<DirOwner, DirContent>>
  BY QuietMapped DEF Undo, At, SlotsOK, RecordOK, vars
<1>2. PICK status \in {400, 502} : status = slot[g].status
  BY <1>1 DEF TurnsInv, NoneDisturbed, Undisturbed
<1>3. Finish(g, status, Missing)
  BY <1>2 DEF Undo
<1>4. PICK n \in Names, k \in Keys \union {Missing} :
        slot[g].name = n /\ slot[g].key = k
  BY <1>1 DEF SlotsOK, Request
<1>5. Store!Refused(slot[g].op, n, k, status)
  BY <1>1 DEF Store!Refused
<1>6. QED
  BY <1>1, <1>3, <1>4, <1>5, EndRefused

\* What a get or a head answers with is the content of the key.
LEMMA ContentSeen ==
    ASSUME TypeOK, NEW n \in Names, NEW k \in Keys, LiveObject(n, k)
    PROVE  /\ DirContent[<<n, k>>] = objects[<<n, k>>].ref
           /\ DirContent[<<n, k>>] # NoRecord
BY Mapped DEF DirContent

LEMMA ReadStores ==
    ASSUME TypeOK, UNCHANGED <<DirOwner, DirContent>>,
           NEW g \in Slots, slot[g] # Free, slot[g].op \in {"GetObject", "HeadObject"},
           NEW n \in Names, NEW k \in Keys, slot[g].name = n, slot[g].key = k,
           LiveObject(n, k), Finish(g, 200, objects[<<n, k>>].ref)
    PROVE  Store!Next
<1>1. Answer(slot[g].op, n, k, 200, DirContent[<<n, k>>])
  BY ContentSeen DEF Finish
<1>2. Store!GetOrHead(slot[g].op, n, k)
  BY <1>1, ContentSeen DEF Store!GetOrHead, Store!Answer, Answer
<1>3. slot[g].op \in Store!ObjectOps
  BY DEF Store!ObjectOps
<1>4. QED
  BY <1>2, <1>3 DEF Store!Next

\* The store counts as the handler does.
LEMMA SameCount == \A S : Store!Cardinality(S) = Cardinality(S)
BY DEF Cardinality, Store!Cardinality

LEMMA ListStores ==
    ASSUME SlotsOK, TypeOK, TurnsInv, NEW g \in Slots, List(g)
    PROVE  [Store!Next]_(Store!vars)
<1>1. /\ slot[g] # Free /\ slot[g].pc = "list"
      /\ UNCHANGED <<DirOwner, DirContent>>
  BY QuietMapped DEF List, At, vars
<1>2. PICK n \in Names : n = slot[g].name
  BY <1>1 DEF SlotsOK, Request
<1>3. slot[g].op = "ListObjects" /\ slot[g].key = Missing /\ LiveBucket(n)
  BY <1>1, <1>2 DEF TurnsInv, NoneDisturbed, Undisturbed
<1>4. LiveKeys(n) = {k \in Keys : DirContent[<<n, k>>] # NoRecord}
  BY Mapped DEF LiveKeys
<1>5. PICK listed \in SUBSET LiveKeys(n) :
        /\ \/ listed = LiveKeys(n) /\ Cardinality(LiveKeys(n)) <= ListLimit
           \/ Cardinality(LiveKeys(n)) > ListLimit /\ Cardinality(listed) = ListLimit
        /\ Finish(g, 200, listed)
  BY <1>2 DEF List
<1>6. Cardinality(listed) <= ListLimit
      /\ (listed # LiveKeys(n) => Cardinality(listed) = ListLimit)
  BY <1>5, GatewayAssumption
<1>7. Answer("ListObjects", n, Missing, 200, listed)
  BY <1>2, <1>3, <1>5 DEF Finish
<1>8. Store!ListObjects(n)
  <2>1. DirOwner[n] # NoRecord
    BY <1>3, Mapped
  <2> DEFINE all == {k \in Keys : DirContent[<<n, k>>] # NoRecord}
  <2>2. /\ listed \in SUBSET all
        /\ listed # all => Store!Cardinality(listed) = ListLimit
        /\ Store!Cardinality(listed) <= ListLimit
    BY <1>4, <1>6, SameCount
  <2>3. Store!Answer("ListObjects", n, Missing, 200, listed)
    BY <1>7 DEF Store!Answer, Answer
  <2>4. QED
    BY <1>1, <2>1, <2>2, <2>3 DEF Store!ListObjects
<1>9. QED
  BY <1>8 DEF Store!Next

LEMMA LookupStores ==
    ASSUME TakingTurns, SlotsOK, TypeOK, NEW g \in Slots, Lookup(g)
    PROVE  [Store!Next]_(Store!vars)
<1>1. /\ slot[g] # Free /\ slot[g].op \in {"GetObject", "HeadObject", "DeleteObject"}
      /\ UNCHANGED <<DirOwner, DirContent>>
  BY QuietMapped DEF Lookup, At, SlotsOK, RecordOK, vars
<1>2. slot[g].name \in Names
  BY <1>1 DEF SlotsOK, Request
<1>3. CASE ~Found(g) /\ Finish(g, IF Addressable(g) THEN 404 ELSE 502, Missing)
  <2>1. CASE Addressable(g)
    <3>1. PICK n \in Names, k \in Keys : slot[g].name = n /\ slot[g].key = k
      BY <1>2, <2>1, RepoAssumption DEF Addressable
    <3>2. ~LiveObject(n, k)
      BY <1>3, <2>1, <3>1 DEF Found, Addressable, TakingTurns
    <3>3. Store!Refused(slot[g].op, n, k, 404)
      BY <3>2, Mapped, MetadataAssumption DEF Store!Refused
    <3>4. Finish(g, 404, Missing)
      BY <1>3, <2>1
    <3>5. QED
      BY <1>1, <3>1, <3>3, <3>4, EndRefused
  <2>2. CASE ~Addressable(g)
    BY <1>1, <1>3, <2>2, UpstreamFails
  <2>3. QED
    BY <2>1, <2>2
<1>4. CASE Found(g) /\ slot[g].op = "HeadObject" /\ Finish(g, 200, FoundRef(g))
  <2>1. PICK n \in Names, k \in Keys : n = slot[g].name /\ k = slot[g].key
    BY <1>2, <1>4, FoundHere, RepoAssumption
  <2>2. LiveObject(n, k) /\ FoundRef(g) = objects[<<n, k>>].ref
    BY <1>4, <2>1, FoundHere
  <2>3. Finish(g, 200, objects[<<n, k>>].ref)
    BY <1>4, <2>2
  <2>4. QED
    BY <1>1, <1>4, <2>1, <2>2, <2>3, ReadStores
<1>5. CASE UNCHANGED answer
  BY <1>1, <1>5, Unseen
<1>6. QED
  BY <1>3, <1>4, <1>5 DEF Lookup

LEMMA GetStores ==
    ASSUME TakingTurns, SlotsOK, TypeOK, TurnsInv, NEW g \in Slots, Read(g)
    PROVE  [Store!Next]_(Store!vars)
<1>1. /\ slot[g] # Free /\ slot[g].pc = "read"
      /\ UNCHANGED <<DirOwner, DirContent>>
  BY QuietMapped DEF Read, At, vars
<1>2. slot[g].op = "GetObject" /\ Looked(slot[g]) /\ slot[g].name \in Names
  <2>1. Undisturbed(slot[g])
    BY <1>1 DEF TurnsInv, NoneDisturbed
  <2>2. slot[g].op = "GetObject" /\ Looked(slot[g])
    BY <1>1, <2>1 DEF Undisturbed
  <2>3. QED
    BY <1>1, <2>2 DEF SlotsOK, Request
<1>3. PICK n \in Names, k \in Keys : n = slot[g].name /\ k = slot[g].key
  BY <1>2, RepoAssumption DEF Looked
<1>4. LiveObject(n, k) /\ objects[<<n, k>>].ref = slot[g].ref
  BY <1>2, <1>3 DEF Looked, RefersTo
<1>5. Blob(g) \in blobs
  <2>1. ~BeingDeleted(n, k)
    BY <1>1, NotDeleting
  <2>2. <<n, objects[<<n, k>>].ref>> \in blobs
    BY <1>4, <2>1 DEF TurnsInv, ContentsKept, Backed
  <2>3. QED
    BY <1>3, <1>4, <2>2 DEF Blob
<1>6. Finish(g, 200, objects[<<n, k>>].ref)
  BY <1>4, <1>5 DEF Read
<1>7. QED
  BY <1>1, <1>2, <1>3, <1>4, <1>6, ReadStores

LEMMA UnlinkStores ==
    ASSUME SlotsOK, NEW g \in Slots, Unlink(g)
    PROVE  [Store!Next]_(Store!vars)
<1>1. /\ slot[g] # Free /\ slot[g].op = "DeleteObject"
      /\ UNCHANGED <<DirOwner, DirContent>>
  BY QuietMapped DEF Unlink, At, SlotsOK, RecordOK, vars
<1>2. CASE Finish(g, 502, Missing)
  BY <1>1, <1>2, UpstreamFails
<1>3. CASE UNCHANGED answer
  BY <1>1, <1>3, Unseen
<1>4. QED
  BY <1>2, <1>3 DEF Unlink, Goto

LEMMA GoneStores ==
    ASSUME TakingTurns, SlotsOK, TypeOK, TurnsInv, NEW g \in Slots,
           GwDeleteObject(g)
    PROVE  [Store!Next]_(Store!vars)
<1>1. PICK n \in Names, k \in StorableKeys :
        k \in Keys /\ slot[g].name = n /\ slot[g].key = k
  BY GoneKey
<1>2. /\ LiveObject(n, k)
      /\ Finish(g, 204, Missing)
      /\ UNCHANGED <<records, blobs>>
      /\ objects' = [objects EXCEPT ![<<n, k>>].deleted = TRUE]
      /\ DirContent' = [DirContent EXCEPT ![<<n, k>>] = NoRecord]
      /\ DirOwner' = DirOwner
  BY <1>1, GoneAnswered
<1>3. Answer("DeleteObject", n, k, 204, Missing)
  BY <1>1, <1>2, GoneKey DEF Finish
<1>4. Store!Delete(n, k)
  BY <1>1, <1>2, <1>3, Mapped DEF Store!Delete, Store!Answer, Answer
<1>5. QED
  BY <1>1, <1>4 DEF Store!Next

LEMMA BucketStores ==
    ASSUME SlotsOK, TypeOK, TurnsInv, NEW g \in Slots, GwDeleteBucket(g)
    PROVE  [Store!Next]_(Store!vars)
<1>1. slot[g] # Free /\ slot[g].op = "DeleteBucket"
  BY DEF GwDeleteBucket, At
<1>2. PICK n \in Names : n = slot[g].name
  BY <1>1 DEF SlotsOK, Request
<1>3. slot[g].key = Missing /\ DeleteBucket(n)
  BY <1>1, <1>2 DEF GwDeleteBucket, TurnsInv, NoneDisturbed, Undisturbed
<1>4. CASE /\ reply'.status = 204
           /\ DirOwner[n] # NoRecord
           /\ \A k \in Keys : DirContent[<<n, k>>] = NoRecord
           /\ DirOwner' = [DirOwner EXCEPT ![n] = NoRecord]
           /\ DirContent' = DirContent
  <2>1. Answer("DeleteBucket", n, Missing, 204, Missing)
    BY <1>1, <1>2, <1>3, <1>4 DEF GwDeleteBucket, Finish
  <2>2. Store!DeleteBucket(n)
    BY <1>4, <2>1 DEF Store!DeleteBucket, Store!Answer, Answer
  <2>3. QED
    BY <2>2 DEF Store!Next
<1>5. CASE /\ reply'.status \in {404, 409, 500}
           /\ reply'.status = 404 => DirOwner[n] = NoRecord
           /\ reply'.status = 409 => \E k \in Keys : DirContent[<<n, k>>] # NoRecord
           /\ UNCHANGED <<DirOwner, DirContent>>
  <2>1. PICK status \in {404, 409, 502} :
          /\ status = 404 => DirOwner[n] = NoRecord
          /\ status = 409 => \E k \in Keys : DirContent[<<n, k>>] # NoRecord
          /\ Answer("DeleteBucket", n, Missing, status, Missing)
    BY <1>1, <1>2, <1>3, <1>5 DEF GwDeleteBucket, Finish, Upstream
  <2>2. Store!Refused("DeleteBucket", n, Missing, status)
    BY <2>1 DEF Store!Refused
  <2>3. QED
    BY <1>5, <2>1, <2>2, StoreRefuses DEF Store!BucketOps
<1>6. QED
  BY <1>3, <1>4, <1>5, DeleteAnswered

\* To clients that take turns and keep each content they store to one key,
\* api-service over both services is an object store, while nothing fails:
\* the bytes, the references and the upstream calls of a request are
\* invisible, and each answer is the one the store gives at that instant.
THEOREM TurnsImplementStore == TakingTurns => (GatewaySpec => ImplementsObjectStore)
<1> SUFFICES ASSUME TakingTurns
             PROVE  GatewaySpec => ImplementsObjectStore
  OBVIOUS
<1>1. GatewayInit => Store!Init
  BY DEF GatewayInit, Init, RepoInit, Store!Init, DirOwner, DirContent, LiveBucket,
         LiveObject
<1>2. GatewayInit => TurnsInv
  BY TurnsInit
<1>3. GatewayInv /\ TurnsInv /\ [GatewayNext]_allVars => TurnsInv'
  BY TurnsStep
<1>4. GatewayInv /\ MetadataInv /\ TurnsInv /\ [GatewayNext]_allVars
        => [Store!Next]_(Store!vars)
  <2> SUFFICES ASSUME GatewayInv, MetadataInv, TurnsInv, [GatewayNext]_allVars
               PROVE  [Store!Next]_(Store!vars)
    OBVIOUS
  <2>1. SlotsOK /\ StorableOnly /\ TypeOK /\ OwnerIndexExact
    BY SlotsFromInv DEF GatewayInv, GatewayTypeOK, MetadataInv
  <2>2. CASE UNCHANGED allVars
    <3>1. UNCHANGED <<DirOwner, DirContent, answer>>
      BY <2>2, QuietMapped DEF allVars, vars, gateway
    <3>2. QED
      BY <3>1, Unseen
  <2>3. CASE GatewayNext
    <3>1. ASSUME NEW g \in Slots, Proceed(g)
          PROVE  [Store!Next]_(Store!vars)
      BY <2>1, <3>1, WriteStores, PutMetaStores, PutSavedStores, UndoStores,
         ListStores, LookupStores, GetStores, UnlinkStores, GoneStores,
         BucketStores DEF Proceed
    <3>2. QED
      BY <2>1, <2>3, <3>1, OnlyTurns, ArriveStores
  <2>4. QED
    BY <2>2, <2>3
<1>5. GatewaySpec => []MetadataInv
  BY MetadataInGateway, Invariance, PTL
<1>6. QED
  BY <1>1, <1>2, <1>3, <1>4, <1>5, GatewayInvariance, PTL
     DEF GatewaySpec, ImplementsObjectStore, Store!Spec
=============================================================================
