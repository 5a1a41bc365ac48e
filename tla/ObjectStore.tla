---------------------------- MODULE ObjectStore -----------------------------
(***************************************************************************)
(* What api-service promises to a client: buckets with one owner each, and *)
(* objects that are there, with the content last put, until they are       *)
(* deleted.  There are no blobs, no references and no half-done requests.  *)
(* A head and a get of an object agree, and so do the listings.            *)
(***************************************************************************)
EXTENDS Naturals, FiniteSets

CONSTANTS Names, Principals, Keys, Refs, ListLimit,
          Missing, Nobody, Nothing, NoAnswer

VARIABLES
    owner,              \* name -> its owner, or Nobody
    content,            \* name, key -> the content last put, or Nothing
    answer              \* the last response to a client

vars == <<owner, content, answer>>

Init ==
    /\ owner = [n \in Names |-> Nobody]
    /\ content = [x \in Names \X Keys |-> Nothing]
    /\ answer = NoAnswer

Answer(op, n, k, status, body) ==
    answer' = [op |-> op, at |-> <<n, k>>, status |-> status, body |-> body]

CreateBucket(n, o) ==
    /\ owner[n] = Nobody
    /\ owner' = [owner EXCEPT ![n] = o]
    /\ Answer("CreateBucket", n, Missing, 201, Missing)
    /\ UNCHANGED content

DeleteBucket(n) ==
    /\ owner[n] # Nobody
    /\ \A k \in Keys : content[<<n, k>>] = Nothing
    /\ owner' = [owner EXCEPT ![n] = Nobody]
    /\ Answer("DeleteBucket", n, Missing, 204, Missing)
    /\ UNCHANGED content

Put(n, k, ref) ==
    /\ owner[n] # Nobody
    /\ content' = [content EXCEPT ![<<n, k>>] = ref]
    /\ Answer("PutObject", n, k, 201, Missing)
    /\ UNCHANGED owner

\* A head gives the size and type of what a get would return.
GetOrHead(op, n, k) ==
    /\ op \in {"GetObject", "HeadObject"}
    /\ content[<<n, k>>] # Nothing
    /\ Answer(op, n, k, 200, content[<<n, k>>])
    /\ UNCHANGED <<owner, content>>

\* A listing holds every object of the bucket, or as many as its limit.
ListObjects(n) ==
    /\ owner[n] # Nobody
    /\ LET all == {k \in Keys : content[<<n, k>>] # Nothing}
       IN  \E listed \in SUBSET all :
             /\ listed # all => Cardinality(listed) = ListLimit
             /\ Cardinality(listed) <= ListLimit
             /\ Answer("ListObjects", n, Missing, 200, listed)
    /\ UNCHANGED <<owner, content>>

ListBuckets(o) ==
    /\ Answer("ListBuckets", o, Missing, 200, {n \in Names : owner[n] = o})
    /\ UNCHANGED <<owner, content>>

Delete(n, k) ==
    /\ content[<<n, k>>] # Nothing
    /\ content' = [content EXCEPT ![<<n, k>>] = Nothing]
    /\ Answer("DeleteObject", n, k, 204, Missing)
    /\ UNCHANGED owner

\* The ways to be refused, each for its reason; any request may meet an
\* error of the store itself.
Refused(op, n, k, status) ==
    \/ status = 403 /\ owner[n] # Nobody
    \/ status = 404 /\ owner[n] = Nobody
    \/ status = 404 /\ k # Missing /\ content[<<n, k>>] = Nothing
    \/ status = 409 /\ op = "CreateBucket" /\ owner[n] # Nobody
    \/ status = 409 /\ op = "DeleteBucket"
                    /\ \E j \in Keys : content[<<n, j>>] # Nothing
    \/ status = 400 /\ op \in {"CreateBucket", "PutObject"}
    \/ status = 502

Refuse(op, n, k, status) ==
    /\ Refused(op, n, k, status)
    /\ Answer(op, n, k, status, Missing)
    /\ UNCHANGED <<owner, content>>

BucketOps == {"CreateBucket", "DeleteBucket", "ListObjects"}
ObjectOps == {"PutObject", "GetObject", "HeadObject", "DeleteObject"}

Next ==
    \/ \E o \in Principals : ListBuckets(o)
    \/ \E n \in Names :
      \/ \E o \in Principals : CreateBucket(n, o)
      \/ DeleteBucket(n) \/ ListObjects(n)
      \/ \E k \in Keys :
           \/ \E op \in ObjectOps : GetOrHead(op, n, k)
           \/ Delete(n, k) \/ \E ref \in Refs : Put(n, k, ref)
      \/ \E status \in {400, 403, 404, 409, 502} :
           \/ \E op \in BucketOps : Refuse(op, n, Missing, status)
           \/ \E op \in ObjectOps, k \in Keys \union {Missing} :
                Refuse(op, n, k, status)

Spec == Init /\ [][Next]_vars
=============================================================================
