----------------------------- MODULE Directory ------------------------------
(***************************************************************************)
(* What metadata-service promises to its callers: a directory that gives   *)
(* each bucket name at most one owner and each (bucket, key) at most one   *)
(* content reference, in which every request takes effect, and is          *)
(* answered, in one step.  There is no soft deletion, no index and no      *)
(* request that is half done.                                              *)
(*                                                                         *)
(* Store does not require the bucket to exist at the instant it takes      *)
(* effect: metadata-service looks at the bucket in an earlier transaction. *)
(***************************************************************************)
CONSTANTS Names, Owners, Keys, Refs, Missing, Nobody, Nothing

VARIABLES
    owner,              \* name -> its owner, or Nobody
    content,            \* name, key -> its reference, or Nothing
    answer              \* the last answer given

vars == <<owner, content, answer>>

Init ==
    /\ owner = [n \in Names |-> Nobody]
    /\ content = [x \in Names \X Keys |-> Nothing]
    /\ answer = Nothing

Answer(op, n, k, result) ==
    answer' = [op |-> op, at |-> <<n, k>>, result |-> result]

Empty(n) == \A k \in Keys : content[<<n, k>>] = Nothing

Refuse(op, n, k, result) ==
    /\ Answer(op, n, k, result)
    /\ UNCHANGED <<owner, content>>

Create(n, o) ==
    \/ owner[n] # Nobody /\ Refuse("CreateBucket", n, Missing, "Conflict")
    \/ /\ owner[n] = Nobody
       /\ owner' = [owner EXCEPT ![n] = o]
       /\ Answer("CreateBucket", n, Missing, "Done")
       /\ UNCHANGED content

Remove(n) ==
    \/ owner[n] = Nobody /\ Refuse("DeleteBucket", n, Missing, "NotFound")
    \/ /\ owner[n] # Nobody
       /\ ~Empty(n)
       /\ Refuse("DeleteBucket", n, Missing, "Conflict")
    \/ /\ owner[n] # Nobody
       /\ Empty(n)
       /\ owner' = [owner EXCEPT ![n] = Nobody]
       /\ Answer("DeleteBucket", n, Missing, "Done")
       /\ UNCHANGED content

Store(n, k, ref) ==
    /\ content' = [content EXCEPT ![<<n, k>>] = ref]
    /\ Answer("PutObject", n, k, "Done")
    /\ UNCHANGED owner

StoreNoBucket(n, k) ==
    owner[n] = Nobody /\ Refuse("PutObject", n, k, "NotFound")

Unlink(n, k) ==
    \/ content[<<n, k>>] = Nothing /\ Refuse("DeleteObject", n, k, "NotFound")
    \/ /\ content[<<n, k>>] # Nothing
       /\ content' = [content EXCEPT ![<<n, k>>] = Nothing]
       /\ Answer("DeleteObject", n, k, "Done")
       /\ UNCHANGED owner

\* A malformed request, or one the store cannot serve, changes nothing.
Fail(op, n, k) ==
    \E result \in {"BadRequest", "Error"} : Refuse(op, n, k, result)

Next ==
    \E n \in Names :
      \/ \E o \in Owners : Create(n, o)
      \/ Remove(n)
      \/ \E k \in Keys :
           \/ StoreNoBucket(n, k)
           \/ Unlink(n, k)
           \/ \E ref \in Refs : Store(n, k, ref)
      \/ \E op \in {"CreateBucket", "DeleteBucket", "PutObject", "DeleteObject"},
            k \in Keys \union {Missing} : Fail(op, n, k)

Spec == Init /\ [][Next]_vars
=============================================================================
