----------------------------- MODULE BlobStore ------------------------------
(***************************************************************************)
(* What data-service promises to api-service: a set of stored contents,    *)
(* one per (namespace, hash).  A content comes only with an upload of it   *)
(* and goes only with a delete of it, once for each such request.  An      *)
(* upload answered 201 has stored its content at that instant, a delete    *)
(* answered 204 has dropped it at some instant before, and a request that  *)
(* is answered otherwise has changed nothing.                              *)
(***************************************************************************)
CONSTANTS Requests, Namespaces, Hashes, NoAnswer

VARIABLES
    stored,             \* the (namespace, hash) pairs that can be downloaded
    call,               \* request -> what it asks for and has not been answered
    answer              \* the last response, or NoAnswer

vars == <<stored, call, answer>>

Free == [op |-> "none"]
Dropped == [op |-> "dropped"]

Init ==
    /\ stored = {}
    /\ call = [r \in Requests |-> Free]
    /\ answer = NoAnswer

\* A request for the content <<ns, h>> arrives.
Arrive(r, op, ns, h) ==
    /\ call[r] = Free
    /\ call' = [call EXCEPT ![r] = [op |-> op, ns |-> ns, hash |-> h]]
    /\ UNCHANGED <<stored, answer>>

Respond(r, status, ref) ==
    /\ call' = [call EXCEPT ![r] = Free]
    /\ answer' = [status |-> status, ref |-> ref]

Upload(r) ==
    /\ call[r].op = "upload"
    /\ stored' = stored \union {<<call[r].ns, call[r].hash>>}
    /\ Respond(r, 201, <<call[r].ns, call[r].hash>>)

\* A delete takes effect, once, at some time before it is answered.
Drop(r) ==
    /\ call[r].op = "delete"
    /\ stored' = stored \ {<<call[r].ns, call[r].hash>>}
    /\ call' = [call EXCEPT ![r] = Dropped]
    /\ UNCHANGED answer

EndDelete(r) ==
    /\ call[r] = Dropped
    /\ Respond(r, 204, NoAnswer)
    /\ UNCHANGED stored

Fail(r) ==
    /\ call[r].op \in {"upload", "delete"}
    /\ Respond(r, 500, NoAnswer)
    /\ UNCHANGED stored

\* A request that asks for no content, or is turned away at once.
Turn(r, status) ==
    /\ call[r] = Free
    /\ Respond(r, status, NoAnswer)
    /\ UNCHANGED stored

\* The process stops, and the requests in progress are not answered.
Restart ==
    /\ call' = [r \in Requests |-> Free]
    /\ UNCHANGED <<stored, answer>>

Next ==
    \/ \E r \in Requests :
         \/ \E ns \in Namespaces, h \in Hashes :
              Arrive(r, "upload", ns, h) \/ Arrive(r, "delete", ns, h)
         \/ Upload(r) \/ Drop(r) \/ EndDelete(r) \/ Fail(r)
         \/ \E status \in {200, 500, 503} : Turn(r, status)
    \/ Restart

Spec == Init /\ [][Next]_vars
=============================================================================
