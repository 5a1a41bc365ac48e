---------------------------- MODULE MCLocalStore ----------------------------
(* Small instances of LocalStore for TLC. *)
EXTENDS LocalStore, TLC

CONSTANTS h1, h2, r1, r2, r3

\* Two contents whose hashes share their first two digits and differ in the
\* next two: their paths part at the fourth directory.
MCShard(h) == <<"aa", IF h = h1 THEN "bb" ELSE "cc">>
OneHash == {h1}
TwoHashes == {h1, h2}

Bucket == {"photos"}

\* A bucket name like any other to metadata-service.
TmpBucket == {"tmp"}

TwoRequests == {r1, r2}
ThreeRequests == {r1, r2, r3}
MCTempNames == {"t1", "t2"}

\* What the behaviour can still depend on: no guard reads the last response,
\* and the refinement compares the response of every step.
StateView == <<dirs, files, req, swept, restarted>>

Sym3 == Permutations(ThreeRequests)
=============================================================================
