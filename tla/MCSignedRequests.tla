-------------------------- MODULE MCSignedRequests --------------------------
(* A small instance of SignedRequests for TLC. *)
EXTENDS SignedRequests, TLC

CONSTANTS i1, i2, ann, ben, badName, k1, k2, k3, c1, c2, r1, g1

MCIds == {i1, i2}
MCValidUsernames == {ann, ben}
MCUsernames == {ann, ben, badName}
MCAccessKeys == {k1, k2, k3}
MCCalls == {c1, c2}
MCRequests == {r1}
MCChecks == {g1}

\* Without the last response of auth-service, which no guard reads.
View == <<users, usernames, credentials, call, sigVars>>

Sym == Permutations(MCIds) \union Permutations(MCValidUsernames)
         \union Permutations(MCAccessKeys) \union Permutations(MCCalls)
=============================================================================
