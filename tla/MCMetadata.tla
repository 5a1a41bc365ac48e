----------------------------- MODULE MCMetadata -----------------------------
(* Small instances of Metadata for TLC. *)
EXTENDS Metadata, TLC

CONSTANTS b1, b2, badName, alice, bob, nulOwner, r1, r2, h1, h2

\* Usable bucket names, and one that bucketNameRE refuses.
OneName == {b1}
TwoNames == {b1, b2}
MCNames == ValidNames \union {badName}

\* Two ordinary owners and one whose id holds a separator byte.
MCOwners == {alice, bob, nulOwner}
MCIndexableOwners == {alice, bob}

\* An ordinary key, and one that holds a separator byte.
OneKey == {1}
MCKeys == StorableKeys \union {3}

OneRef == {r1}
TwoRefs == {r1, r2}
MCHandlers == {h1, h2}

\* What the behaviour can still depend on: no guard reads the last response,
\* and the refinement compares the response of every step.
StateView == <<repo, pending, stale, lateOn>>

NameSymmetry == Permutations(TwoNames) \union Permutations(Refs) \union Permutations(MCIndexableOwners)
                  \union Permutations(MCHandlers)
=============================================================================
