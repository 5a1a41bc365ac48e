----------------------------- MODULE MCGateway ------------------------------
(* Small instances of Gateway for TLC. *)
EXTENDS Gateway, TLC

CONSTANTS b1, alice, bob, r1, r2, r3, r4, h1, h2, g1, g2

OneName == {b1}
OneOwner == {alice}
TwoOwners == {alice, bob}

\* Key 3 holds a 0x00 byte.
TwoKeys == {1, 2}
ThreeKeys == {1, 2, 3}

OneRef == {r1}
FourRefs == {r1, r2, r3, r4}
OneHandler == {h1}
TwoHandlers == {h1, h2}
OneSlot == {g1}
TwoSlots == {g1, g2}

\* Clients that put any content anywhere, and clients that keep each content
\* to one key.
AnyUpload == Keys \X Refs
OwnUpload == {<<1, r1>>, <<1, r2>>, <<2, r3>>, <<3, r4>>, <<Missing, r4>>}

\* Clients that keep each content to one key, with no faults, meet the
\* hypothesis of TurnsImplementStore.
ASSUME TurnsAssumption == Uploads = OwnUpload /\ MaxFaults = 0 => TakingTurns

\* Keys that survive the URL path, and a key 2 that has a question mark after
\* the text of key 1.
PlainKey == [k \in Keys |-> k]
QueryKey == [k \in Keys |-> IF k = 2 THEN 1 ELSE k]

\* What the behaviour can still depend on: no guard reads the last responses,
\* the history, or the record of a bucket that is gone.
Present == <<DirOwner, ownerIdx, objects, pending, blobs, slot, faults>>
SystemView == <<Present, history>>
ClientView == <<Present, strays, answer>>

OwnerSymmetry == Permutations(TwoOwners)
SlotSymmetry == Permutations(TwoSlots) \union Permutations(TwoHandlers)
FullSymmetry == SlotSymmetry \union OwnerSymmetry
=============================================================================
