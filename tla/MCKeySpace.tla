----------------------------- MODULE MCKeySpace -----------------------------
(* A small instance of KeySpace for TLC. *)
EXTENDS KeySpace

CONSTANT s1

MCScanners == {s1}

\* Bucket names that begin with one another, and one with a 0x00 byte whose
\* beginning is a name.
MCNames == {<<1>>, <<1, 2>>, <<1, 0, 2>>}

\* Keys that begin with one another and that continue a bucket name.
MCKeys == {<<2>>, <<2, 1>>, <<2, 0>>}

MCFilters == {<< >>, <<2>>, <<2, 1>>, <<2, 0>>}
MCLimits == {-1, 0, 1}

\* No request reads the last answer, and the refinement compares the answer of
\* every step.
KeysView == <<bolt, scan>>
=============================================================================
