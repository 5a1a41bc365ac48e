---------------------------- MODULE MCReadiness -----------------------------
(* A small instance of Readiness for TLC: two binaries of metadata-service *)
(* on one file, the second with a newer schema, and a data-service.        *)
EXTENDS Readiness

CONSTANTS old, new, data1, meta, data2, r1

MCProcesses == {old, new, data1}
MCServices == {meta, data2}
MCService == [p \in MCProcesses |-> IF p = data1 THEN data2 ELSE meta]
MCStored == {meta}
MCVersion == [p \in MCProcesses |-> IF p = new THEN 2 ELSE 1]
MCRequests == {r1}
=============================================================================
