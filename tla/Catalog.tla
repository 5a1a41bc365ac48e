------------------------------ MODULE Catalog ------------------------------
(***************************************************************************)
(* What the object repository of metadata-service promises about keys: a   *)
(* set of (bucket, key) pairs, and listings of one bucket in key order.    *)
(* Names and keys are sequences of bytes, and nothing encodes them.        *)
(***************************************************************************)
EXTENDS Integers, Sequences, FiniteSets, SequencesExt

CONSTANTS Names, Keys, Filters, Limits, DefaultLimit, Scanners

VARIABLES
    live,               \* the pairs that are stored
    asked,              \* the listings that are not answered yet
    answer              \* the last request, its error and its page

vars == <<live, asked, answer>>

Answer(op, at, err) == [op |-> op, at |-> at, err |-> err, page |-> << >>]

\* Names, keys and prefixes with a 0x00 byte are refused.
Usable(s) == 0 \notin Range(s)

\* The order of byte strings.
Before(s, t) ==
    \/ IsStrictPrefix(s, t)
    \/ \E i \in DOMAIN s \intersect DOMAIN t :
         s[i] < t[i] /\ \A j \in 1..i - 1 : s[j] = t[j]

Init ==
    /\ live = {}
    /\ asked = {}
    /\ answer = Answer("None", << >>, "none")

Put(n, k) ==
    /\ Usable(n) /\ Usable(k)
    /\ live' = live \union {<<n, k>>}
    /\ answer' = Answer("Put", <<n, k>>, "ok")
    /\ UNCHANGED asked

Delete(n, k) ==
    /\ Usable(n) /\ Usable(k)
    /\ live' = live \ {<<n, k>>}
    /\ answer' = Answer("Delete", <<n, k>>,
                        IF <<n, k>> \in live THEN "ok" ELSE "NotFound")
    /\ UNCHANGED asked

\* The first keys of a bucket under a prefix, in order, out of the pairs that
\* were there: as many as the page has room for, and none left out before
\* its last one.
IsPage(page, n, prefix, size, seen) ==
    LET found == {k \in Keys : <<n, k>> \in seen /\ IsPrefix(prefix, k)}
    IN  /\ \A i, j \in DOMAIN page : i < j => Before(page[i], page[j])
        /\ Range(page) \subseteq found
        /\ Len(page) <= size
        /\ \A k \in found \ Range(page) :
             /\ Len(page) = size
             /\ \A i \in DOMAIN page : Before(page[i], k)

\* A listing is of the pairs there are when it begins.
Ask(r, n, prefix, limit) ==
    /\ Usable(n) /\ Usable(prefix) /\ limit >= 0
    /\ \A q \in asked : q.by # r
    /\ asked' = asked \union {[by |-> r, name |-> n, prefix |-> prefix,
                               limit |-> limit, seen |-> live]}
    /\ UNCHANGED <<live, answer>>

Tell(q) ==
    LET page == answer'.page
        size == IF q.limit = 0 THEN DefaultLimit ELSE q.limit
    IN  /\ answer' = [Answer("List", <<q.name, q.prefix, q.limit>>, "ok")
                        EXCEPT !.page = page]
        /\ IsPage(page, q.name, q.prefix, size, q.seen)
        /\ asked' = asked \ {q}
        /\ UNCHANGED live

\* The request has ended before its listing.
Drop(q) ==
    /\ answer' = Answer("List", <<q.name, q.prefix, q.limit>>, "Internal")
    /\ asked' = asked \ {q}
    /\ UNCHANGED live

AskEmpty(n) ==
    /\ Usable(n)
    /\ answer' = Answer("AskEmpty", <<n>>,
                        IF \E k \in Keys : <<n, k>> \in live
                        THEN "NotEmpty" ELSE "ok")
    /\ UNCHANGED <<live, asked>>

\* A request with an unusable part or a negative limit changes nothing, nor
\* does an emptiness check whose request has ended.
Refuse(op, at, err) ==
    /\ answer' = Answer(op, at, err)
    /\ UNCHANGED <<live, asked>>

Malformed ==
    \E n \in Names :
      \/ Refuse("AskEmpty", <<n>>, "Internal")
      \/ \E op \in {"Put", "Delete"}, k \in Keys :
           /\ ~Usable(n) \/ ~Usable(k)
           /\ Refuse(op, <<n, k>>, "Internal")
      \/ \E prefix \in Filters, limit \in Limits :
           IF limit < 0
           THEN Refuse("List", <<n, prefix, limit>>, "BadRequest")
           ELSE /\ ~Usable(n) \/ ~Usable(prefix)
                /\ Refuse("List", <<n, prefix, limit>>, "Internal")

Next ==
    \/ \E n \in Names :
         \/ \E k \in Keys : Put(n, k) \/ Delete(n, k)
         \/ \E r \in Scanners, prefix \in Filters, limit \in Limits :
              Ask(r, n, prefix, limit)
         \/ AskEmpty(n)
    \/ \E q \in asked : Tell(q) \/ Drop(q)
    \/ Malformed

Spec == Init /\ [][Next]_vars
=============================================================================
