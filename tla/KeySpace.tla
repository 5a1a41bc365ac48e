------------------------------ MODULE KeySpace ------------------------------
(***************************************************************************)
(* The bolt bucket "objects" of metadata-service, byte by byte: the keys   *)
(* the object repository builds from a bucket name and an object key, and  *)
(* the cursor scans that lean on their order.                              *)
(*                                                                         *)
(* MetadataRepo takes (name, key) pairs for granted.  Here a pair is one   *)
(* byte string, neighbours of other buckets lie right before and after it, *)
(* and a scan is a Seek followed by Nexts while the prefix matches, one    *)
(* step each.  A listing scans in a read transaction, which sees the       *)
(* snapshot it began with while writers go on; the emptiness check of a    *)
(* bucket deletion scans in a write transaction, which has the file to     *)
(* itself.                                                                 *)
(***************************************************************************)
EXTENDS Integers, Sequences, FiniteSets, SequencesExt

CONSTANTS
    Names,              \* bucket names, as byte sequences
    Keys,               \* object keys
    Filters,            \* what ?prefix= may hold
    Limits,             \* what ?limit= may hold; 0 when it is absent
    DefaultLimit,       \* the page size of a listing without a limit
    Scanners            \* goroutines that may be in a scan

ASSUME KeySpaceAssumption ==
    /\ Names \union Keys \union Filters \subseteq Seq(0..255)
    /\ Limits \subseteq Int
    /\ DefaultLimit \in Nat

VARIABLES
    bolt,               \* byte string -> the object stored under it
    scan,               \* scanner -> its transaction
    answer              \* the last request, its error and its page

vars == <<bolt, scan, answer>>

keySeparator == 0

\* ValidateKeyComponent.
ValidateKeyComponent(value) == \A i \in DOMAIN value : value[i] # keySeparator

\* The bug of joining the parts without a separator.
ObjectKeyJoined(n, k) == n \o k

\* ObjectKey, and ObjectListPrefix with the user's prefix as k.
ObjectKey(n, k) == n \o <<keySeparator>> \o k

Object == [name : Names, key : Keys, deleted : BOOLEAN]

\* Objects are stored under their keys.
IsTable(t) ==
    \A x \in DOMAIN t : t[x] \in Object /\ x = ObjectKey(t[x].name, t[x].key)

\* The part of a key that a scan looks for, and the limit of its page.
Under(c) == ObjectKey(c.name, c.prefix)
Size(c) == IF c.limit = 0 THEN DefaultLimit ELSE c.limit

\* No transaction, or one that scans: what it sees, which keys its cursor has
\* not passed, and what it has found.
NoScan == [op |-> "None"]

IsScan(c) ==
    /\ c = [op |-> c.op, name |-> c.name, prefix |-> c.prefix, limit |-> c.limit,
            snap |-> c.snap, rest |-> c.rest, page |-> c.page]
    /\ c.op \in {"List", "AskEmpty"}
    /\ c.name \in Names
    /\ c.prefix \in Filters \union {<< >>}
    /\ c.limit \in Nat
    /\ IsTable(c.snap)
    /\ c.rest \subseteq DOMAIN c.snap
    /\ c.page \in Seq(Keys)

IsAnswer(a) ==
    /\ a.op \in {"None", "Put", "Delete", "List", "AskEmpty"}
    /\ a.err \in {"none", "ok", "NotFound", "NotEmpty", "Internal", "BadRequest"}
    /\ a.page \in Seq(Keys)

TypeOK ==
    /\ IsTable(bolt)
    /\ scan = [s \in Scanners |-> scan[s]]
    /\ \A s \in Scanners : scan[s] = NoScan \/ IsScan(scan[s])
    /\ IsAnswer(answer)

\* The answer err to a request op with the parameters at.
Answer(op, at, err) == [op |-> op, at |-> at, err |-> err, page |-> << >>]

\* An object that is stored and not soft-deleted.
Live(x) == x \in DOMAIN bolt /\ ~bolt[x].deleted

Init ==
    /\ bolt = << >>
    /\ scan = [s \in Scanners |-> NoScan]
    /\ answer = Answer("None", << >>, "none")

-----------------------------------------------------------------------------
(* Writes.  A bucket deletion that scans has the one write transaction.    *)

Idle(s) == scan[s] = NoScan

WriterFree == \A s \in Scanners : Idle(s) \/ scan[s].op # "AskEmpty"

\* The bug of a put that stores the encoded key in the record.
PutStoresPath(n, k) ==
    /\ WriterFree
    /\ LET x == ObjectKey(n, k)
       IN  bolt' = [y \in DOMAIN bolt \union {x} |->
                      IF y = x THEN [name |-> n, key |-> x, deleted |-> FALSE]
                               ELSE bolt[y]]
    /\ answer' = Answer("Put", <<n, k>>, "ok")
    /\ UNCHANGED scan

\* BoltObjectRepository.Put.
Put(n, k) ==
    /\ WriterFree
    /\ \/ /\ ValidateKeyComponent(n) /\ ValidateKeyComponent(k)
          /\ LET new == [name |-> n, key |-> k, deleted |-> FALSE]
             IN  bolt' = [x \in DOMAIN bolt \union {ObjectKey(n, k)} |->
                            IF x = ObjectKey(n, k) THEN new ELSE bolt[x]]
          /\ answer' = Answer("Put", <<n, k>>, "ok")
       \/ /\ ~ValidateKeyComponent(n) \/ ~ValidateKeyComponent(k)
          /\ answer' = Answer("Put", <<n, k>>, "Internal")
          /\ UNCHANGED bolt
    /\ UNCHANGED scan

\* BoltObjectRepository.Delete.
Delete(n, k) ==
    LET x == ObjectKey(n, k)
        valid == ValidateKeyComponent(n) /\ ValidateKeyComponent(k)
    IN  /\ WriterFree
        /\ \/ /\ ~valid
              /\ answer' = Answer("Delete", <<n, k>>, "Internal")
              /\ UNCHANGED bolt
           \/ /\ valid
              /\ ~Live(x)
              /\ answer' = Answer("Delete", <<n, k>>, "NotFound")
              /\ UNCHANGED bolt
           \/ /\ valid
              /\ Live(x)
              /\ bolt' = [bolt EXCEPT ![x].deleted = TRUE]
              /\ answer' = Answer("Delete", <<n, k>>, "ok")
        /\ UNCHANGED scan

-----------------------------------------------------------------------------
(* Scans.                                                                  *)

\* The order of a bbolt B+tree: bytes.Compare.
Before(s, t) ==
    \/ IsStrictPrefix(s, t)
    \/ \E i \in DOMAIN s \intersect DOMAIN t :
         s[i] < t[i] /\ \A j \in 1..i - 1 : s[j] = t[j]

\* The key a cursor is at when it has passed all but those of keys.
First(keys) == CHOOSE x \in keys : \A y \in keys : x = y \/ Before(x, y)

\* A transaction begins and its cursor seeks the first key under the prefix.
Seek(s, op, n, prefix, limit) ==
    /\ scan' = [scan EXCEPT ![s] =
                  [op |-> op, name |-> n, prefix |-> prefix, limit |-> limit,
                   snap |-> bolt, page |-> << >>,
                   rest |-> {x \in DOMAIN bolt : ~Before(x, ObjectKey(n, prefix))}]]
    /\ UNCHANGED <<bolt, answer>>

\* The cursor is at the end, or at a key without the prefix.
Over(c) == c.rest = {} \/ ~IsPrefix(Under(c), First(c.rest))

\* The object the cursor is at.
Current(c) == c.snap[First(c.rest)]

\* Next, with the page there is by then.
Pass(c, page) == [c EXCEPT !.rest = c.rest \ {First(c.rest)}, !.page = page]

Respond(s, err, page) ==
    /\ answer' = [op |-> scan[s].op, err |-> err, page |-> page,
                  at |-> IF scan[s].op = "List"
                         THEN <<scan[s].name, scan[s].prefix, scan[s].limit>>
                         ELSE <<scan[s].name>>]
    /\ scan' = [scan EXCEPT ![s] = NoScan]
    /\ UNCHANGED bolt

\* listObjects: the handler refuses a negative limit, the repository a
\* component with a separator byte.
List(s, n, prefix, limit) ==
    /\ Idle(s)
    /\ \/ /\ limit < 0
          /\ answer' = Answer("List", <<n, prefix, limit>>, "BadRequest")
          /\ UNCHANGED <<bolt, scan>>
       \/ /\ limit >= 0
          /\ ~ValidateKeyComponent(n) \/ ~ValidateKeyComponent(prefix)
          /\ answer' = Answer("List", <<n, prefix, limit>>, "Internal")
          /\ UNCHANGED <<bolt, scan>>
       \/ /\ limit >= 0
          /\ ValidateKeyComponent(n) /\ ValidateKeyComponent(prefix)
          /\ Seek(s, "List", n, prefix, limit)

Listing(s) ==
    /\ ~Idle(s)
    /\ scan[s].op = "List"
    /\ ~Over(scan[s])
    /\ Len(scan[s].page) < Size(scan[s])

\* The bug of a listing that does not look at DeletedAt.
ListMoreDeleted(s) ==
    /\ Listing(s)
    /\ scan' = [scan EXCEPT ![s] = Pass(@, Append(@.page, Current(@).key))]
    /\ UNCHANGED <<bolt, answer>>

\* BoltObjectRepository.List: append the object unless it is deleted, Next.
ListMore(s) ==
    /\ Listing(s)
    /\ scan' = [scan EXCEPT ![s] =
                  Pass(@, IF Current(@).deleted THEN @.page
                          ELSE Append(@.page, Current(@).key))]
    /\ UNCHANGED <<bolt, answer>>

\* The page is full or the prefix at its end.
ListDone(s) ==
    /\ ~Idle(s)
    /\ scan[s].op = "List"
    /\ ~Listing(s)
    /\ Respond(s, "ok", scan[s].page)

\* The part of BoltBucketRepository.Delete that looks for live objects.
AskEmpty(s, n) ==
    /\ Idle(s)
    /\ WriterFree
    /\ \/ /\ ~ValidateKeyComponent(n)
          /\ answer' = Answer("AskEmpty", <<n>>, "Internal")
          /\ UNCHANGED <<bolt, scan>>
       \/ /\ ValidateKeyComponent(n)
          /\ Seek(s, "AskEmpty", n, << >>, 0)

Asking(s) ==
    /\ ~Idle(s)
    /\ scan[s].op = "AskEmpty"
    /\ ~Over(scan[s])

AskMore(s) ==
    /\ Asking(s)
    /\ Current(scan[s]).deleted
    /\ scan' = [scan EXCEPT ![s] = Pass(@, @.page)]
    /\ UNCHANGED <<bolt, answer>>

AskDone(s) ==
    \/ /\ Asking(s)
       /\ ~Current(scan[s]).deleted
       /\ Respond(s, "NotEmpty", << >>)
    \/ /\ ~Idle(s)
       /\ scan[s].op = "AskEmpty"
       /\ ~Asking(s)
       /\ Respond(s, "ok", << >>)

\* The context of the request has ended, which a scan looks at for each key.
GiveUp(s) ==
    /\ Listing(s) \/ Asking(s)
    /\ Respond(s, "Internal", << >>)

Next ==
    \/ \E n \in Names, k \in Keys : Put(n, k) \/ Delete(n, k)
    \/ \E s \in Scanners :
         \/ \E n \in Names :
              \/ \E prefix \in Filters, limit \in Limits : List(s, n, prefix, limit)
              \/ AskEmpty(s, n)
         \/ ListMore(s) \/ ListDone(s) \/ AskMore(s) \/ AskDone(s) \/ GiveUp(s)

Spec == Init /\ [][Next]_vars

-----------------------------------------------------------------------------
(* Properties.                                                             *)

LivePairs(t) == {<<t[x].name, t[x].key>> : x \in {y \in DOMAIN t : ~t[y].deleted}}

\* What the listing of scanner s asks for.
Listed(s, c) == [by |-> s, name |-> c.name, prefix |-> c.prefix, limit |-> c.limit,
                 seen |-> LivePairs(c.snap)]

Asked == {Listed(s, scan[s]) : s \in {r \in Scanners : scan[r].op = "List"}}

\* The keys keep buckets and objects apart: a put or a delete touches its own
\* pair only, a listing shows its own bucket only, in key order and as it was
\* at one moment, and the emptiness check of a bucket deletion sees its own
\* objects only, whatever bytes the names and keys hold and whichever name
\* begins with another.
Pairs == INSTANCE Catalog WITH live <- LivePairs(bolt), asked <- Asked

ImplementsCatalog == Pairs!Spec

-----------------------------------------------------------------------------
(* The inductive invariant of the proofs.                                  *)

\* A table of finitely many objects whose parts have no separator in them.
Encodable(t) ==
    /\ IsFiniteSet(DOMAIN t)
    /\ \A x \in DOMAIN t : /\ ValidateKeyComponent(t[x].name)
                           /\ ValidateKeyComponent(t[x].key)

\* What a scan is after: the live objects under its prefix.
Wanted(c) == {x \in DOMAIN c.snap : IsPrefix(Under(c), x) /\ ~c.snap[x].deleted}

\* The cursor began at the prefix and moves up.
CursorPlaced(c) ==
    /\ Encodable(c.snap)
    /\ ValidateKeyComponent(c.name) /\ ValidateKeyComponent(c.prefix)
    /\ \A x \in c.rest : ~Before(x, Under(c))
    /\ \A x \in c.rest, y \in DOMAIN c.snap : Before(x, y) => y \in c.rest

\* The page of a listing is what the cursor has passed of the wanted, in order.
PageCollected(c) ==
    /\ Len(c.page) <= Size(c)
    /\ \A i, j \in DOMAIN c.page : i < j => Before(c.page[i], c.page[j])
    /\ \A i \in DOMAIN c.page : ObjectKey(c.name, c.page[i]) \in Wanted(c) \ c.rest
    /\ \A x \in Wanted(c) \ c.rest : \E i \in DOMAIN c.page : c.page[i] = c.snap[x].key

\* An emptiness check looks for any object and has found none yet.
NothingFound(c) == c.prefix = << >> /\ Wanted(c) \subseteq c.rest

ScanSound(c) ==
    /\ CursorPlaced(c)
    /\ c.op = "List" => PageCollected(c)
    /\ c.op = "AskEmpty" => NothingFound(c)

\* An emptiness check has the file to itself.
KeyInv ==
    /\ TypeOK
    /\ Encodable(bolt)
    /\ \A s \in Scanners : scan[s] # NoScan =>
         /\ ScanSound(scan[s])
         /\ scan[s].op = "AskEmpty" => scan[s].snap = bolt
=============================================================================
