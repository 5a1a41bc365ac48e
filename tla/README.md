# ms3: specifications, model checking and proofs

ms3 is a small object store in the manner of S3: four Go services that talk
HTTP. This directory holds TLA+ models of them, the TLC runs that check the
models on small instances, and theorems that TLAPS checks for all instances.
Every definition is translated from the source; `PROJECT.json` gives the lines
(`map`), what each run checks (`runs`), the hazards the properties are for
(`hazards`), the disagreements found (`findings`), and for every checked
property a plausible bug that it catches (`mutants`; the bugs are the operators
whose comment begins with "The bug of").

## 1. The system

| Component | State | Operations |
|---|---|---|
| **api-service** | none of its own; each request is a goroutine | buckets: create, delete, list; objects: put, get, head, delete, list; readiness |
| **metadata-service** | one bbolt file: `buckets`, `bucket_owner_index`, `objects`, `meta` | create, get, list, delete a bucket; put, get, list, delete an object record |
| **data-service** | a directory: `tmp/` and `<bucket>/objects/<aa>/<bb>/<hash>` | upload, download, delete a blob; readiness probe |
| **auth-service** | one bbolt file: `users`, `usernames`, `credentials`, `meta`; signed tokens in its clients' hands | register, login, refresh; issue, look up, revoke an access key |
| **each process** | its listener, its signal handler, its open store | start, bootstrap, serve, shut down |

api-service calls metadata-service and data-service one call after the other,
with no transaction over two calls and no lock. Its SigV4 check, which calls
auth-service, is commented out in `api/server.go:49`; every request acts as one
fixed user until it is enabled again. Services share no memory and no files; the
processes of one service, when one replaces another, share its port and its
file. In metadata-service and auth-service all writes go through bbolt, whose
`Update` is a serialised transaction and whose `View` is a snapshot; several
handlers need more than one transaction. data-service has no lock at all.

What is hard about each:

* **metadata-service.** `PutObject` checks the bucket in one transaction and
  writes in another. Deletion is soft, so every record may be a dead one. The
  owner index duplicates what the records say. Listings rely on the byte order
  of `name 0x00 key`. *Correct* means: index and records agree; listings are
  exact; a bucket is only deleted empty; the whole is a directory to its
  callers.
* **data-service.** Upload makes directories and renames into them while delete
  removes empty ones bottom up. A stop may leave temp files and empty
  directories. *Correct* means: the store is a set of blobs that only uploads
  add to and only deletes take from; a request keeps its temp file; uploads do
  not fail each other; no empty directory or temp file is left.
* **api-service.** A put stores the bytes, then the record, and undoes the bytes
  if the record fails; a delete removes the bytes, then the record. Bytes are
  shared between equal contents. Calls are lost, answers are lost, timed-out
  calls take effect later, either side restarts. A request acts on an owner it
  looked up in its first call. *Correct* means: a get returns what was last
  put; an object that exists has its bytes, and bytes have an object, but for
  causes the code accounts for; every request ends.
* **api-service's SigV4 check.** The key is looked up once, in another process,
  and nothing remembers a signature. *Correct* means: a request acts for who
  signed it; a revocation stops what comes after it; an outage is not a
  refusal; a repeated request dies with its window.
* **auth-service.** Registration writes two maps; issuing retries collisions;
  revocation checks, then acts. Sessions end by arithmetic alone. *Correct*
  means: usernames are unique; an access key keeps its owner; a revocation is
  authorized when it acts; a session ends.
* **processes and probes.** A process waits for the lock of its file, listens in
  a goroutine nobody waits for, and closes its store when ten seconds of
  `Shutdown` are over although handlers may run for thirty. *Correct* means: a
  file has one user and one schema version; who accepts can serve; an answer
  is true of the file; a probe reports what the services went through; nothing
  hangs.

## 2. Modules

| Module | Models | Kind |
|---|---|---|
| `MetadataRepo` | the repositories: one operator per method, one transaction each | component |
| `Metadata` | handlers and services over `MetadataRepo` | component (EXTENDS) |
| `Directory` | what metadata-service promises | abstract |
| `KeySpace` | the keys of bolt bucket `objects` as byte strings, cursor scans | component |
| `Catalog` | a set of (bucket, key) pairs with listings | abstract |
| `LocalStore` | data-service, one file system call per step | component |
| `BlobStore` | a set of blobs, its uploads and its deletes | abstract |
| `Gateway` | api-service over `Metadata` and a set of blobs | composition (EXTENDS `Metadata`) |
| `ObjectStore` | what a client of ms3 expects | abstract |
| `Credentials` | users and access keys of auth-service | component |
| `SignedRequests` | `requireSigV4` of api-service over `Credentials` | composition (EXTENDS `Credentials`) |
| `Sessions` | access and refresh tokens of auth-service | component |
| `Lifecycle` | a server process from main to exit, its store and its requests | component |
| `Readiness` | the readiness fan-out of api-service over `Lifecycle` | composition (EXTENDS `Lifecycle`) |
| `MC*` | the instances TLC checks | |
| `*Proofs` | the theorems | |

How state and actions correspond to the code:

* **MetadataRepo.** `records`, `ownerIdx`, `objects` are the bolt buckets of
  those roles. A method that writes is a relation with the error it returns as
  a parameter: an error leaves the maps as they were, since bbolt rolls back,
  also where the code has already written (an owner id with a 0x00 byte fails
  after the record was put; a deletion drops the index entry before it scans).
  A record is its owner or content and whether `DeletedAt` is set; ids and
  timestamps are left out.
* **Metadata.** One action per request that changes state, from validation to
  response. `PutObjectCheck`/`PutObjectWrite` are the two halves of
  `PutObject`; `pending` holds what the goroutine carries from one to the
  other. `Restart` may come at any time: the file stays, the requests go.
  `stale` and `lateOn` are history variables that no guard reads. Read-only
  requests are state functions (`LiveBucket`, `LiveObject`, `ListByOwner`).
* **KeySpace.** Names, keys and prefixes are sequences of bytes and `bolt` maps
  byte strings to records. A scan is `Seek` and then `Next`, one step per key,
  while the prefix matches, over `bytes.Compare` order, which is taken from
  bbolt (external). `scan` holds each open transaction: the table as it was when
  the transaction began, the keys its cursor has not passed, and the page so
  far. A listing scans in a read transaction while writers go on; the emptiness
  check of a bucket deletion scans in the write transaction, so that no put or
  delete comes between its steps. `GiveUp` is a scan that finds the context of
  its request ended. Names with a 0x00 byte are included, although
  `bucketNameRE` keeps them out of CreateBucket, because the object routes do
  not apply it.
* **LocalStore.** `dirs` and `files` are the directory tree, a path being the
  sequence of its components. Each `os` call is a step: `CreateTemp`, the
  `Stat`s and `Mkdir`s of `os.MkdirAll`, `Rename`, `Remove` of the file, and
  `Remove` of each directory on the climb. `Restart` forgets requests and runs
  `NewLocalStore`. Renames and removals are taken as durable. `swept`, the
  uploads whose directory a climb has removed, and `restarted` are history.
* **BlobStore.** `call` is what each client has asked for. An upload adds its
  own content, in the step that answers 201; a delete takes its own content
  away, once, in a step before the one that answers 204; every other answer
  comes with no change, and a restart forgets the calls and keeps the blobs.
  What a request of `LocalStore` asks for is read off its state (`AskedFor`): a
  climb is a delete that has taken effect.
* **Gateway.** `slot` holds the requests in progress and `pc` the upstream call
  each makes next; authorization is the call a request begins with. A HEAD is
  answered by its lookup, a listing of objects by its second call, which holds
  at most `ListLimit` keys (1000 in the code) and does not say that there are
  more. A call to data-service is one step, which changes the blobs as
  `BlobStore` does in the step that stores or drops. Faults: `CallLost` (never
  arrived), `ResponseLost` (took effect, unheard of), `FirstLost` (the same for
  a request's first call), `GwRestart`, `MetaRestart`; `LateWrite` is
  metadata-service finishing a put whose caller has given up. A restart of
  data-service is a call that is lost, or whose response is. An undo
  may fail in silence at any time, as the code ignores its error and its
  context may have ended. History: `shared` (blobs that had two users),
  `torn` (those of requests a fault has hit), `strays` (those an overwrite, a
  put that crossed a delete, or a failed undo has left), `moved` (requests
  whose bucket has been deleted under them). A key's way through a URL is the
  constant `UrlKey`.
* **Credentials.** The bolt buckets as functions; `call` holds the requests that
  need several transactions. The id in a caller's token need not be registered.
  No code path sets `IsAdmin`, so the admin branches are not taken.
* **SignedRequests.** `check` holds the goroutines in `requireSigV4`: the lookup
  is a call to auth-service that may fail, the verification compares date and
  signature. A signature is the key, the date and who made it; canonical form
  and HMAC are abstracted to that. `signed` requests may be sent again at any
  time. `first`, and `was` and `early` of a check, are history. No action of the
  check changes auth-service.
* **Sessions.** `tokens` is every token ever minted and any of them may be
  presented at any time; a signature is taken to be unforgeable. `since` is
  history. Users are never removed, so `Refresh` finds its user.
* **Lifecycle.** `phase` is where `main` is, `listening` and `trapping` what its
  goroutine and `signal.Notify` have done, in either order. `lock` and `stamp`
  are the file's; bolt buckets and stamp are made in one transaction, so one
  variable stands for both. `call` is a request from acceptance over its
  transactions to its response, or to being cut. `Drain` is the end of
  `Shutdown`, with or without requests in progress; `Close` waits for open
  transactions, as bbolt's `Close` does. Signals come at any time, also before
  they are trapped; so do kills. `excused` is history.
* **Readiness.** `ping` is one goroutine per service, `late` those that the
  deadline cut short, `upSeen` and `downSeen` what the services have been
  through since the probe began. The mutex is the atomicity of noting a result.
  A ping asks `/healthz/live`, so it hears from any process that listens.

## 3. Runs

Each passing run explores its whole state space. Sizes are distinct states.

| Run | States | Bounds | Shows |
|---|---|---|---|
| `metadata` | 18 718 | 2 valid names and a bad one, 2 owners and one with 0x00, 1 key and one with 0x00, 2 contents, 2 puts in flight | the inductive invariant, exact listings, `BucketLifecycle`; `Metadata` implements `Directory` |
| `keyspace` | 55 017 | 3 names that begin with one another (one with 0x00), 3 keys, 4 prefixes, pages of 1 and 2, 1 scanner | the inductive invariant; `KeySpace` implements `Catalog` |
| `localstore` | 110 747 | 3 requests, 2 contents with a common shard directory, 2 temp names | temp files and `tmp/`, clean-up, uploads fail only by a climb under them, `LocalStore` implements `BlobStore` |
| `gateway` | 664 199 | 2 requests, 2 users, 2 keys, 1 content, 2 puts in metadata-service, 1 fault | the inductive invariant; objects without bytes and bytes without objects are explained; a request acts for the owner |
| `gateway_turns` | 301 403 | 1 request at a time, 2 users, 3 keys (one with 0x00) and none, 4 contents, listings of 1, no faults | `Gateway` implements `ObjectStore` |
| `gateway_live` | 346 854 | 1 request at a time, 2 keys of which one becomes the other in a URL, 2 puts in metadata-service, 1 fault | every request ends |
| `credentials` | 1 275 312 | 2 ids, 2 usernames and a bad one, 3 access keys, 2 calls, 2 attempts; 1 signed request, 1 check, skew 1, 4 seconds | uniqueness, ownership and revocation in auth-service; who a signed request acts for, what stops it, and why it is refused |
| `readiness` | 327 894 | 2 metadata-service binaries with schema 1 and 2 on one file, a data-service, 3 starts, 1 write | the processes and their file, what a shutdown cuts, what a probe says, and that all of it ends |
| `sessions` | 346 491 | 1 user, lifetimes 2 and 3, 6 seconds | sessions end |

Why these bounds suffice for what they are asked: the races are between two
requests on one name, key or directory (a third upload lets a climb meet two
uploads at different depths); two owners distinguish a bucket from its
re-creation; two contents distinguish an overwrite, and in `gateway` one content
makes every pair of requests share bytes, which is the harder case; three byte
strings that continue one another are every way one can be a prefix of another
across the separator, and one scanner meets every put and delete between two of
its steps, while two never look at one another; one fault is enough for every race of a late write, since
the undo may fail without one. `ListLimit` 1 cuts a listing of two. Three
access keys let one be revoked, one collide and one be fresh. Two binaries of
different versions meet as an upgrade and as a downgrade, and the third start
is the return of the first. The clock of `sessions` covers a login, the whole
life of its refresh token and an access token minted at its last second; that
of `credentials` a date from one window before to two after. `MaxRetries` is 5
in the code and 2 in the run: a first attempt that is retried and a last one
that is not. `MaxFaults`, `MaxStarts`, `MaxTime` and `TempNames` are the only
bounds on unbounded things.

The inductive invariants `MetadataInv`, `KeyInv`, `GatewayInv`, `LifeInv` contain
the type invariants of their modules, so these runs check them as one.
`gateway_turns` also evaluates that its clients meet `TakingTurns`, the
hypothesis of the theorem about them (`TurnsAssumption` in `MCGateway`).

Symmetry is used where names, owners, keys, handlers, slots or requests are
interchangeable and only safety is checked. Several runs have a view that
leaves out the last response, which no guard reads: one state stands for all
the responses that may have led to it, while the abstract specifications, whose
answers name the request they answer, are still compared on every step TLC
takes.

**Fairness.** Two runs assume any.

* `gateway_live`: weak fairness of each request's next call and of each put
  inside metadata-service. Each has its goroutine, which the Go scheduler runs,
  and every upstream call has a deadline, so an enabled step is taken. There is
  no fairness of faults, arrivals or undo success.
* `readiness`: weak fairness of what main and the handlers do by themselves.
  The wait for the lock has a timeout of a second, `Shutdown` one of ten, a ping
  one of three, and `Close` waits for transactions that end. Nothing makes a
  process start, accept a request or be asked to stop, a lock become free, or a
  ping arrive.

### Disagreements found

The runs that expect a violation check what a document says and find that the
code does otherwise; the counterexample is the scenario.

| Run | Document says | Code does |
|---|---|---|
| `metadata_orphan` | no upload slips into the gap of a bucket deletion | an upload has a gap of its own, between its check and its write |
| `localstore_tmp_bucket` | `tmp/` is made up front, with nothing to set up | deleting from a bucket named `tmp` removes it |
| `gateway_shared` | bytes go when metadata no longer refers to them | they go with another object of the same content |

`BytesKeptWhileReferenced`, the property of `gateway_shared`, fails in two more
ways that `Gateway` has: the undo of a refused put of content that is already
stored, and the undo of a put that was saved and whose response was lost.
More behaviours are in the models and have no run of their own:

* a 0x00 byte in a key is refused with 500, where
  `metadata-service/docs/design.md:122-124` says 400 (`MetadataRepo!ObjectPut`
  fails with an internal error);
* a climb may remove the directory of an upload inside its `MkdirAll`, or
  between that and its `Rename`, and the upload then fails with 500 and leaves
  its temp file if it was at the rename (actions `Mkdir` and `Rename`;
  `UploadsGoThrough` says that nothing else fails an upload that has its body);
* an older file is refused by a newer binary (action `Refuse`), where
  `metadata-service/docs/design.md:255-257` says that it is migrated, and
  stamped anew, as the TODO at `metadata-service/internal/store/schema.go:31-34`
  adds: no version but 1 exists, and the code answers "migration ... not
  implemented yet". Once a migration is written, `Refuse` is for newer files
  only and `Bootstrap` takes the older ones; `StoreGuarded`, that an open file
  has the version of its binary, is what must still hold then;
* the climb ends at `<dir>/objects`, so the empty directory of a bucket named
  `objects` stays (`NoEmptyDirLeft` excepts it);
* a key with `?` or `#` is stored under one name and looked up under another, so
  it cannot be read back (constant `UrlKey`, which the run `gateway_live` gives
  such a key);
* nothing collects the bytes of an overwritten object: no action does, and
  `GarbageExplained` counts them among `strays`;
* a listing of more objects than its limit ends there and does not say so
  (action `List`, promised as weakly by `ObjectStore`);
* a readiness answer of 200 does not mean that the services were all up
  together: each was, at some time of the probe (`ReadyMeansUp`).

`DanglingExplained` and `GarbageExplained` are the other side of these: shared
content, faults, half-done and crossed deletes, overwrites and undos that
failed are the only ways objects and bytes come apart.

## 4. Proofs

All theorems hold for every value of the constants that meets the named
assumptions of the modules (`RepoAssumption`, `MetadataAssumption`,
`KeySpaceAssumption`, `GatewayAssumption`, `FreeAssumption`, `CredentialsAssumption`,
`SignedAssumption`, `SessionsAssumption`, `LifecycleAssumption`). They say that
special values such as `NoRecord` differ from ordinary ones, that bounds are
naturals, and how the constant sets include one another. TLC evaluates them in
the runs.

* **MetadataProofs.** `OwnerListingExact` is not inductive: it needs the index
  to be exact (`OwnerIndexExact`). `OrphanOnlyByLatePut` needs
  `CheckStillHolds`: a put in flight that no deletion has overtaken still has
  its bucket. Their conjunction with `TypeOK` is `MetadataInv`, inductive, and
  checked by the run `metadata` as well. One lemma per repository operation
  says what it preserves; the service actions use those. `BucketLifecycle`
  follows from a step of the repository. `Refinement` takes the soft-deleted
  and index state away step by step: each transaction maps to the directory
  operation with the same answer, `PutObjectCheck` and `Restart` to a stutter
  or a refusal.
* **KeySpaceProofs.** `Before` is shown to be a strict total order of byte
  strings, so that a finite set of keys has a first one, which is what a cursor
  is at. (That it has a minimal element is by well-foundedness of the subsets of
  a finite set, since the library's induction theorems cannot be used.) The keys
  that begin with a prefix lie together in this order (`PrefixRange`), the key
  of a pair begins with the prefix of its own bucket only (`KeyPrefix`), and
  encoding is injective and keeps the order within a bucket (`KeyInjective`,
  `KeyOrder`). `KeyInv` says of a scan that its cursor began at the prefix and
  has passed a beginning of the order, and that its page is the passed live
  objects, in order; of an emptiness check, that it has found none and that the
  table is still the one it sees. `KeysImplementCatalog` maps the steps of a
  cursor to stutters and the end of a listing to the catalog's answer, about
  the pairs there were when it began. It holds for any number of scanners.
* **LocalStoreProofs.** Lemma `TreeStep`, that whatever exists lies in a
  directory that exists (`WholeTree`), is what the file system gives, since
  creating needs the parent and a removal checks emptiness in the same call; it
  is no property of the store, and the others rest on it. The theorems hold for
  every set of buckets, also when one named `tmp` makes the climb take `tmp/`
  and the data directory away, which no passing run includes; only
  `TmpDirKept` assumes that there is none of that name. `OwnTempFile` needs `TempInv`: what is
  held in `req` is a temp file, exists, and no other request has it, and no
  path of a stored file is that of a temp file (`PathsApart`, also for a
  bucket named `tmp`). `TypeOK` needs both: the walk of `Stat` comes to an end
  because a request that has a temp file still has the data directory above
  it. `NoEmptyDirLeft` is about the time between requests and gets the
  strengthening `EmptySettled`: whenever a directory is empty, some request
  settles it (a climb is about to remove it, or an upload to fill it), unless
  a restart has cut one short. A directory is emptied only by a removal of its
  last child, which leaves its climber behind (`EmptiedBefore`,
  `ClimbSettles`). `UploadsGoThrough` gets the invariant `StandsFirm`: an upload
  stands on the directory it has found or made last, until a climb removes it
  and marks the upload as swept; so its next `Mkdir` finds the parent and its
  `Rename` the shard directory (`EndsWell`). `TmpDirStays` gets `TmpSpared`: no
  climb is ever at `tmp/`, because the directories above a stored file begin
  with the name of its bucket (`AboveTmp`), and one that comes to the data
  directory finds `tmp/` in it. `Refinement` maps the file tree to `Stored` and
  the requests to `Asked`: `Rename` is the upload's step, `RemoveFile` the
  delete's, and they change the content of their own request only, because
  different contents have different paths (`PathsApart`); every other step is
  shown to leave `Stored` alone (`StoredSame`, `StoredApart`), climbs, failed
  uploads, probes and restarts included. There is no assumption on `Shard`: the
  hash is the last component of its path.
* **GatewayProofs.** `MetadataInGateway` shows that api-service makes
  metadata-service behave as `Metadata` says, so that everything proved in
  `MetadataProofs` holds of the composition. `DanglingExplained` is not
  inductive: whether a put may lose its bytes depends on what the other
  requests hold. `GatewayInv` adds, for each slot, what the handler carries
  (`CarriedOver`), that a put inside metadata-service is the put of exactly one
  slot or of one that gave up (`PendingMatched`), that a put that goes on has
  its bytes (`PutsBacked`) and that a delete removes those of the object it
  looked up (`DeletesOwn`). Each action is first reduced to a few facts about
  it: how its slot moves, what happens to the blobs, and which references
  appear and disappear; lemma `AllFacts` collects them over `GatewayNext`. The
  five parts of the invariant and `GarbageExplained` (`HandlersStep`,
  `PutsBackedStep`, `DeletesOwnStep`, `DanglingStep`, `GarbageStep`) follow
  from these facts alone. The theorems hold for any number of faults and
  requests and for every `UrlKey`, also for keys that do not survive a URL.
  `OwnerUntilDeleted` needs of metadata-service that a bucket keeps its owner
  while it lives (`OwnerKept`).

  `TurnsImplementStore` says that `Gateway` implements `ObjectStore` under
  `TakingTurns`: one request at a time, no faults, keys that survive a URL, and
  each content put under one key. Each part is needed: concurrent puts and
  deletes, lost answers, a `?` in a key, and shared content all let a get fail
  or find nothing, as `DanglingExplained` and the list in section 3 tell.
  `TurnsInv` adds to `GatewayInv` that what the one request has looked up still
  holds (`NoneDisturbed`), and that every object has bytes put under its own
  key, but for the one whose deletion is between its two calls
  (`ContentsKept`). `OnlyTurns` shows that no fault and
  no late write can occur; then every upstream call is one lemma for the
  invariant (`...Turns`) and one for the answer (`...Stores`), over what
  metadata-service answers and does (`...Answered`). The answer of a listing of
  buckets needs the owner index to be exact, which `MetadataInGateway` brings in
  from `MetadataProofs`.
* **CredentialsProofs.** `CredentialsInv` adds what a call carries between its
  transactions: an issue in its loop has a registered user, a revocation has a
  key of its caller. Lemma `Writes` lists the four things a step may do to the
  maps; everything else follows from it.
* **SignedRequestsProofs.** `SignedInv` says of each check that what it has
  found out about its key still holds: keys keep their owner and stay revoked
  (`KeysLast`, from `CredentialsProofs`). From it the principal is the signer,
  a revocation stops what comes after it, and a refusal has its reason.
  `ReplaysEnd` adds that a request was first admitted within the window of its
  date, so that the last admission is two windows later at most.
* **LifecycleProofs.** `LifeInv` ties the phase of `main` to lock, store and
  listener: from the lock to the end of the close the file is the process's
  own (`LockHeld`), the store is open exactly from bootstrap to close
  (`OpenWhileServing`), and a handler runs in a process that listens, drains,
  or has run out of its ten seconds (`HandlersPlaced`). `StoreGuarded`,
  `ListeningIsOpen`, `CutsExplained` and `AnswersTrue` are parts or
  consequences of it. Lemmas for the end of a process (`Gone`) and for the
  steps of one request keep the cases short. The same module has the theorems
  about `Readiness`: a probe changes nothing of the processes
  (`LifecycleInReadiness`). `PingsWitnessed` says that a ping that has come
  back found its service up since the probe began, and one that failed found it
  down or was cut short; the two answers follow.
* **SessionsProofs.** `SessionsInv` adds that every token has the refresh token
  of its login beside it, so that a chain of refreshes always goes back to one
  expiry.

Only model-checked: liveness under fairness (`RequestsEnd`, `NoneHangs`,
`ProbeEnds`), which TLAPS does not handle. Every other property of a passing run
is a theorem.

## 5. Not modelled

* **Configuration, DTOs**: environment variables and field-by-field copies, with
  no state and no ordering.
* **Demo and umbrella main**: a printout of one scripted session, and an empty
  program.
* **Durability below the file system**: data-service never syncs, so a power
  failure may lose more than `Restart` does.
* **Deadlines as durations**: any call may be lost at any time instead, which
  includes the router's 30 seconds cutting off the five minutes meant for
  streaming, and `Shutdown` may end at any time.
* **Canonical requests and the HMAC** of SigV4: string processing; a signature
  is who made it. Hashes, AES-GCM and bcrypt likewise.
* Size, ETag and content type of an object; the prefix of a listing as
  api-service passes it on (`KeySpace` has it); `GET` streams that break off.
* The owner index at the level of bytes: it uses the encoding and the scans of
  `KeySpace`.

## 6. Plan

Done: every component with state or ordering of its own, and the proofs of
section 4.

Next, in this order:

1. `Gateway` over `LocalStore` instead of a set of blobs: the failed rename seen
   by a client, the leaked temp file.
2. A write-back cache under `LocalStore`: what a power failure may leave of a
   blob whose record is committed.
3. `KeySpace` for the owner index, whose keys are encoded and scanned in the
   same way.
