----------------------------- MODULE LocalStore -----------------------------
(***************************************************************************)
(* data-service on a local directory: the file system calls of             *)
(* backend/localfs, one step each, and the handlers around them.           *)
(*                                                                         *)
(* Write copies the body into a file of its own under tmp/, makes the      *)
(* shard directories, and renames the file into place.  Delete removes the *)
(* file and then climbs, removing directories until one is not empty.      *)
(* Nothing serialises the two, so a climb may take a directory away        *)
(* between another request's MkdirAll and its Rename.                      *)
(*                                                                         *)
(* A path is the sequence of its components below the data directory,      *)
(* which is itself << >>.                                                  *)
(***************************************************************************)
EXTENDS Naturals, Sequences, FiniteSets

CONSTANTS
    Requests,           \* goroutines serving uploads and deletes
    Namespaces,         \* the bucket names requests use as namespaces
    Hashes,             \* the contents, by their sha256
    Shard(_),           \* hash -> <<hash[0:2], hash[2:4]>>
    TempNames,          \* names CreateTemp may pick: bounds the files in tmp/
    NoAnswer

VARIABLES
    dirs,               \* the directories that exist
    files,              \* the regular files that exist
    req,                \* request -> what its handler is doing
    answer,             \* the last response sent
    swept,              \* history: uploads whose directory a climb has removed
    restarted           \* history: the process was stopped in mid-request

vars == <<dirs, files, req, answer, swept, restarted>>

Base == << >>
TmpDir == <<"tmp">>
Parent(p) == SubSeq(p, 1, Len(p) - 1)
Children(d) == {p \in dirs \union files : p # Base /\ Parent(p) = d}

\* getShardedPath and the directory it lies in.
ShardedPath(ns, h) == <<ns, "objects", Shard(h)[1], Shard(h)[2], h>>
ShardDir(ns, h) == Parent(ShardedPath(ns, h))

\* The directories above it, from the data directory, with depth 0, to the
\* shard directory, with depth 4.
Above(ns, h, depth) == SubSeq(ShardDir(ns, h), 1, depth)

TempFiles == {<<"tmp", t>> : t \in TempNames}
FinalFiles == {ShardedPath(ns, h) : ns \in Namespaces, h \in Hashes}

\* What can be downloaded: Read opens the file at the sharded path.
Stored == {x \in Namespaces \X Hashes : ShardedPath(x[1], x[2]) \in files}

Idle == [pc |-> "idle"]

\* An upload has its temp file; "stat" and "mkdir" also have the depth of the
\* directory os.MkdirAll looks at or makes next.  A delete has its path, and
\* "climb" the directory it is about to remove.  A probe has its temp file.
Work ==
    [pc : {"copy", "rename"}, ns : Namespaces, hash : Hashes, tmp : TempFiles]
      \union
    [pc : {"stat", "mkdir"}, ns : Namespaces, hash : Hashes, tmp : TempFiles,
     depth : 0..4]
      \union
    [pc : {"probe"}, tmp : TempFiles]
      \union
    [pc : {"remove"}, ns : Namespaces, hash : Hashes]
      \union
    [pc : {"climb"}, at : {Above(ns, h, n) : ns \in Namespaces, h \in Hashes, n \in 0..4}]

\* The directories there may be, and the responses.
TreeDirs ==
    {Base, TmpDir} \union {Above(ns, h, n) : ns \in Namespaces, h \in Hashes, n \in 1..4}

Answers == [status : {200, 201, 204, 500, 503},
            ref : (Namespaces \X Hashes) \union {NoAnswer}]

TypeOK ==
    /\ dirs \subseteq TreeDirs
    /\ files \subseteq TempFiles \union FinalFiles
    /\ req \in [Requests -> Work \union {Idle}]
    /\ answer \in Answers \union {NoAnswer}
    /\ swept \subseteq Requests
    /\ restarted \in BOOLEAN

\* NewLocalStore on a fresh data directory.
Init ==
    /\ dirs = {Base, TmpDir}
    /\ files = {}
    /\ req = [r \in Requests |-> Idle]
    /\ answer = NoAnswer
    /\ swept = {}
    /\ restarted = FALSE

Goto(r, work) == req' = [req EXCEPT ![r] = work]

Finish(r, status) ==
    /\ Goto(r, Idle)
    /\ answer' = [status |-> status, ref |-> NoAnswer]
    /\ swept' = swept \ {r}

\* An upload is answered with the bucket and hash of what it stored.
Stores(r) ==
    /\ Goto(r, Idle)
    /\ answer' = [status |-> 201, ref |-> <<req[r].ns, req[r].hash>>]
    /\ swept' = swept \ {r}

-----------------------------------------------------------------------------
(* Upload: HandleUpload and LocalStore.Write.                              *)

\* The bug of temp files that are not made exclusively.
StartUploadAnyTemp(r, ns, h) ==
    /\ req[r] = Idle
    /\ TmpDir \in dirs
    /\ \E tmp \in TempFiles :
         /\ files' = files \union {tmp}
         /\ Goto(r, [pc |-> "copy", ns |-> ns, hash |-> h, tmp |-> tmp])
    /\ UNCHANGED <<dirs, answer, swept, restarted>>

\* os.CreateTemp: fails when tmp/ is gone.
StartUpload(r, ns, h) ==
    /\ req[r] = Idle
    /\ \/ /\ TmpDir \in dirs
          /\ \E tmp \in TempFiles \ files :
               /\ files' = files \union {tmp}
               /\ Goto(r, [pc |-> "copy", ns |-> ns, hash |-> h, tmp |-> tmp])
          /\ UNCHANGED <<answer, swept>>
       \/ /\ TmpDir \notin dirs
          /\ Finish(r, 500)
          /\ UNCHANGED files
    /\ UNCHANGED <<dirs, restarted>>

\* The bug of a failed copy that leaves its temp file.
CopyFailsKeepsTemp(r) ==
    /\ req[r].pc = "copy"
    /\ Finish(r, 500)
    /\ UNCHANGED <<dirs, files, restarted>>

\* io.Copy fails (the client went away, the disk is full): the temp file is
\* removed.
CopyFails(r) ==
    /\ req[r].pc = "copy"
    /\ files' = files \ {req[r].tmp}
    /\ Finish(r, 500)
    /\ UNCHANGED <<dirs, restarted>>

\* An upload inside os.MkdirAll, and past it.
MkdirAll(w, pc, depth) ==
    [pc |-> pc, ns |-> w.ns, hash |-> w.hash, tmp |-> w.tmp, depth |-> depth]

MkdirDone(w) == [pc |-> "rename", ns |-> w.ns, hash |-> w.hash, tmp |-> w.tmp]

\* io.Copy succeeds.
CopyDone(r) ==
    /\ req[r].pc = "copy"
    /\ Goto(r, MkdirAll(req[r], "stat", 4))
    /\ UNCHANGED <<dirs, files, answer, swept, restarted>>

\* os.MkdirAll looks upwards for a directory that exists, one os.Stat at a
\* time, and makes the ones below it on the way back.
Stat(r) ==
    /\ req[r].pc = "stat"
    /\ LET w == req[r]
           found == Above(w.ns, w.hash, w.depth) \in dirs
       IN  \/ /\ found
              /\ w.depth = 4
              /\ Goto(r, MkdirDone(w))
           \/ /\ found
              /\ w.depth < 4
              /\ Goto(r, MkdirAll(w, "mkdir", w.depth + 1))
           \/ /\ ~found
              /\ Goto(r, MkdirAll(w, "stat", w.depth - 1))
    /\ UNCHANGED <<dirs, files, answer, swept, restarted>>

\* The bug of making the directories with os.Mkdir, to which one that is there
\* is an error.
MkdirExclusive(r) ==
    /\ req[r].pc = "mkdir"
    /\ LET w == req[r]
           dir == Above(w.ns, w.hash, w.depth)
       IN  \/ /\ Parent(dir) \in dirs /\ dir \notin dirs
              /\ dirs' = dirs \union {dir}
              /\ Goto(r, IF w.depth = 4
                         THEN MkdirDone(w)
                         ELSE MkdirAll(w, "mkdir", w.depth + 1))
              /\ UNCHANGED <<files, answer, swept>>
           \/ /\ Parent(dir) \notin dirs \/ dir \in dirs
              /\ files' = files \ {w.tmp}
              /\ Finish(r, 500)
              /\ UNCHANGED dirs
    /\ UNCHANGED restarted

\* One os.Mkdir of os.MkdirAll.  It is content with a directory that another
\* request has made; a parent that is gone fails the upload, which removes
\* its temp file.
Mkdir(r) ==
    /\ req[r].pc = "mkdir"
    /\ LET w == req[r]
           dir == Above(w.ns, w.hash, w.depth)
       IN  \/ /\ Parent(dir) \in dirs
              /\ dirs' = dirs \union {dir}
              /\ Goto(r, IF w.depth = 4
                         THEN MkdirDone(w)
                         ELSE MkdirAll(w, "mkdir", w.depth + 1))
              /\ UNCHANGED <<files, answer, swept>>
           \/ /\ Parent(dir) \notin dirs
              /\ files' = files \ {w.tmp}
              /\ Finish(r, 500)
              /\ UNCHANGED dirs
    /\ UNCHANGED restarted

\* The bug of a rename into the shard directory under the temp file's name.
RenameUnderTempName(r) ==
    /\ req[r].pc = "rename"
    /\ LET dir == ShardDir(req[r].ns, req[r].hash)
           name == req[r].tmp[2]
       IN  files' = (files \ {req[r].tmp}) \union {Append(dir, name)}
    /\ Stores(r)
    /\ UNCHANGED <<dirs, restarted>>

\* The bug of a rename whose error is dropped.
RenameErrorDropped(r) ==
    /\ req[r].pc = "rename"
    /\ files' = IF ShardDir(req[r].ns, req[r].hash) \in dirs
                THEN (files \ {req[r].tmp})
                       \union {ShardedPath(req[r].ns, req[r].hash)}
                ELSE files
    /\ Stores(r)
    /\ UNCHANGED <<dirs, restarted>>

\* os.Rename: it needs the shard directory to be there still.  On failure the
\* error is returned and the temp file is left.
Rename(r) ==
    /\ req[r].pc = "rename"
    /\ LET w == req[r]
       IN  \/ /\ ShardDir(w.ns, w.hash) \in dirs
              /\ files' = (files \ {w.tmp}) \union {ShardedPath(w.ns, w.hash)}
              /\ Stores(r)
           \/ /\ ShardDir(w.ns, w.hash) \notin dirs
              /\ Finish(r, 500)
              /\ UNCHANGED files
    /\ UNCHANGED <<dirs, restarted>>

-----------------------------------------------------------------------------
(* Delete: HandleDelete, LocalStore.Delete and cleanUpEmptyDirs.           *)

StartDelete(r, ns, h) ==
    /\ req[r] = Idle
    /\ Goto(r, [pc |-> "remove", ns |-> ns, hash |-> h])
    /\ UNCHANGED <<dirs, files, answer, swept, restarted>>

\* os.Remove of the file; a file that is not there is no error, and any other
\* error ends the delete.
RemoveFile(r) ==
    /\ req[r].pc = "remove"
    /\ \/ /\ files' = files \ {ShardedPath(req[r].ns, req[r].hash)}
          /\ Goto(r, [pc |-> "climb", at |-> ShardDir(req[r].ns, req[r].hash)])
          /\ UNCHANGED <<answer, swept>>
       \/ /\ Finish(r, 500)
          /\ UNCHANGED files
    /\ UNCHANGED <<dirs, restarted>>

\* The directory at which cleanUpEmptyDirs stops, whatever it holds.
ObjectsDir == <<"objects">>

\* The directory an upload relies on: the one in which it makes the next, or
\* its shard directory when it is about to rename.
Footing(r) ==
    IF req[r].pc = "mkdir" THEN Above(req[r].ns, req[r].hash, req[r].depth - 1)
                           ELSE ShardDir(req[r].ns, req[r].hash)

StandsOn(r, d) == req[r].pc \in {"mkdir", "rename"} /\ Footing(r) = d

\* The bug of a climb by os.RemoveAll, which takes what is in a directory too.
ClimbRemovesAll(r) ==
    /\ req[r].pc = "climb"
    /\ LET at == req[r].at
           below == {p \in dirs \union files :
                       Len(p) >= Len(at) /\ SubSeq(p, 1, Len(at)) = at}
       IN  /\ dirs' = IF at = ObjectsDir THEN dirs ELSE dirs \ below
           /\ files' = IF at = ObjectsDir THEN files ELSE files \ below
           /\ IF at \in {ObjectsDir, Base}
              THEN Finish(r, 204)
              ELSE /\ Goto(r, [pc |-> "climb", at |-> Parent(at)])
                   /\ UNCHANGED <<answer, swept>>
    /\ UNCHANGED restarted

\* The bug of a climb that stops after one directory.
ClimbOnce(r) ==
    /\ req[r].pc = "climb"
    /\ dirs' = IF Children(req[r].at) = {} THEN dirs \ {req[r].at} ELSE dirs
    /\ Finish(r, 204)
    /\ UNCHANGED <<files, restarted>>

\* One os.Remove of the climb: it removes an empty directory and goes up, and
\* ends the request at the first one that is missing or not empty.  The
\* data directory itself goes too when it is empty; above it the climb ends.
Climb(r) ==
    /\ req[r].pc = "climb"
    /\ LET at == req[r].at
       IN  \/ /\ at # ObjectsDir
              /\ at \in dirs
              /\ Children(at) = {}
              /\ dirs' = dirs \ {at}
              /\ swept' = swept \union {s \in Requests : StandsOn(s, at)}
              /\ Goto(r, IF at = Base THEN Idle
                         ELSE [pc |-> "climb", at |-> Parent(at)])
              /\ answer' = IF at = Base THEN [status |-> 204, ref |-> NoAnswer]
                                        ELSE answer
           \/ /\ at = ObjectsDir \/ at \notin dirs \/ Children(at) # {}
              /\ Finish(r, 204)
              /\ UNCHANGED dirs
    /\ UNCHANGED <<files, restarted>>

-----------------------------------------------------------------------------
(* Readiness: LocalStore.Ready makes a file in tmp/ and removes it.        *)

StartProbe(r) ==
    /\ req[r] = Idle
    /\ \/ /\ TmpDir \in dirs
          /\ \E tmp \in TempFiles \ files :
               /\ files' = files \union {tmp}
               /\ Goto(r, [pc |-> "probe", tmp |-> tmp])
          /\ UNCHANGED <<answer, swept>>
       \/ /\ TmpDir \notin dirs
          /\ Finish(r, 503)
          /\ UNCHANGED files
    /\ UNCHANGED <<dirs, restarted>>

EndProbe(r) ==
    /\ req[r].pc = "probe"
    /\ files' = files \ {req[r].tmp}
    /\ Finish(r, 200)
    /\ UNCHANGED <<dirs, restarted>>

-----------------------------------------------------------------------------

\* The process stops and starts again: NewLocalStore makes tmp/ if need be,
\* and looks at nothing else that was left behind.
Restart ==
    /\ req' = [r \in Requests |-> Idle]
    /\ dirs' = dirs \union {Base, TmpDir}
    /\ swept' = {}
    /\ restarted' = TRUE
    /\ UNCHANGED <<files, answer>>

Next ==
    \/ \E r \in Requests :
         \/ \E ns \in Namespaces, h \in Hashes :
              StartUpload(r, ns, h) \/ StartDelete(r, ns, h)
         \/ CopyFails(r) \/ CopyDone(r) \/ Stat(r) \/ Mkdir(r) \/ Rename(r)
         \/ RemoveFile(r) \/ Climb(r)
         \/ StartProbe(r) \/ EndProbe(r)
    \/ Restart

Spec == Init /\ [][Next]_vars

-----------------------------------------------------------------------------
(* Properties.                                                             *)

\* Whatever exists lies in a directory that exists: what the file system gives,
\* and the proofs rest on.
WholeTree ==
    \A p \in dirs \union files : p # Base => Parent(p) \in dirs

HasTemp(r) == req[r].pc \in {"copy", "stat", "mkdir", "rename", "probe"}

\* A request owns its temp file until it renames or removes it: no other
\* request shares it, and no climb can take it away.
OwnTempFile ==
    \A r \in Requests :
        HasTemp(r) => /\ req[r].tmp \in files
                      /\ \A s \in Requests \ {r} :
                           HasTemp(s) => req[s].tmp # req[r].tmp

\* Between requests, no empty directory is left besides tmp/, the data
\* directory and that of a bucket named objects, at which climbs stop: the last
\* climb or upload through a directory settles it, unless a restart cut one
\* short.
NoEmptyDirLeft ==
    (\A r \in Requests : req[r] = Idle) /\ ~restarted =>
        \A d \in dirs \ {Base, TmpDir, ObjectsDir} : Children(d) # {}

\* A request that settles an empty directory: a climb is about to remove it,
\* or an upload to put something into it.
Settles(r, d) ==
    \/ req[r].pc = "climb" /\ req[r].at = d
    \/ StandsOn(r, d)

\* An empty directory always has a request that settles it.
EmptySettled ==
    ~restarted =>
        \A d \in dirs \ {Base, TmpDir, ObjectsDir} :
            Children(d) = {} => \E r \in Requests : Settles(r, d)

\* Uploads do not fail each other, whatever directories they share and make at
\* once.  One whose body has arrived is stored, and none leaves its temp file,
\* unless a climb has removed the directory it relied on, or the process stops.
UploadsGoThrough ==
    [][\A r \in Requests \ swept :
         HasTemp(r) /\ req'[r] = Idle /\ ~Restart =>
             /\ req[r].tmp \notin files'
             /\ req[r].pc \in {"mkdir", "rename"} => answer'.status = 201]_vars

\* An upload relies on a directory that is there, or has been swept.
StandsFirm ==
    \A r \in Requests \ swept : req[r].pc \in {"mkdir", "rename"} => Footing(r) \in dirs

\* Uploads can start: tmp/ exists from NewLocalStore on, and the climbs, which
\* end only at a directory that is not empty, never come to it.
TmpDirStays == TmpDir \in dirs

\* What a request with record w asks for, as its client sees it.
AskedFor(w) ==
    CASE w.pc \in {"copy", "stat", "mkdir", "rename"} ->
           [op |-> "upload", ns |-> w.ns, hash |-> w.hash]
      [] w.pc = "remove" -> [op |-> "delete", ns |-> w.ns, hash |-> w.hash]
      [] w.pc = "climb" -> [op |-> "dropped"]
      [] OTHER -> [op |-> "none"]

Asked == [r \in Requests |-> AskedFor(req[r])]

\* With its temp files, shard directories and climbs hidden, the store is a
\* set of contents, each of which comes with an upload of it and goes with a
\* delete of it, before that delete is answered.
Blobs == INSTANCE BlobStore WITH stored <- Stored, call <- Asked

ImplementsBlobStore == Blobs!Spec
=============================================================================
