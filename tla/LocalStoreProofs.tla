-------------------------- MODULE LocalStoreProofs --------------------------
(***************************************************************************)
(* Proofs about data-service's directory tree, for every set of requests,  *)
(* namespaces, contents and temp names: also for a namespace that has the  *)
(* name of the temp directory.                                             *)
(***************************************************************************)
EXTENDS LocalStore, SequenceTheorems, TLAPS

-----------------------------------------------------------------------------
(* Paths.                                                                  *)

\* A temp file lies in tmp/, a stored file in its shard directory, and tmp/ in
\* the data directory.
LEMMA Parents ==
    /\ Parent(TmpDir) = Base
    /\ \A tmp \in TempFiles : Parent(tmp) = TmpDir
    /\ \A ns \in Namespaces, h \in Hashes : Parent(ShardedPath(ns, h)) = ShardDir(ns, h)
<1>1. Parent(TmpDir) = Base
  BY DEF Parent, TmpDir, Base
<1>2. ASSUME NEW t \in TempNames
      PROVE  Parent(<<"tmp", t>>) = TmpDir
  <2> DEFINE s == SubSeq(<<"tmp", t>>, 1, 1)
  <2>1. s \in Seq({"tmp"}) /\ Len(s) = 1 /\ s[1] = "tmp"
    BY SubSeqProperties
  <2>2. TmpDir \in Seq({"tmp"}) /\ Len(TmpDir) = 1 /\ TmpDir[1] = "tmp"
    BY DEF TmpDir
  <2> HIDE DEF s
  <2>3. \A i \in 1..Len(s) : s[i] = TmpDir[i]
    BY <2>1, <2>2
  <2>4. s = TmpDir
    BY <2>1, <2>2, <2>3, SeqEqual
  <2>5. QED
    BY <2>4 DEF Parent, s
<1>3. \A tmp \in TempFiles : Parent(tmp) = TmpDir
  BY <1>2 DEF TempFiles
<1>4. \A ns \in Namespaces, h \in Hashes : Parent(ShardedPath(ns, h)) = ShardDir(ns, h)
  BY Zenon DEF ShardDir
<1>5. QED
  BY <1>1, <1>3, <1>4

\* Different contents have different paths, and none is that of a temp file.
LEMMA PathsApart ==
    /\ \A ns, ns2 \in Namespaces, h, h2 \in Hashes :
         ShardedPath(ns, h) = ShardedPath(ns2, h2) => ns = ns2 /\ h = h2
    /\ \A ns \in Namespaces, h \in Hashes : ShardedPath(ns, h) \notin TempFiles
BY DEF ShardedPath, TempFiles

-----------------------------------------------------------------------------
(* The tree.                                                               *)

\* Each step keeps the tree whole.  A climb removes a directory only when
\* nothing lies in it, in the same system call.
LEMMA TreeStep == WholeTree /\ [Next]_vars => WholeTree'
<1> SUFFICES ASSUME WholeTree, [Next]_vars PROVE WholeTree'
  OBVIOUS
<1>1. ASSUME dirs' = dirs,
             \A p \in files' : p \in files \/ Parent(p) \in dirs
      PROVE  WholeTree'
  BY <1>1 DEF WholeTree
<1>2. ASSUME NEW r \in Requests, NEW ns \in Namespaces, NEW h \in Hashes,
             StartUpload(r, ns, h)
      PROVE  WholeTree'
  BY <1>1, <1>2, Parents DEF StartUpload
<1>3. ASSUME NEW r \in Requests, StartProbe(r)
      PROVE  WholeTree'
  BY <1>1, <1>3, Parents DEF StartProbe
<1>4. ASSUME NEW r \in Requests, Mkdir(r)
      PROVE  WholeTree'
  BY <1>4 DEF Mkdir, WholeTree
<1>5. ASSUME NEW r \in Requests, Rename(r)
      PROVE  WholeTree'
  BY <1>1, <1>5 DEF Rename, ShardDir
<1>6. ASSUME NEW r \in Requests, Climb(r)
      PROVE  WholeTree'
  BY <1>6 DEF Climb, WholeTree, Children
<1>7. ASSUME Restart
      PROVE  WholeTree'
  BY <1>7, Parents DEF Restart, WholeTree
<1>8. ASSUME NEW r \in Requests,
             \/ CopyFails(r) \/ CopyDone(r) \/ Stat(r) \/ RemoveFile(r) \/ EndProbe(r)
             \/ \E ns \in Namespaces, h \in Hashes : StartDelete(r, ns, h)
      PROVE  WholeTree'
  BY <1>1, <1>8 DEF CopyFails, CopyDone, Stat, RemoveFile, EndProbe, StartDelete
<1>9. CASE UNCHANGED vars
  BY <1>9 DEF vars, WholeTree
<1>10. QED
  BY <1>2, <1>3, <1>4, <1>5, <1>6, <1>7, <1>8, <1>9 DEF Next

-----------------------------------------------------------------------------
(* Temp files.                                                             *)

\* The inductive invariant of the temp files.
TempInv ==
    /\ req = [r \in Requests |-> req[r]]
    /\ \A r \in Requests : HasTemp(r) => req[r].tmp \in TempFiles
    /\ \A r \in Requests :
         req[r].pc \in {"copy", "stat", "mkdir", "rename", "remove"} =>
             req[r].ns \in Namespaces /\ req[r].hash \in Hashes
    /\ OwnTempFile

\* Only request r goes on, and what it does next is well formed.
Moves(r) ==
    /\ req' = [req EXCEPT ![r] = req'[r]]
    /\ HasTemp(r)' => req'[r].tmp \in TempFiles
    /\ req'[r].pc \in {"copy", "stat", "mkdir", "rename", "remove"} =>
          req'[r].ns \in Namespaces /\ req'[r].hash \in Hashes

\* What Goto leads to.
LEMMA Going ==
    ASSUME TempInv, NEW r \in Requests, NEW work, Goto(r, work)
    PROVE  req'[r] = work /\ req' = [req EXCEPT ![r] = req'[r]]
BY DEF Goto, TempInv

\* The handler returns.
LEMMA GoingIdle ==
    ASSUME TempInv, NEW r \in Requests, Goto(r, Idle)
    PROVE  Moves(r) /\ ~HasTemp(r)'
<1>1. req'[r].pc = "idle" /\ req' = [req EXCEPT ![r] = req'[r]]
  BY Going DEF Idle
<1>2. QED
  BY <1>1 DEF Moves, HasTemp

\* A step of one request, which keeps its own temp file, takes a new one or
\* gives it up, and takes no one else's away.
LEMMA OneRequest ==
    ASSUME TempInv, NEW r \in Requests,
           Moves(r),
           HasTemp(r)' => /\ req'[r].tmp \in files'
                          /\ \/ req'[r].tmp \notin files
                             \/ HasTemp(r) /\ req'[r].tmp = req[r].tmp,
           \A f \in TempFiles \intersect files :
               f \in files' \/ (HasTemp(r) /\ f = req[r].tmp)
    PROVE  TempInv'
<1>1. /\ req' = [s \in Requests |-> req'[s]]
      /\ \A s \in Requests \ {r} : req'[s] = req[s]
  BY DEF Moves, TempInv
<1>2. \A s \in Requests : HasTemp(s)' =>
          /\ req'[s].tmp \in TempFiles
          /\ req'[s].tmp \in files'
  BY <1>1 DEF Moves, TempInv, OwnTempFile, HasTemp
<1>3. ASSUME NEW s \in Requests, NEW t \in Requests, s # t,
             HasTemp(s)', HasTemp(t)'
      PROVE  req'[s].tmp # req'[t].tmp
  BY <1>1, <1>3 DEF TempInv, OwnTempFile, HasTemp
<1>4. OwnTempFile'
  BY <1>2, <1>3 DEF OwnTempFile
<1>5. \A s \in Requests :
         req'[s].pc \in {"copy", "stat", "mkdir", "rename", "remove"} =>
             req'[s].ns \in Namespaces /\ req'[s].hash \in Hashes
  BY <1>1 DEF Moves, TempInv
<1>6. QED
  BY <1>1, <1>2, <1>4, <1>5 DEF TempInv

\* Every step keeps the temp files where they belong.
LEMMA TempStep == TempInv /\ [Next]_vars => TempInv'
<1> SUFFICES ASSUME TempInv, [Next]_vars PROVE TempInv'
  OBVIOUS
<1>1. ASSUME NEW r \in Requests, Goto(r, Idle),
             \A f \in TempFiles \intersect files :
                 f \in files' \/ (HasTemp(r) /\ f = req[r].tmp)
      PROVE  TempInv'
  BY <1>1, GoingIdle, OneRequest
<1>2. ASSUME NEW r \in Requests, NEW ns \in Namespaces, NEW h \in Hashes,
             StartUpload(r, ns, h)
      PROVE  TempInv'
  <2>1. CASE TmpDir \in dirs
    <3>1. PICK tmp \in TempFiles \ files :
            /\ files' = files \union {tmp}
            /\ Goto(r, [pc |-> "copy", ns |-> ns, hash |-> h, tmp |-> tmp])
      BY <1>2, <2>1 DEF StartUpload
    <3>2. req'[r] = [pc |-> "copy", ns |-> ns, hash |-> h, tmp |-> tmp]
          /\ req' = [req EXCEPT ![r] = req'[r]]
      BY <3>1, Going
    <3>3. Moves(r) /\ req'[r].tmp = tmp
      BY <3>2 DEF Moves
    <3>4. QED
      BY <3>1, <3>3, OneRequest
  <2>2. CASE TmpDir \notin dirs
    BY <1>1, <1>2, <2>2 DEF StartUpload, Finish
  <2>3. QED
    BY <2>1, <2>2
<1>3. ASSUME NEW r \in Requests, StartProbe(r)
      PROVE  TempInv'
  <2>1. CASE TmpDir \in dirs
    <3>1. PICK tmp \in TempFiles \ files :
            /\ files' = files \union {tmp}
            /\ Goto(r, [pc |-> "probe", tmp |-> tmp])
      BY <1>3, <2>1 DEF StartProbe
    <3>2. req'[r] = [pc |-> "probe", tmp |-> tmp]
          /\ req' = [req EXCEPT ![r] = req'[r]]
      BY <3>1, Going
    <3>3. Moves(r) /\ req'[r].tmp = tmp
      BY <3>2 DEF Moves
    <3>4. QED
      BY <3>1, <3>3, OneRequest
  <2>2. CASE TmpDir \notin dirs
    BY <1>1, <1>3, <2>2 DEF StartProbe, Finish
  <2>3. QED
    BY <2>1, <2>2
<1>4. ASSUME NEW r \in Requests, CopyFails(r) \/ EndProbe(r)
      PROVE  TempInv'
  <2>1. HasTemp(r) /\ Goto(r, Idle) /\ files' = files \ {req[r].tmp}
    BY <1>4 DEF CopyFails, EndProbe, Finish, HasTemp
  <2>2. QED
    BY <1>1, <2>1
<1>5. ASSUME NEW r \in Requests, CopyDone(r) \/ Stat(r) \/ Mkdir(r)
      PROVE  TempInv'
  <2>1. /\ HasTemp(r)
        /\ req[r].tmp \in TempFiles
        /\ req[r].tmp \in files
        /\ req[r].ns \in Namespaces
        /\ req[r].hash \in Hashes
    BY <1>5 DEF CopyDone, Stat, Mkdir, HasTemp, TempInv, OwnTempFile
  <2>2. CASE Goto(r, Idle) /\ files' = files \ {req[r].tmp}
    BY <1>1, <2>1, <2>2
  <2>3. ASSUME NEW work, Goto(r, work), files' = files,
               work.ns = req[r].ns, work.hash = req[r].hash, work.tmp = req[r].tmp
        PROVE  TempInv'
    <3>1. req'[r] = work /\ req' = [req EXCEPT ![r] = req'[r]]
      BY <2>3, Going
    <3>2. Moves(r) /\ req'[r].tmp = req[r].tmp
      BY <2>1, <2>3, <3>1 DEF Moves
    <3>3. QED
      BY <2>1, <2>3, <3>2, OneRequest
  <2>4. CASE CopyDone(r)
    BY <2>3, <2>4 DEF CopyDone, MkdirAll
  <2>5. CASE Stat(r)
    BY <2>3, <2>5 DEF Stat, MkdirAll, MkdirDone
  <2>6. CASE Mkdir(r)
    BY <2>2, <2>3, <2>6 DEF Mkdir, MkdirAll, MkdirDone, Finish
  <2>7. QED
    BY <1>5, <2>4, <2>5, <2>6
<1>6. ASSUME NEW r \in Requests, Rename(r)
      PROVE  TempInv'
  <2>1. HasTemp(r) /\ Goto(r, Idle)
    BY <1>6 DEF Rename, Finish, Stores, HasTemp
  <2>2. \A f \in TempFiles \intersect files : f \in files' \/ f = req[r].tmp
    BY <1>6 DEF Rename
  <2>3. QED
    BY <1>1, <2>1, <2>2
<1>7. ASSUME NEW r \in Requests, NEW ns \in Namespaces, NEW h \in Hashes,
             StartDelete(r, ns, h)
      PROVE  TempInv'
  <2>1. Goto(r, [pc |-> "remove", ns |-> ns, hash |-> h]) /\ files' = files
    BY <1>7 DEF StartDelete
  <2>2. req'[r] = [pc |-> "remove", ns |-> ns, hash |-> h]
        /\ req' = [req EXCEPT ![r] = req'[r]]
    BY <2>1, Going
  <2>3. Moves(r) /\ ~HasTemp(r)'
    BY <2>2 DEF Moves, HasTemp
  <2>4. QED
    BY <2>1, <2>3, OneRequest
<1>8. ASSUME NEW r \in Requests, RemoveFile(r) \/ Climb(r)
      PROVE  TempInv'
  <2>1. \A f \in TempFiles \intersect files : f \in files'
    <3>1. RemoveFile(r) => req[r].ns \in Namespaces /\ req[r].hash \in Hashes
      BY DEF RemoveFile, TempInv
    <3>2. QED
      BY <1>8, <3>1, PathsApart DEF RemoveFile, Climb
  <2>2. CASE Goto(r, Idle)
    BY <1>1, <2>1, <2>2
  <2>3. ASSUME NEW at, Goto(r, [pc |-> "climb", at |-> at])
        PROVE  TempInv'
    <3>1. req'[r] = [pc |-> "climb", at |-> at]
          /\ req' = [req EXCEPT ![r] = req'[r]]
      BY <2>3, Going
    <3>2. Moves(r) /\ ~HasTemp(r)'
      BY <3>1 DEF Moves, HasTemp
    <3>3. QED
      BY <2>1, <3>2, OneRequest
  <2>4. QED
    BY <1>8, <2>2, <2>3 DEF RemoveFile, Climb, Finish
<1>9. CASE Restart
  BY <1>9 DEF Restart, TempInv, OwnTempFile, HasTemp, Idle
<1>10. CASE UNCHANGED vars
  BY <1>10 DEF vars, TempInv, OwnTempFile, HasTemp
<1>11. QED
  BY <1>2, <1>3, <1>4, <1>5, <1>6, <1>7, <1>8, <1>9, <1>10 DEF Next

\* The temp files' invariant holds, so every request owns its temp file.
THEOREM TempFilesOwned == Spec => []OwnTempFile
<1>1. Init => TempInv
  BY DEF Init, TempInv, OwnTempFile, HasTemp, Idle
<1>2. TempInv => OwnTempFile
  BY DEF TempInv
<1>3. QED
  BY <1>1, <1>2, TempStep, PTL DEF Spec

-----------------------------------------------------------------------------
(* Types.                                                                  *)

\* The directories above a stored file are one above the other, and the
\* deepest is its shard directory.
LEMMA Ancestors ==
    ASSUME NEW ns, NEW h
    PROVE  /\ Above(ns, h, 0) = Base
           /\ Above(ns, h, 4) = ShardDir(ns, h)
           /\ \A n \in 1..4 : /\ Parent(Above(ns, h, n)) = Above(ns, h, n - 1)
                              /\ Above(ns, h, n) # Base
<1> DEFINE f == ShardedPath(ns, h)
           S == {f[i] : i \in 1..5}
           cut(n) == SubSeq(f, 1, n)
<1>1. \A n \in 0..5 : /\ cut(n) \in Seq(S)
                      /\ Len(cut(n)) = n
                      /\ \A i \in 1..n : cut(n)[i] = f[i]
  <2> SUFFICES ASSUME NEW n \in 0..5
               PROVE  /\ cut(n) \in Seq(S)
                      /\ Len(cut(n)) = n
                      /\ \A i \in 1..n : cut(n)[i] = f[i]
    OBVIOUS
  <2>1. \A i \in 1..n : f[i] \in S
    OBVIOUS
  <2> HIDE DEF f, S
  <2>2. QED
    BY <2>1, SubSeqProperties
<1>2. ShardDir(ns, h) = cut(4)
  <2>1. Len(f) = 5
    BY DEF ShardedPath
  <2>2. QED
    BY <2>1 DEF ShardDir, Parent
<1>3. \A i \in 1..5 : f[i] \in S
  OBVIOUS
<1> HIDE DEF cut, S, f
<1>4. ASSUME NEW m \in 0..5, NEW n \in 0..m
      PROVE  SubSeq(cut(m), 1, n) = cut(n)
  <2> DEFINE s == SubSeq(cut(m), 1, n)
  <2>1. \A i \in 1..n : i \in 1..m /\ i \in 1..5 /\ n \in 0..5
    OBVIOUS
  <2>2. \A i \in 1..n : cut(m)[i] = f[i] /\ cut(n)[i] = f[i] /\ f[i] \in S
    BY <1>1, <1>3, <2>1
  <2>3. \A i \in 1..n : cut(m)[i] \in S
    BY <2>2
  <2>4. s \in Seq(S) /\ Len(s) = n /\ \A i \in 1..n : s[i] = cut(m)[i]
    BY <2>3, SubSeqProperties
  <2> HIDE DEF s
  <2>5. cut(n) \in Seq(S) /\ Len(cut(n)) = n
    <3>1. n \in 0..5
      OBVIOUS
    <3>2. QED
      BY <1>1, <3>1
  <2>6. \A i \in 1..Len(s) : s[i] = cut(n)[i]
    BY <2>2, <2>4
  <2>7. s = cut(n)
    BY <2>4, <2>5, <2>6, SeqEqual
  <2>8. QED
    BY <2>7 DEF s
<1>5. cut(0) = Base
  <2>1. cut(0) \in Seq(S) /\ Len(cut(0)) = 0
    BY <1>1
  <2>2. QED
    BY <2>1, EmptySeq DEF Base
<1>6. ASSUME NEW n \in 1..4
      PROVE  Parent(cut(n)) = cut(n - 1) /\ cut(n) # Base
  <2>1. n \in 0..5 /\ n - 1 \in 0..n /\ n # 0
    OBVIOUS
  <2>2. Len(cut(n)) = n
    BY <1>1, <2>1
  <2>3. SubSeq(cut(n), 1, n - 1) = cut(n - 1)
    BY <1>4, <2>1
  <2>4. Len(cut(0)) = 0
    BY <1>1
  <2>5. QED
    BY <1>5, <2>1, <2>2, <2>3, <2>4 DEF Parent
<1>7. ASSUME NEW n \in 0..4
      PROVE  Above(ns, h, n) = cut(n)
  <2>1. 4 \in 0..5 /\ n \in 0..4
    OBVIOUS
  <2>2. QED
    BY <1>2, <1>4, <2>1 DEF Above
<1>8. Above(ns, h, 0) = Base /\ Above(ns, h, 4) = ShardDir(ns, h)
  BY <1>2, <1>5, <1>7
<1>9. ASSUME NEW n \in 1..4
      PROVE  Parent(Above(ns, h, n)) = Above(ns, h, n - 1) /\ Above(ns, h, n) # Base
  <2>1. Above(ns, h, n) = cut(n) /\ Above(ns, h, n - 1) = cut(n - 1)
    BY <1>7
  <2>2. QED
    BY <1>6, <2>1
<1>10. QED
  BY <1>8, <1>9

\* The inductive form of TypeOK: os.MkdirAll never makes the data directory.
TypeInv ==
    /\ TypeOK
    /\ \A r \in Requests : req[r].pc = "mkdir" => req[r].depth \in 1..4

\* What a request in progress knows.
LEMMA WorkShape ==
    ASSUME NEW w \in Work \union {Idle}
    PROVE  /\ w.pc \in {"stat", "mkdir"} => w.depth \in 0..4
           /\ w.pc = "climb" => \E ns \in Namespaces, h \in Hashes, n \in 0..4 :
                                   w.at = Above(ns, h, n)
BY DEF Work, Idle

\* A step of one request that is well formed keeps the types.
LEMMA TypeFrame ==
    ASSUME TypeInv, NEW r \in Requests, NEW work \in Work \union {Idle},
           work.pc = "mkdir" => work.depth \in 1..4,
           Goto(r, work),
           dirs' \subseteq TreeDirs,
           files' \subseteq TempFiles \union FinalFiles,
           answer' \in Answers \union {NoAnswer},
           swept' \subseteq Requests,
           UNCHANGED restarted
    PROVE  TypeInv'
<1>1. req \in [Requests -> Work \union {Idle}]
  BY DEF TypeInv, TypeOK
<1>2. /\ req' \in [Requests -> Work \union {Idle}]
      /\ req'[r] = work
      /\ \A s \in Requests \ {r} : req'[s] = req[s]
  BY <1>1 DEF Goto
<1>3. \A s \in Requests : req'[s].pc = "mkdir" => req'[s].depth \in 1..4
  BY <1>2 DEF TypeInv
<1>4. QED
  BY <1>2, <1>3 DEF TypeInv, TypeOK

\* The same for a request that is answered.
LEMMA TypeFinish ==
    ASSUME TypeInv, NEW r \in Requests, NEW status \in {200, 204, 500, 503},
           Finish(r, status),
           dirs' \subseteq TreeDirs,
           files' \subseteq TempFiles \union FinalFiles,
           UNCHANGED restarted
    PROVE  TypeInv'
<1>1. Goto(r, Idle) /\ answer' \in Answers /\ swept' \subseteq Requests
  BY DEF Finish, Answers, TypeInv, TypeOK
<1>2. Idle.pc # "mkdir"
  BY DEF Idle
<1>3. QED
  BY <1>1, <1>2, TypeFrame

\* A request that has a temp file finds the data directory.
LEMMA BaseUnderTemp ==
    ASSUME WholeTree, TempInv, NEW r \in Requests, HasTemp(r)
    PROVE  Base \in dirs
<1>1. req[r].tmp \in TempFiles /\ req[r].tmp \in files
  BY DEF TempInv, OwnTempFile
<1>2. req[r].tmp # Base /\ TmpDir # Base
  BY <1>1 DEF TempFiles, Base, TmpDir
<1>3. TmpDir \in dirs
  BY <1>1, <1>2, Parents DEF WholeTree
<1>4. QED
  BY <1>2, <1>3, Parents DEF WholeTree

\* Every step keeps the types.  A stat that has climbed to the data directory
\* finds it, as it has a temp file under it: this is why WholeTree is needed.
LEMMA TypeStep == TypeInv /\ WholeTree /\ TempInv /\ [Next]_vars => TypeInv'
<1> SUFFICES ASSUME TypeInv, WholeTree, TempInv, [Next]_vars PROVE TypeInv'
  OBVIOUS
<1> DEFINE Files == TempFiles \union FinalFiles
<1>1. /\ dirs \subseteq TreeDirs
      /\ files \subseteq Files
      /\ answer \in Answers \union {NoAnswer}
      /\ swept \subseteq Requests
      /\ \A r \in Requests : req[r] \in Work \union {Idle}
  BY DEF TypeInv, TypeOK
<1>2. \A r \in Requests : HasTemp(r) => req[r].tmp \in TempFiles
  BY DEF TempInv
<1>3. \A r \in Requests :
         req[r].pc \in {"copy", "stat", "mkdir", "rename", "remove"} =>
             req[r].ns \in Namespaces /\ req[r].hash \in Hashes
  BY DEF TempInv
<1>4. ASSUME NEW ns \in Namespaces, NEW h \in Hashes
      PROVE  /\ \A tmp \in TempFiles :
                  [pc |-> "copy", ns |-> ns, hash |-> h, tmp |-> tmp] \in Work
             /\ [pc |-> "remove", ns |-> ns, hash |-> h] \in Work
             /\ \A n \in 0..4 : [pc |-> "climb", at |-> Above(ns, h, n)] \in Work
  BY <1>4 DEF Work
<1>5. ASSUME NEW r \in Requests, NEW ns \in Namespaces, NEW h \in Hashes,
             StartUpload(r, ns, h)
      PROVE  TypeInv'
  <2>1. CASE TmpDir \in dirs
    <3>1. PICK tmp \in TempFiles \ files :
            /\ files' = files \union {tmp}
            /\ Goto(r, [pc |-> "copy", ns |-> ns, hash |-> h, tmp |-> tmp])
      BY <1>5, <2>1 DEF StartUpload
    <3> DEFINE work == [pc |-> "copy", ns |-> ns, hash |-> h, tmp |-> tmp]
    <3>2. work \in Work /\ work.pc # "mkdir"
      BY <1>4
    <3> HIDE DEF work
    <3>3. QED
      BY <1>1, <1>5, <2>1, <3>1, <3>2, TypeFrame DEF StartUpload, work
  <2>2. CASE TmpDir \notin dirs
    BY <1>1, <1>5, <2>2, TypeFinish DEF StartUpload
  <2>3. QED
    BY <2>1, <2>2
<1>6. ASSUME NEW r \in Requests, StartProbe(r)
      PROVE  TypeInv'
  <2>1. CASE TmpDir \in dirs
    <3>1. PICK tmp \in TempFiles \ files :
            /\ files' = files \union {tmp}
            /\ Goto(r, [pc |-> "probe", tmp |-> tmp])
      BY <1>6, <2>1 DEF StartProbe
    <3> DEFINE work == [pc |-> "probe", tmp |-> tmp]
    <3>2. work \in Work /\ work.pc # "mkdir"
      BY DEF Work
    <3> HIDE DEF work
    <3>3. QED
      BY <1>1, <1>6, <2>1, <3>1, <3>2, TypeFrame DEF StartProbe, work
  <2>2. CASE TmpDir \notin dirs
    BY <1>1, <1>6, <2>2, TypeFinish DEF StartProbe
  <2>3. QED
    BY <2>1, <2>2
<1>7. ASSUME NEW r \in Requests, CopyFails(r) \/ EndProbe(r)
      PROVE  TypeInv'
  <2>1. PICK status \in {200, 500} : Finish(r, status)
    BY <1>7 DEF CopyFails, EndProbe
  <2>2. dirs' = dirs /\ files' \subseteq files /\ UNCHANGED restarted
    BY <1>7 DEF CopyFails, EndProbe
  <2>3. QED
    BY <1>1, <2>1, <2>2, TypeFinish
<1>8. ASSUME NEW r \in Requests, CopyDone(r) \/ Stat(r) \/ Mkdir(r)
      PROVE  TypeInv'
  <2> DEFINE w == req[r]
  <2>1. /\ w.tmp \in TempFiles
        /\ w.ns \in Namespaces
        /\ w.hash \in Hashes
        /\ HasTemp(r)
    BY <1>2, <1>3, <1>8 DEF CopyDone, Stat, Mkdir, HasTemp
  <2>2. ASSUME NEW pc \in {"stat", "mkdir"}, NEW depth \in 0..4,
               pc = "mkdir" => depth \in 1..4,
               Goto(r, MkdirAll(w, pc, depth)),
               dirs' \subseteq TreeDirs, UNCHANGED <<files, answer, swept, restarted>>
        PROVE  TypeInv'
    <3>1. /\ MkdirAll(w, pc, depth) \in Work
          /\ MkdirAll(w, pc, depth).pc = pc
          /\ MkdirAll(w, pc, depth).depth = depth
      BY <2>1 DEF MkdirAll, Work
    <3>2. QED
      BY <1>1, <2>2, <3>1, TypeFrame
  <2>3. ASSUME Goto(r, MkdirDone(w)),
               dirs' \subseteq TreeDirs, UNCHANGED <<files, answer, swept, restarted>>
        PROVE  TypeInv'
    <3>1. MkdirDone(w) \in Work /\ MkdirDone(w).pc # "mkdir"
      BY <2>1 DEF MkdirDone, Work
    <3>2. QED
      BY <1>1, <2>3, <3>1, TypeFrame
  <2>4. CASE CopyDone(r)
    BY <1>1, <2>2, <2>4 DEF CopyDone
  <2>5. CASE Stat(r)
    <3>1. w.depth \in 0..4
      BY <1>1, <2>5, WorkShape DEF Stat
    <3>2. w.depth = 0 => Above(w.ns, w.hash, w.depth) \in dirs
      BY <2>1, Ancestors, BaseUnderTemp
    <3>3. UNCHANGED <<dirs, files, answer, swept, restarted>> /\ dirs' \subseteq TreeDirs
      BY <1>1, <2>5 DEF Stat
    <3>4. CASE /\ Above(w.ns, w.hash, w.depth) \in dirs
               /\ w.depth < 4
               /\ Goto(r, MkdirAll(w, "mkdir", w.depth + 1))
      <4>1. w.depth + 1 \in 1..4 /\ w.depth + 1 \in 0..4
        BY <3>1, <3>4
      <4>2. QED
        BY <2>2, <3>3, <3>4, <4>1
    <3>5. CASE /\ Above(w.ns, w.hash, w.depth) \notin dirs
               /\ Goto(r, MkdirAll(w, "stat", w.depth - 1))
      <4>1. w.depth - 1 \in 0..4
        BY <3>1, <3>2, <3>5
      <4>2. QED
        BY <2>2, <3>3, <3>5, <4>1
    <3>6. QED
      BY <2>3, <2>5, <3>3, <3>4, <3>5 DEF Stat
  <2>6. CASE Mkdir(r)
    <3>1. w.depth \in 1..4
      BY <2>6 DEF Mkdir, TypeInv
    <3> DEFINE dir == Above(w.ns, w.hash, w.depth)
    <3>2. dir \in TreeDirs
      BY <2>1, <3>1 DEF TreeDirs
    <3> HIDE DEF dir
    <3>3. CASE /\ dirs' = dirs \union {dir}
               /\ Goto(r, IF w.depth = 4 THEN MkdirDone(w)
                          ELSE MkdirAll(w, "mkdir", w.depth + 1))
               /\ UNCHANGED <<files, answer, swept>>
      <4>1. dirs' \subseteq TreeDirs /\ UNCHANGED <<files, answer, swept, restarted>>
        BY <1>1, <2>6, <3>2, <3>3 DEF Mkdir
      <4>2. w.depth # 4 => w.depth + 1 \in 1..4 /\ w.depth + 1 \in 0..4
        BY <3>1
      <4>3. QED
        BY <2>2, <2>3, <3>3, <4>1, <4>2
    <3>4. CASE Finish(r, 500) /\ files' = files \ {w.tmp} /\ UNCHANGED dirs
      BY <1>1, <2>6, <3>4, TypeFinish DEF Mkdir
    <3>5. QED
      BY <2>6, <3>3, <3>4 DEF Mkdir, dir
  <2>7. QED
    BY <1>8, <2>4, <2>5, <2>6
<1>9. ASSUME NEW r \in Requests, Rename(r)
      PROVE  TypeInv'
  <2>1. req[r].ns \in Namespaces /\ req[r].hash \in Hashes
    BY <1>3, <1>9 DEF Rename
  <2>2. CASE Stores(r) /\ files' = (files \ {req[r].tmp})
                                     \union {ShardedPath(req[r].ns, req[r].hash)}
    <3>1. Goto(r, Idle) /\ answer' \in Answers /\ swept' \subseteq Requests
      BY <1>1, <2>1, <2>2 DEF Stores, Answers
    <3>2. files' \subseteq Files
      BY <1>1, <2>1, <2>2 DEF FinalFiles
    <3>3. QED
      BY <1>1, <1>9, <3>1, <3>2, TypeFrame DEF Rename, Idle
  <2>3. CASE Finish(r, 500) /\ UNCHANGED files
    BY <1>1, <1>9, <2>3, TypeFinish DEF Rename
  <2>4. QED
    BY <1>9, <2>2, <2>3 DEF Rename
<1>10. ASSUME NEW r \in Requests, NEW ns \in Namespaces, NEW h \in Hashes,
              StartDelete(r, ns, h)
       PROVE  TypeInv'
  <2> DEFINE work == [pc |-> "remove", ns |-> ns, hash |-> h]
  <2>1. work \in Work /\ work.pc # "mkdir"
    BY <1>4
  <2> HIDE DEF work
  <2>2. QED
    BY <1>1, <1>10, <2>1, TypeFrame DEF StartDelete, work
<1>11. ASSUME NEW r \in Requests, NEW ns \in Namespaces, NEW h \in Hashes,
              NEW n \in 0..4, Goto(r, [pc |-> "climb", at |-> Above(ns, h, n)]),
              dirs' \subseteq dirs, files' \subseteq files,
              answer' \in Answers \union {NoAnswer}, swept' \subseteq Requests,
              UNCHANGED restarted
       PROVE  TypeInv'
  <2> DEFINE work == [pc |-> "climb", at |-> Above(ns, h, n)]
  <2>1. work \in Work /\ work.pc # "mkdir"
    BY <1>4
  <2> HIDE DEF work
  <2>2. QED
    BY <1>1, <1>11, <2>1, TypeFrame DEF work
<1>12. ASSUME NEW r \in Requests, RemoveFile(r)
       PROVE  TypeInv'
  <2>1. req[r].ns \in Namespaces /\ req[r].hash \in Hashes
    BY <1>3, <1>12 DEF RemoveFile
  <2>2. CASE Finish(r, 500) /\ UNCHANGED files
    BY <1>1, <1>12, <2>2, TypeFinish DEF RemoveFile
  <2>3. CASE /\ files' = files \ {ShardedPath(req[r].ns, req[r].hash)}
             /\ Goto(r, [pc |-> "climb", at |-> ShardDir(req[r].ns, req[r].hash)])
             /\ UNCHANGED <<answer, swept>>
    <3>1. ShardDir(req[r].ns, req[r].hash) = Above(req[r].ns, req[r].hash, 4)
      BY Ancestors
    <3>2. Goto(r, [pc |-> "climb", at |-> Above(req[r].ns, req[r].hash, 4)])
      BY <2>3, <3>1
    <3>3. 4 \in 0..4 /\ dirs' \subseteq dirs /\ files' \subseteq files
          /\ UNCHANGED <<answer, swept, restarted>>
      BY <1>12, <2>3 DEF RemoveFile
    <3>4. QED
      BY <1>1, <1>11, <2>1, <3>2, <3>3
  <2>4. QED
    BY <1>12, <2>2, <2>3 DEF RemoveFile
<1>13. ASSUME NEW r \in Requests, Climb(r)
       PROVE  TypeInv'
  <2>1. PICK ns \in Namespaces, h \in Hashes, n \in 0..4 :
          req[r].at = Above(ns, h, n)
    BY <1>1, <1>13, WorkShape DEF Climb
  <2>2. /\ dirs' \subseteq dirs /\ UNCHANGED <<files, restarted>>
        /\ answer' \in Answers \union {NoAnswer}
        /\ swept' \subseteq Requests
    BY <1>1, <1>13 DEF Climb, Finish, Answers
  <2>3. CASE Goto(r, Idle)
    BY <1>1, <2>2, <2>3, TypeFrame DEF Idle
  <2>4. CASE /\ req[r].at # Base
             /\ Goto(r, [pc |-> "climb", at |-> Parent(req[r].at)])
    <3>1. n \in 1..4
      BY <2>1, <2>4, Ancestors
    <3>2. n - 1 \in 0..4 /\ Parent(req[r].at) = Above(ns, h, n - 1)
      BY <2>1, <3>1, Ancestors
    <3>3. QED
      BY <1>1, <1>11, <2>2, <2>4, <3>2
  <2>5. QED
    BY <1>13, <2>3, <2>4 DEF Climb, Finish
<1>14. CASE Restart
  <2>1. Idle.pc # "mkdir"
    BY DEF Idle
  <2>2. QED
    BY <1>14, <2>1 DEF Restart, TypeInv, TypeOK, TreeDirs
<1>15. CASE UNCHANGED vars
  BY <1>15 DEF vars, TypeInv, TypeOK
<1>16. QED
  BY <1>5, <1>6, <1>7, <1>8, <1>9, <1>10, <1>12, <1>13, <1>14, <1>15 DEF Next

\* The invariants hold at the start.
LEMMA TypeInit == Init => TypeInv /\ WholeTree /\ TempInv
<1>1. Idle.pc = "idle"
  BY DEF Idle
<1>2. Init => TypeInv
  <2> SUFFICES ASSUME Init PROVE TypeInv
    OBVIOUS
  <2>1. dirs \subseteq TreeDirs /\ files \subseteq TempFiles \union FinalFiles
    BY DEF Init, TreeDirs
  <2>2. req \in [Requests -> Work \union {Idle}]
    BY DEF Init
  <2>3. /\ answer \in Answers \union {NoAnswer}
        /\ swept \subseteq Requests
        /\ restarted \in BOOLEAN
    BY DEF Init
  <2>4. \A r \in Requests : req[r].pc # "mkdir"
    BY <1>1 DEF Init
  <2>5. QED
    BY <2>1, <2>2, <2>3, <2>4 DEF TypeInv, TypeOK
<1>3. Init => WholeTree
  BY Parents DEF Init, WholeTree
<1>4. Init => TempInv
  BY <1>1 DEF Init, TempInv, OwnTempFile, HasTemp
<1>5. QED
  BY <1>2, <1>3, <1>4

\* Type correctness of the file store.
THEOREM TypeCorrect == Spec => []TypeOK
<1>1. TypeInv => TypeOK
  BY DEF TypeInv
<1>2. QED
  BY <1>1, TypeInit, TypeStep, TreeStep, TempStep, PTL DEF Spec

-----------------------------------------------------------------------------
(* Empty directories.                                                      *)

\* The directories that are not left empty.
Cleared == dirs \ {Base, TmpDir, ObjectsDir}

\* A step of request r leaves every empty directory with a request that
\* settles it: r from now on, or the one that did so far.
LEMMA StillSettled ==
    ASSUME EmptySettled, TempInv, NEW r \in Requests, NEW work, Goto(r, work),
           UNCHANGED restarted,
           \A d \in Cleared' :
               Children(d)' = {} =>
                   \/ Settles(r, d)'
                   \/ d \in dirs /\ Children(d) = {} /\ ~Settles(r, d)
    PROVE  EmptySettled'
<1>1. req' = [req EXCEPT ![r] = req'[r]] /\ req = [s \in Requests |-> req[s]]
  BY Going DEF TempInv
<1>2. \A s \in Requests \ {r} : req'[s] = req[s]
  BY <1>1
<1>3. \A s \in Requests \ {r} : \A d : Settles(s, d)' <=> Settles(s, d)
  BY <1>2 DEF Settles, StandsOn, Footing
<1>4. SUFFICES ASSUME ~restarted, NEW d \in Cleared', Children(d)' = {}
               PROVE  \E s \in Requests : Settles(s, d)'
  BY DEF EmptySettled, Cleared
<1>5. CASE d \in dirs /\ Children(d) = {} /\ ~Settles(r, d)
  <2>1. PICK s \in Requests : Settles(s, d)
    BY <1>4, <1>5 DEF EmptySettled, Cleared
  <2>2. QED
    BY <1>3, <1>5, <2>1
<1>6. QED
  BY <1>4, <1>5

\* A step that keeps the directories, and removes no file but from tmp/ and
\* from those in gone, empties no others.
LEMMA EmptiedBefore ==
    ASSUME UNCHANGED dirs, NEW gone,
           \A f \in files \ files' : Parent(f) = TmpDir \/ Parent(f) \in gone,
           NEW d \in Cleared', Children(d)' = {}
    PROVE  d \in gone \/ (d \in dirs /\ Children(d) = {})
BY DEF Cleared, Children

\* A request that neither climbs nor makes directories changes nothing of it.
LEMMA OthersSettle ==
    ASSUME EmptySettled, TempInv, NEW r \in Requests, NEW work, Goto(r, work),
           req[r].pc \notin {"climb", "mkdir", "rename"},
           UNCHANGED <<dirs, restarted>>,
           \A f \in files \ files' : Parent(f) = TmpDir
    PROVE  EmptySettled'
<1>1. \A d : ~Settles(r, d)
  BY DEF Settles, StandsOn, Footing
<1>2. QED
  BY <1>1, StillSettled, EmptiedBefore

\* An upload puts something into the directory it settles, or that directory
\* is gone; a directory it makes it settles next.
LEMMA MkdirSettles ==
    ASSUME EmptySettled, TempInv, TypeInv, NEW r \in Requests, Mkdir(r)
    PROVE  EmptySettled'
<1> DEFINE w == req[r]
           dir == Above(w.ns, w.hash, w.depth)
<1>1. /\ w.pc = "mkdir" /\ w.depth \in 1..4
      /\ Parent(dir) = Above(w.ns, w.hash, w.depth - 1) /\ dir # Base
      /\ w.tmp \in TempFiles
  BY Ancestors DEF Mkdir, TypeInv, TempInv, HasTemp
<1>2. \A d : Settles(r, d) => d = Parent(dir)
  BY <1>1 DEF Settles, StandsOn, Footing
<1>3. CASE Parent(dir) \in dirs
  <2> DEFINE work == IF w.depth = 4 THEN MkdirDone(w)
                                    ELSE MkdirAll(w, "mkdir", w.depth + 1)
  <2>1. Goto(r, work) /\ dirs' = dirs \union {dir} /\ UNCHANGED <<files, restarted>>
    BY <1>3 DEF Mkdir
  <2>2. req'[r] = work
    BY <2>1, Going
  <2>3. ASSUME NEW d, d = dir
        PROVE  Settles(r, d)'
    <3>1. CASE w.depth = 4
      BY <2>2, <2>3, <3>1, Ancestors DEF Settles, StandsOn, Footing, MkdirDone
    <3>2. CASE w.depth # 4
      <4>1. /\ req'[r].pc = "mkdir" /\ req'[r].ns = w.ns /\ req'[r].hash = w.hash
            /\ req'[r].depth - 1 = w.depth
        BY <1>1, <2>2, <3>2 DEF MkdirAll
      <4>2. QED
        BY <2>3, <4>1 DEF Settles, StandsOn, Footing
    <3>3. QED
      BY <3>1, <3>2
  <2> HIDE DEF work
  <2>4. \A d : Children(d) \subseteq Children(d)'
    BY <2>1 DEF Children
  <2>5. ASSUME NEW d, d = Parent(dir)
        PROVE  Children(d)' # {}
    BY <1>1, <2>1, <2>5 DEF Children
  <2>6. ASSUME NEW d \in Cleared', Children(d)' = {}
        PROVE  Settles(r, d)' \/ (d \in dirs /\ Children(d) = {} /\ ~Settles(r, d))
    BY <1>2, <2>1, <2>3, <2>4, <2>5, <2>6 DEF Cleared
  <2>7. QED
    BY <2>1, <2>6, StillSettled
<1>4. CASE Parent(dir) \notin dirs
  <2>1. Goto(r, Idle) /\ files' = files \ {w.tmp} /\ UNCHANGED <<dirs, restarted>>
    BY <1>4 DEF Mkdir, Finish
  <2>2. \A f \in files \ files' : Parent(f) = TmpDir
    BY <1>1, <2>1, Parents
  <2>3. QED
    BY <1>2, <1>4, <2>1, <2>2, StillSettled, EmptiedBefore
<1>5. QED
  BY <1>3, <1>4

\* A rename puts a file into the shard directory, or that directory is gone.
LEMMA RenameSettles ==
    ASSUME EmptySettled, TempInv, NEW r \in Requests, Rename(r)
    PROVE  EmptySettled'
<1> DEFINE w == req[r]
           path == ShardedPath(w.ns, w.hash)
<1>1. /\ w.pc = "rename"
      /\ w.tmp \in TempFiles /\ w.ns \in Namespaces /\ w.hash \in Hashes
  BY DEF Rename, TempInv, HasTemp
<1>2. \A d : Settles(r, d) => d = ShardDir(w.ns, w.hash)
  BY <1>1 DEF Settles, StandsOn, Footing
<1>3. Goto(r, Idle) /\ UNCHANGED <<dirs, restarted>>
  BY DEF Rename, Stores, Finish
<1>4. \A f \in files \ files' : Parent(f) = TmpDir
  BY <1>1, Parents DEF Rename
<1>5. CASE ShardDir(w.ns, w.hash) \in dirs
  <2>1. path \in files' /\ path # Base /\ Parent(path) = ShardDir(w.ns, w.hash)
    BY <1>1, <1>5, Parents DEF Rename, ShardedPath, Base
  <2>2. ASSUME NEW d, d = ShardDir(w.ns, w.hash)
        PROVE  Children(d)' # {}
    BY <2>1, <2>2 DEF Children
  <2>3. QED
    BY <1>2, <1>3, <1>4, <2>2, StillSettled, EmptiedBefore
<1>6. CASE ShardDir(w.ns, w.hash) \notin dirs
  BY <1>2, <1>3, <1>4, <1>6, StillSettled, EmptiedBefore
<1>7. QED
  BY <1>5, <1>6

\* A delete that empties the shard directory begins to climb there.
LEMMA RemoveSettles ==
    ASSUME EmptySettled, TempInv, NEW r \in Requests, RemoveFile(r)
    PROVE  EmptySettled'
<1> DEFINE w == req[r]
           shard == ShardDir(w.ns, w.hash)
<1>1. w.pc = "remove" /\ w.ns \in Namespaces /\ w.hash \in Hashes
  BY DEF RemoveFile, TempInv
<1>2. CASE Finish(r, 500) /\ UNCHANGED files
  BY <1>1, <1>2, OthersSettle DEF RemoveFile, Finish
<1>3. CASE /\ files' = files \ {ShardedPath(w.ns, w.hash)}
           /\ Goto(r, [pc |-> "climb", at |-> shard])
  <2>1. UNCHANGED <<dirs, restarted>> /\ \A d : ~Settles(r, d)
    BY <1>1 DEF RemoveFile, Settles, StandsOn, Footing
  <2>2. \A f \in files \ files' : Parent(f) \in {shard}
    BY <1>1, <1>3, Parents
  <2>3. req'[r].pc = "climb" /\ req'[r].at = shard
    BY <1>3, Going
  <2>4. ASSUME NEW d, d = shard
        PROVE  Settles(r, d)'
    BY <2>3, <2>4 DEF Settles, StandsOn, Footing
  <2> HIDE DEF shard
  <2>5. \A d \in Cleared' : Children(d)' = {} =>
             d = shard \/ (d \in dirs /\ Children(d) = {})
    BY <2>1, <2>2, EmptiedBefore
  <2>6. QED
    BY <1>3, <2>1, <2>4, <2>5, StillSettled
<1>4. QED
  BY <1>2, <1>3 DEF RemoveFile

\* A climb removes the directory it settles and settles the one above, or finds
\* something in it, or nothing where it was.
LEMMA ClimbSettles ==
    ASSUME EmptySettled, TempInv, NEW r \in Requests, Climb(r)
    PROVE  EmptySettled'
<1> DEFINE at == req[r].at
<1>1. req[r].pc = "climb" /\ UNCHANGED <<files, restarted>>
  BY DEF Climb
<1>2. \A d : Settles(r, d) => d = at
  BY <1>1 DEF Settles, StandsOn, Footing
<1>3. CASE at = ObjectsDir \/ at \notin dirs \/ Children(at) # {}
  <2>1. Goto(r, Idle) /\ UNCHANGED dirs
    BY <1>3 DEF Climb, Finish
  <2>2. QED
    BY <1>1, <1>2, <1>3, <2>1, StillSettled DEF Cleared, Children
<1>4. CASE at # ObjectsDir /\ at \in dirs /\ Children(at) = {}
  <2>1. dirs' = dirs \ {at}
    BY <1>4 DEF Climb
  <2>2. CASE at = Base
    <3>1. Goto(r, Idle)
      BY <1>4, <2>2 DEF Climb, Finish
    <3>2. \A d : Children(d)' = Children(d)
      BY <1>1, <2>1, <2>2 DEF Children
    <3>3. QED
      BY <1>1, <1>2, <2>1, <3>1, <3>2, StillSettled DEF Cleared
  <2>3. CASE at # Base
    <3>1. Goto(r, [pc |-> "climb", at |-> Parent(at)])
      BY <1>4, <2>3 DEF Climb
    <3>2. req'[r].pc = "climb" /\ req'[r].at = Parent(at)
      BY <3>1, Going
    <3>3. ASSUME NEW d, d = Parent(at)
          PROVE  Settles(r, d)'
      BY <3>2, <3>3 DEF Settles, StandsOn, Footing
    <3> HIDE DEF at
    <3>4. \A d : d # Parent(at) => Children(d) \subseteq Children(d)'
      BY <1>1, <2>1 DEF Children
    <3>5. QED
      BY <1>1, <1>2, <2>1, <3>1, <3>3, <3>4, StillSettled DEF Cleared
  <2>4. QED
    BY <2>2, <2>3
<1>5. QED
  BY <1>3, <1>4

\* Every step leaves the empty directories to a request that settles them.
LEMMA SettledStep == EmptySettled /\ TypeInv /\ TempInv /\ [Next]_vars => EmptySettled'
<1> SUFFICES ASSUME EmptySettled, TypeInv, TempInv, [Next]_vars PROVE EmptySettled'
  OBVIOUS
<1>1. ASSUME NEW r \in Requests,
             \/ CopyFails(r) \/ CopyDone(r) \/ Stat(r) \/ StartProbe(r) \/ EndProbe(r)
             \/ \E ns \in Namespaces, h \in Hashes :
                  StartUpload(r, ns, h) \/ StartDelete(r, ns, h)
      PROVE  EmptySettled'
  <2>1. req[r] = Idle \/ req[r].pc \in {"copy", "stat", "probe"}
    BY <1>1 DEF CopyFails, CopyDone, Stat, StartProbe, EndProbe, StartUpload,
       StartDelete
  <2>2. UNCHANGED <<dirs, restarted>> /\ \E work : Goto(r, work)
    BY <1>1 DEF CopyFails, CopyDone, Stat, StartProbe, EndProbe, StartUpload,
       StartDelete, Finish
  <2>3. \A f \in files \ files' : HasTemp(r) /\ f = req[r].tmp
    BY <1>1 DEF CopyFails, CopyDone, Stat, StartProbe, EndProbe, StartUpload,
       StartDelete, HasTemp
  <2>4. \A f \in files \ files' : Parent(f) = TmpDir
    BY <2>3, Parents DEF TempInv
  <2>5. req[r].pc \notin {"climb", "mkdir", "rename"}
    BY <2>1 DEF Idle
  <2>6. QED
    BY <2>2, <2>4, <2>5, OthersSettle
<1>2. CASE Restart
  BY <1>2 DEF Restart, EmptySettled
<1>3. CASE UNCHANGED vars
  BY <1>3 DEF vars, EmptySettled, Settles, StandsOn, Footing, Children
<1>4. QED
  BY <1>1, <1>2, <1>3, MkdirSettles, RenameSettles, RemoveSettles, ClimbSettles DEF Next

\* Between requests no empty directory is left, whatever restarts do not cut
\* short.
THEOREM EmptyDirsGone == Spec => []NoEmptyDirLeft
<1>1. Init => EmptySettled
  BY DEF Init, EmptySettled
<1>2. Init => TypeInv /\ WholeTree /\ TempInv
  BY TypeInit
<1>3. EmptySettled => NoEmptyDirLeft
  BY DEF EmptySettled, NoEmptyDirLeft, Settles, StandsOn, Idle
<1>4. QED
  BY <1>1, <1>2, <1>3, SettledStep, TypeStep, TreeStep, TempStep, PTL DEF Spec

-----------------------------------------------------------------------------
(* Directories under uploads.                                              *)

\* A step of request r that removes no directory leaves the others standing.
LEMMA OthersStand ==
    ASSUME StandsFirm, TempInv, NEW r \in Requests, NEW work, Goto(r, work),
           dirs \subseteq dirs', swept \ {r} \subseteq swept',
           req'[r].pc \in {"mkdir", "rename"} => Footing(r)' \in dirs'
    PROVE  StandsFirm'
<1>1. /\ req'[r] = work
      /\ \A s \in Requests \ {r} : req'[s] = req[s]
  BY Going DEF TempInv
<1>2. ASSUME NEW s \in Requests \ swept', req'[s].pc \in {"mkdir", "rename"}
      PROVE  Footing(s)' \in dirs'
  <2>1. CASE s = r
    BY <1>2, <2>1
  <2>2. CASE s # r
    <3>1. s \notin swept /\ req'[s] = req[s]
      BY <1>1, <1>2, <2>2
    <3>2. Footing(s)' = Footing(s) /\ Footing(s) \in dirs
      BY <1>2, <3>1 DEF Footing, StandsFirm
    <3>3. QED
      BY <3>2
  <2>3. QED
    BY <2>1, <2>2
<1>3. QED
  BY <1>2 DEF StandsFirm

\* Uploads keep their footing: an upload stands on the directory it has found or
\* made last, and only a climb, which sweeps whoever stands there, removes it.
LEMMA FirmStep == StandsFirm /\ TypeInv /\ TempInv /\ [Next]_vars => StandsFirm'
<1> SUFFICES ASSUME StandsFirm, TypeInv, TempInv, [Next]_vars PROVE StandsFirm'
  OBVIOUS
<1>1. ASSUME NEW r \in Requests, NEW work, Goto(r, work),
             work.pc \notin {"mkdir", "rename"},
             dirs \subseteq dirs', swept \ {r} \subseteq swept'
      PROVE  StandsFirm'
  <2>1. req'[r].pc \notin {"mkdir", "rename"}
    BY <1>1, Going
  <2>2. QED
    BY <1>1, <2>1, OthersStand
<1>2. Idle.pc \notin {"mkdir", "rename"}
  BY DEF Idle
<1>3. ASSUME NEW r \in Requests,
             \/ CopyFails(r) \/ CopyDone(r) \/ StartProbe(r) \/ EndProbe(r)
             \/ Rename(r) \/ RemoveFile(r)
             \/ \E ns \in Namespaces, h \in Hashes :
                  StartUpload(r, ns, h) \/ StartDelete(r, ns, h)
      PROVE  StandsFirm'
  <2>1. dirs' = dirs /\ swept \ {r} \subseteq swept'
    BY <1>3 DEF CopyFails, CopyDone, StartProbe, EndProbe, Rename, RemoveFile,
       StartUpload, StartDelete, Finish, Stores
  <2>2. CASE Goto(r, Idle)
    BY <1>1, <1>2, <2>1, <2>2
  <2>3. CASE \E ns, h, tmp :
               Goto(r, [pc |-> "copy", ns |-> ns, hash |-> h, tmp |-> tmp])
    BY <1>1, <2>1, <2>3
  <2>4. CASE \E tmp : Goto(r, [pc |-> "probe", tmp |-> tmp])
    BY <1>1, <2>1, <2>4
  <2>5. CASE \E ns, h : Goto(r, [pc |-> "remove", ns |-> ns, hash |-> h])
    BY <1>1, <2>1, <2>5
  <2>6. CASE \E at : Goto(r, [pc |-> "climb", at |-> at])
    BY <1>1, <2>1, <2>6
  <2>7. CASE CopyDone(r)
    BY <1>1, <2>1, <2>7 DEF CopyDone, MkdirAll
  <2>8. ASSUME NEW ns, NEW h, StartUpload(r, ns, h) \/ StartDelete(r, ns, h)
        PROVE  StandsFirm'
    BY <2>2, <2>3, <2>5, <2>8 DEF StartUpload, StartDelete, Finish
  <2>9. QED
    BY <1>3, <2>2, <2>4, <2>6, <2>7, <2>8 DEF CopyFails, StartProbe, EndProbe, Rename,
       RemoveFile, Finish, Stores
<1>4. ASSUME NEW r \in Requests, Stat(r)
      PROVE  StandsFirm'
  <2> DEFINE w == req[r]
  <2>1. w.depth \in 0..4 /\ UNCHANGED <<dirs, swept>>
    BY <1>4, WorkShape DEF Stat, TypeInv, TypeOK
  <2>2. CASE w.depth = 4 /\ Above(w.ns, w.hash, w.depth) \in dirs
             /\ Goto(r, MkdirDone(w))
    <3>1. req'[r] = MkdirDone(w)
      BY <2>2, Going
    <3>2. Footing(r)' = ShardDir(w.ns, w.hash)
      BY <3>1 DEF Footing, MkdirDone
    <3>3. Footing(r)' \in dirs'
      BY <2>1, <2>2, <3>2, Ancestors
    <3>4. QED
      BY <2>1, <2>2, <3>3, OthersStand
  <2>3. CASE w.depth < 4 /\ Above(w.ns, w.hash, w.depth) \in dirs
             /\ Goto(r, MkdirAll(w, "mkdir", w.depth + 1))
    <3>1. req'[r] = MkdirAll(w, "mkdir", w.depth + 1)
      BY <2>3, Going
    <3>2. /\ req'[r].pc = "mkdir" /\ req'[r].ns = w.ns /\ req'[r].hash = w.hash
          /\ req'[r].depth - 1 = w.depth
      BY <2>1, <3>1 DEF MkdirAll
    <3>3. Footing(r)' = Above(w.ns, w.hash, w.depth)
      BY <3>2 DEF Footing
    <3>4. Footing(r)' \in dirs'
      BY <2>1, <2>3, <3>3
    <3>5. QED
      BY <2>1, <2>3, <3>4, OthersStand
  <2>4. CASE Goto(r, MkdirAll(w, "stat", w.depth - 1))
    BY <1>1, <2>1, <2>4 DEF MkdirAll
  <2>5. QED
    BY <1>4, <2>2, <2>3, <2>4 DEF Stat
<1>5. ASSUME NEW r \in Requests, Mkdir(r)
      PROVE  StandsFirm'
  <2> DEFINE w == req[r]
             dir == Above(w.ns, w.hash, w.depth)
  <2>1. w.depth \in 1..4
    BY <1>5 DEF Mkdir, TypeInv
  <2>2. CASE Finish(r, 500) /\ UNCHANGED dirs
    BY <1>1, <1>2, <2>2 DEF Finish
  <2>3. CASE /\ dirs' = dirs \union {dir}
             /\ Goto(r, IF w.depth = 4 THEN MkdirDone(w)
                        ELSE MkdirAll(w, "mkdir", w.depth + 1))
             /\ UNCHANGED swept
    <3>1. req'[r] = IF w.depth = 4 THEN MkdirDone(w)
                    ELSE MkdirAll(w, "mkdir", w.depth + 1)
      BY <2>3, Going
    <3>2. Footing(r)' = dir
      <4>1. CASE w.depth = 4
        BY <3>1, <4>1, Ancestors DEF Footing, MkdirDone
      <4>2. CASE w.depth # 4
        <5>1. /\ req'[r].pc = "mkdir" /\ req'[r].ns = w.ns /\ req'[r].hash = w.hash
              /\ req'[r].depth - 1 = w.depth
          BY <2>1, <3>1, <4>2 DEF MkdirAll
        <5>2. QED
          BY <5>1 DEF Footing
      <4>3. QED
        BY <4>1, <4>2
    <3>3. Footing(r)' \in dirs' /\ dirs \subseteq dirs' /\ swept \ {r} \subseteq swept'
      BY <2>3, <3>2
    <3>4. QED
      BY <2>3, <3>3, OthersStand
  <2>4. QED
    BY <1>5, <2>2, <2>3 DEF Mkdir
<1>6. ASSUME NEW r \in Requests, Climb(r)
      PROVE  StandsFirm'
  <2> DEFINE at == req[r].at
  <2>1. CASE Finish(r, 204) /\ UNCHANGED dirs
    BY <1>1, <1>2, <2>1 DEF Finish
  <2>2. CASE /\ dirs' = dirs \ {at}
             /\ swept' = swept \union {s \in Requests : StandsOn(s, at)}
             /\ req' = [req EXCEPT ![r] = req'[r]]
             /\ req'[r].pc \notin {"mkdir", "rename"}
    <3>1. \A s \in Requests \ {r} : req'[s] = req[s]
      BY <2>2 DEF TempInv
    <3>3. ASSUME NEW s \in Requests \ swept', req'[s].pc \in {"mkdir", "rename"}
          PROVE  Footing(s)' \in dirs'
      <4>1. s # r /\ s \notin swept /\ ~StandsOn(s, at)
        BY <2>2, <3>3
      <4>2. req'[s] = req[s]
        BY <3>1, <4>1
      <4>3. Footing(s)' = Footing(s) /\ Footing(s) \in dirs /\ Footing(s) # at
        BY <3>3, <4>1, <4>2 DEF StandsFirm, StandsOn, Footing
      <4>4. QED
        BY <2>2, <4>3
    <3>4. QED
      BY <3>3 DEF StandsFirm
  <2>3. ASSUME NEW work, Goto(r, work), work.pc \notin {"mkdir", "rename"}
        PROVE  req' = [req EXCEPT ![r] = req'[r]] /\ req'[r].pc \notin {"mkdir", "rename"}
    BY <2>3, Going
  <2>4. QED
    BY <1>2, <1>6, <2>1, <2>2, <2>3 DEF Climb
<1>7. CASE Restart
  BY <1>2, <1>7 DEF Restart, StandsFirm
<1>8. CASE UNCHANGED vars
  BY <1>8 DEF vars, StandsFirm, Footing
<1>9. QED
  BY <1>3, <1>4, <1>5, <1>6, <1>7, <1>8 DEF Next

\* A step that ends an upload which stands firm has stored it, or had not read
\* its body yet, and has taken its temp file away.
LEMMA EndsWell ==
    ASSUME StandsFirm, TypeInv, TempInv, Next, ~Restart,
           NEW r \in Requests \ swept, HasTemp(r), req'[r] = Idle
    PROVE  /\ req[r].tmp \notin files'
           /\ req[r].pc \in {"mkdir", "rename"} => answer'.status = 201
<1> DEFINE w == req[r]
<1>1. /\ w.tmp \in TempFiles
      /\ w.pc \in {"copy", "stat", "mkdir", "rename"} =>
            w.ns \in Namespaces /\ w.hash \in Hashes
  BY DEF TempInv
<1>2. w.pc \in {"copy", "stat", "mkdir", "rename", "probe"} /\ Idle.pc = "idle"
  BY DEF HasTemp, Idle
<1>3. PICK s \in Requests :
        \/ \E ns \in Namespaces, h \in Hashes : StartUpload(s, ns, h) \/ StartDelete(s, ns, h)
        \/ CopyFails(s) \/ CopyDone(s) \/ Stat(s) \/ Mkdir(s) \/ Rename(s)
        \/ RemoveFile(s) \/ Climb(s)
        \/ StartProbe(s) \/ EndProbe(s)
  BY DEF Next
<1>4. \E work : Goto(s, work)
  BY <1>3 DEF StartUpload, StartDelete, CopyFails, CopyDone, Stat, Mkdir, Rename,
     RemoveFile, Climb, StartProbe, EndProbe, Finish, Stores
<1>5. s = r
  <2>1. s # r => req'[r] = req[r]
    BY <1>4, Going DEF TempInv
  <2>2. QED
    BY <1>2, <2>1
<1>6. \/ CopyFails(r) \/ CopyDone(r) \/ Stat(r) \/ Mkdir(r) \/ Rename(r) \/ EndProbe(r)
  BY <1>2, <1>3, <1>5 DEF StartUpload, StartDelete, StartProbe, RemoveFile, Climb
<1>7. ASSUME NEW work, Goto(r, work)
      PROVE  work.pc = "idle"
  BY <1>2, <1>7, Going
<1>8. ~CopyDone(r) /\ ~Stat(r)
  BY <1>7 DEF CopyDone, Stat, MkdirAll, MkdirDone
<1>9. CASE CopyFails(r) \/ EndProbe(r)
  BY <1>9 DEF CopyFails, EndProbe
<1>10. CASE Mkdir(r)
  <2>1. w.depth \in 1..4
    BY <1>10 DEF Mkdir, TypeInv
  <2>2. Parent(Above(w.ns, w.hash, w.depth)) \in dirs
    BY <1>10, <2>1, Ancestors DEF Mkdir, StandsFirm, Footing
  <2>3. Goto(r, IF w.depth = 4 THEN MkdirDone(w) ELSE MkdirAll(w, "mkdir", w.depth + 1))
    BY <1>10, <2>2 DEF Mkdir
  <2>4. QED
    BY <1>7, <2>3 DEF MkdirDone, MkdirAll
<1>11. CASE Rename(r)
  <2>1. ShardDir(w.ns, w.hash) \in dirs
    BY <1>11 DEF Rename, StandsFirm, Footing
  <2>2. /\ files' = (files \ {w.tmp}) \union {ShardedPath(w.ns, w.hash)}
        /\ answer'.status = 201
    BY <1>11, <2>1 DEF Rename, Stores
  <2>3. ShardedPath(w.ns, w.hash) # w.tmp
    BY <1>1, <1>11, PathsApart DEF Rename
  <2>4. QED
    BY <2>2, <2>3
<1>12. QED
  BY <1>6, <1>8, <1>9, <1>10, <1>11

\* Uploads do not fail each other, and leave nothing in tmp/, unless a climb or
\* a stop of the process comes between.
THEOREM UploadsUnharmed == Spec => UploadsGoThrough
<1>1. Init => StandsFirm
  BY DEF Init, StandsFirm, Idle
<1>2. Init => TypeInv /\ WholeTree /\ TempInv
  BY TypeInit
<1>3. StandsFirm /\ TypeInv /\ TempInv /\ [Next]_vars =>
        [\A r \in Requests \ swept :
           HasTemp(r) /\ req'[r] = Idle /\ ~Restart =>
               /\ req[r].tmp \notin files'
               /\ req[r].pc \in {"mkdir", "rename"} => answer'.status = 201]_vars
  BY EndsWell
<1>4. QED
  BY <1>1, <1>2, <1>3, FirmStep, TypeStep, TreeStep, TempStep, PTL
     DEF Spec, UploadsGoThrough

-----------------------------------------------------------------------------
(* The climb and tmp/.                                                     *)

\* No climb is at tmp/.
TmpSpared ==
    /\ TmpDir \in dirs
    /\ \A r \in Requests : req[r].pc = "climb" => req[r].at # TmpDir

\* The directories above a stored file begin with its bucket's name.
LEMMA AboveTmp ==
    ASSUME "tmp" \notin Namespaces, NEW ns \in Namespaces, NEW h, NEW n \in 0..4
    PROVE  Above(ns, h, n) # TmpDir
<1> DEFINE f == ShardedPath(ns, h)
           S == {f[i] : i \in 1..5}
           s == SubSeq(f, 1, 4)
<1>1. f[1] = ns /\ Len(f) = 5
  BY DEF ShardedPath
<1>2. \A i \in 1..5 : f[i] \in S
  OBVIOUS
<1>3. ShardDir(ns, h) = s
  BY <1>1 DEF ShardDir, Parent
<1> HIDE DEF f, S
<1>4. s \in Seq(S) /\ Len(s) = 4 /\ \A i \in 1..4 : s[i] = f[i]
  <2>1. \A i \in 1..4 : f[i] \in S
    BY <1>2
  <2>2. QED
    BY <2>1, SubSeqProperties
<1> HIDE DEF s
<1>5. n > 0 => SubSeq(s, 1, n)[1] = ns
  <2>1. \A i \in 1..n : s[i] \in S
    BY <1>2, <1>4
  <2>2. \A i \in 1..n : SubSeq(s, 1, n)[i] = s[i]
    BY <2>1, SubSeqProperties
  <2>3. QED
    BY <1>1, <1>4, <2>2
<1>6. TmpDir[1] = "tmp" /\ TmpDir # Base
  BY DEF TmpDir, Base
<1>7. CASE n = 0
  BY <1>6, <1>7, Ancestors
<1>8. CASE n > 0
  BY <1>3, <1>5, <1>6, <1>8 DEF Above
<1>9. QED
  BY <1>7, <1>8

\* A climb of no bucket named tmp passes tmp/ by: it comes to the data directory
\* from the bucket's own, and finds tmp/ in it.
LEMMA SparedStep ==
    ASSUME "tmp" \notin Namespaces, TmpSpared, TypeInv', [Next]_vars
    PROVE  TmpSpared'
<1>1. \A r \in Requests : req'[r].pc = "climb" => req'[r].at # TmpDir
  <2>1. \A r \in Requests : req'[r] \in Work \union {Idle}
    BY DEF TypeInv, TypeOK
  <2>2. QED
    BY <2>1, AboveTmp, WorkShape
<1>2. TmpDir \in dirs'
  <2>1. ASSUME NEW r \in Requests, Climb(r)
        PROVE  TmpDir \in dirs'
    <3>1. req[r].pc = "climb" /\ dirs \ {req[r].at} \subseteq dirs'
      BY <2>1 DEF Climb
    <3>2. QED
      BY <3>1 DEF TmpSpared
  <2>2. ASSUME NEW r \in Requests, NEW ns, NEW h, StartUpload(r, ns, h) \/ StartDelete(r, ns, h)
        PROVE  TmpDir \in dirs'
    BY <2>2 DEF StartUpload, StartDelete, TmpSpared
  <2>3. ASSUME NEW r \in Requests,
               \/ CopyFails(r) \/ CopyDone(r) \/ Stat(r) \/ Mkdir(r) \/ Rename(r)
               \/ RemoveFile(r) \/ StartProbe(r) \/ EndProbe(r)
        PROVE  TmpDir \in dirs'
    BY <2>3 DEF TmpSpared, CopyFails, CopyDone, Stat, Mkdir, Rename, RemoveFile,
       StartProbe, EndProbe
  <2>4. CASE Restart \/ UNCHANGED vars
    BY <2>4 DEF Restart, vars, TmpSpared
  <2>5. QED
    BY <2>1, <2>2, <2>3, <2>4 DEF Next
<1>3. QED
  BY <1>1, <1>2 DEF TmpSpared

\* tmp/ stays, unless there is a bucket of that name.
THEOREM TmpDirKept == "tmp" \notin Namespaces => (Spec => []TmpDirStays)
<1> SUFFICES ASSUME "tmp" \notin Namespaces PROVE Spec => []TmpDirStays
  OBVIOUS
<1>1. Init => TmpSpared
  BY DEF Init, TmpSpared, Idle
<1>2. Init => TypeInv /\ WholeTree /\ TempInv
  BY TypeInit
<1>3. TmpSpared /\ TypeInv' /\ [Next]_vars => TmpSpared'
  BY SparedStep
<1>4. TmpSpared => TmpDirStays
  BY DEF TmpSpared, TmpDirStays
<1>5. QED
  BY <1>1, <1>2, <1>3, <1>4, TypeStep, TreeStep, TempStep, PTL DEF Spec

-----------------------------------------------------------------------------
(* The set of contents.                                                    *)

\* What is stored is read off the sharded paths, so only a step that adds or
\* removes one of them changes it.
LEMMA StoredSame ==
    ASSUME \A ns \in Namespaces, h \in Hashes :
               ShardedPath(ns, h) \in files' <=> ShardedPath(ns, h) \in files
    PROVE  UNCHANGED Stored
BY DEF Stored

\* No temp file is a stored one.
LEMMA StoredApart ==
    ASSUME NEW tmps \in SUBSET TempFiles, files \ tmps \subseteq files',
           files' \subseteq files \union tmps
    PROVE  UNCHANGED Stored
BY StoredSame, PathsApart

\* What a request asks for changes only with a step of its own.
LEMMA AskedStep ==
    ASSUME TempInv, NEW r \in Requests, NEW work, Goto(r, work)
    PROVE  /\ Asked' = [Asked EXCEPT ![r] = AskedFor(work)]
           /\ Asked[r] = AskedFor(req[r])
<1>1. /\ req = [s \in Requests |-> req[s]]
      /\ req' = [req EXCEPT ![r] = work]
  BY DEF TempInv, Goto
<1>2. \A s \in Requests : req'[s] = IF s = r THEN work ELSE req[s]
  BY <1>1
<1>3. Asked' = [s \in Requests |-> IF s = r THEN AskedFor(work) ELSE AskedFor(req[s])]
  BY <1>2, Zenon DEF Asked
<1>4. QED
  BY <1>3 DEF Asked

\* What a request asks for in each of its states.
LEMMA Asks ==
    ASSUME NEW w
    PROVE  /\ w.pc \in {"copy", "stat", "mkdir", "rename"} =>
                 AskedFor(w) = [op |-> "upload", ns |-> w.ns, hash |-> w.hash]
           /\ w.pc = "remove" =>
                 AskedFor(w) = [op |-> "delete", ns |-> w.ns, hash |-> w.hash]
           /\ w.pc = "climb" => AskedFor(w) = Blobs!Dropped
           /\ w.pc \in {"idle", "probe"} => AskedFor(w) = Blobs!Free
BY DEF AskedFor, Blobs!Dropped, Blobs!Free

\* A step of the handler that a client does not see.
LEMMA HiddenStep ==
    ASSUME TempInv, NEW r \in Requests, NEW work, Goto(r, work),
           AskedFor(work) = AskedFor(req[r]), UNCHANGED Stored, UNCHANGED answer
    PROVE  UNCHANGED Blobs!vars
<1>1. Asked' = Asked
  BY AskedStep DEF Asked
<1>2. QED
  BY <1>1 DEF Blobs!vars

\* A request for a content arrives.
LEMMA ArriveStep ==
    ASSUME TempInv, NEW r \in Requests, NEW work, Goto(r, work), req[r] = Idle,
           NEW ns \in Namespaces, NEW h \in Hashes, NEW op \in {"upload", "delete"},
           AskedFor(work) = [op |-> op, ns |-> ns, hash |-> h],
           UNCHANGED Stored, UNCHANGED answer
    PROVE  Blobs!Next
<1>1. Asked[r] = Blobs!Free /\ Asked' = [Asked EXCEPT ![r] = AskedFor(work)]
  BY AskedStep, Asks DEF Idle
<1>2. Blobs!Arrive(r, op, ns, h)
  BY <1>1 DEF Blobs!Arrive
<1>3. QED
  BY <1>2 DEF Blobs!Next

\* A request that has changed nothing is answered, with a status that fits.
LEMMA AnswerStep ==
    ASSUME TempInv, NEW r \in Requests, NEW status, Finish(r, status),
           UNCHANGED Stored,
           \/ req[r].pc \in {"idle", "probe"} /\ status \in {200, 500, 503}
           \/ req[r].pc \in {"copy", "mkdir", "rename", "remove"} /\ status = 500
           \/ req[r].pc = "climb" /\ status = 204
    PROVE  Blobs!Next
<1>1. AskedFor(Idle) = Blobs!Free
  BY Asks DEF Idle
<1>2. /\ Asked' = [Asked EXCEPT ![r] = Blobs!Free]
      /\ Asked[r] = AskedFor(req[r])
      /\ answer' = [status |-> status, ref |-> NoAnswer]
  BY <1>1, AskedStep DEF Finish
<1>3. Blobs!Respond(r, status, NoAnswer)
  BY <1>2 DEF Blobs!Respond
<1>4. CASE req[r].pc \in {"idle", "probe"} /\ status \in {200, 500, 503}
  <2>1. Blobs!Turn(r, status)
    BY <1>2, <1>3, <1>4, Asks DEF Blobs!Turn
  <2>2. QED
    BY <1>4, <2>1 DEF Blobs!Next
<1>5. CASE req[r].pc \in {"copy", "mkdir", "rename", "remove"} /\ status = 500
  <2>1. Asked[r].op \in {"upload", "delete"}
    BY <1>2, <1>5, Asks
  <2>2. Blobs!Fail(r)
    BY <1>3, <1>5, <2>1 DEF Blobs!Fail
  <2>3. QED
    BY <2>2 DEF Blobs!Next
<1>6. CASE req[r].pc = "climb" /\ status = 204
  <2>1. Blobs!EndDelete(r)
    BY <1>2, <1>3, <1>6, Asks DEF Blobs!EndDelete
  <2>2. QED
    BY <2>1 DEF Blobs!Next
<1>7. QED
  BY <1>4, <1>5, <1>6

\* An upload arrives, or is turned away when tmp/ is gone.
LEMMA StartUploadRefines ==
    ASSUME TempInv, NEW r \in Requests, NEW ns \in Namespaces, NEW h \in Hashes,
           StartUpload(r, ns, h)
    PROVE  Blobs!Next
<1>1. CASE TmpDir \in dirs
  <2>1. PICK tmp \in TempFiles \ files :
          /\ files' = files \union {tmp}
          /\ Goto(r, [pc |-> "copy", ns |-> ns, hash |-> h, tmp |-> tmp])
    BY <1>1 DEF StartUpload
  <2> DEFINE work == [pc |-> "copy", ns |-> ns, hash |-> h, tmp |-> tmp]
  <2>2. AskedFor(work) = [op |-> "upload", ns |-> ns, hash |-> h]
    BY Asks
  <2>3. UNCHANGED Stored
    BY <2>1, StoredApart
  <2> HIDE DEF work
  <2>4. Goto(r, work) /\ req[r] = Idle /\ UNCHANGED answer
    BY <1>1, <2>1 DEF StartUpload, work
  <2>5. QED
    BY <2>2, <2>3, <2>4, ArriveStep
<1>2. CASE TmpDir \notin dirs
  <2>1. req[r].pc = "idle" /\ Finish(r, 500) /\ UNCHANGED Stored
    BY <1>2, StoredSame DEF StartUpload, Idle
  <2>2. QED
    BY <2>1, AnswerStep
<1>3. QED
  BY <1>1, <1>2

\* A delete arrives.
LEMMA StartDeleteRefines ==
    ASSUME TempInv, NEW r \in Requests, NEW ns \in Namespaces, NEW h \in Hashes,
           StartDelete(r, ns, h)
    PROVE  Blobs!Next
<1> DEFINE work == [pc |-> "remove", ns |-> ns, hash |-> h]
<1>1. AskedFor(work) = [op |-> "delete", ns |-> ns, hash |-> h]
  BY Asks
<1> HIDE DEF work
<1>2. /\ Goto(r, work) /\ req[r] = Idle
      /\ UNCHANGED Stored /\ UNCHANGED answer
  BY StoredSame DEF StartDelete, work
<1>3. QED
  BY <1>1, <1>2, ArriveStep

\* A readiness probe asks for nothing.
LEMMA StartProbeRefines ==
    ASSUME TempInv, NEW r \in Requests, StartProbe(r)
    PROVE  [Blobs!Next]_Blobs!vars
<1>1. CASE TmpDir \in dirs
  <2>1. PICK tmp \in TempFiles \ files :
          /\ files' = files \union {tmp}
          /\ Goto(r, [pc |-> "probe", tmp |-> tmp])
    BY <1>1 DEF StartProbe
  <2>2. AskedFor([pc |-> "probe", tmp |-> tmp]) = AskedFor(req[r])
    BY Asks DEF StartProbe, Idle
  <2>3. UNCHANGED Stored /\ UNCHANGED answer
    BY <1>1, <2>1, StoredApart DEF StartProbe
  <2>4. QED
    BY <2>1, <2>2, <2>3, HiddenStep
<1>2. CASE TmpDir \notin dirs
  <2>1. req[r].pc = "idle" /\ Finish(r, 503) /\ UNCHANGED Stored
    BY <1>2, StoredSame DEF StartProbe, Idle
  <2>2. QED
    BY <2>1, AnswerStep
<1>3. QED
  BY <1>1, <1>2

\* An upload on its way to the rename changes no stored file, and may fail.
LEMMA MkdirAllRefines ==
    ASSUME TempInv, NEW r \in Requests, CopyDone(r) \/ Stat(r) \/ Mkdir(r)
    PROVE  [Blobs!Next]_Blobs!vars
<1> DEFINE w == req[r]
<1>1. w.pc \in {"copy", "stat", "mkdir"} /\ w.tmp \in TempFiles
  BY DEF CopyDone, Stat, Mkdir, TempInv, HasTemp
<1>2. ASSUME NEW pc \in {"stat", "mkdir"}, NEW depth, Goto(r, MkdirAll(w, pc, depth)),
             UNCHANGED <<files, answer>>
      PROVE  [Blobs!Next]_Blobs!vars
  <2>1. AskedFor(MkdirAll(w, pc, depth)) = AskedFor(w)
    BY <1>1, Asks DEF MkdirAll
  <2>2. UNCHANGED Stored
    BY <1>2, StoredSame
  <2>3. QED
    BY <1>2, <2>1, <2>2, HiddenStep
<1>3. ASSUME Goto(r, MkdirDone(w)), UNCHANGED <<files, answer>>
      PROVE  [Blobs!Next]_Blobs!vars
  <2>1. AskedFor(MkdirDone(w)) = AskedFor(w)
    BY <1>1, Asks DEF MkdirDone
  <2>2. UNCHANGED Stored
    BY <1>3, StoredSame
  <2>3. QED
    BY <1>3, <2>1, <2>2, HiddenStep
<1>4. ASSUME w.pc = "mkdir", Finish(r, 500), files' = files \ {w.tmp}
      PROVE  [Blobs!Next]_Blobs!vars
  <2>1. UNCHANGED Stored
    BY <1>1, <1>4, StoredApart
  <2>2. QED
    BY <1>4, <2>1, AnswerStep
<1>5. CASE CopyDone(r)
  BY <1>2, <1>5 DEF CopyDone
<1>6. CASE Stat(r)
  BY <1>2, <1>3, <1>6 DEF Stat
<1>7. CASE Mkdir(r)
  BY <1>2, <1>3, <1>4, <1>7 DEF Mkdir
<1>8. QED
  BY <1>5, <1>6, <1>7

\* A copy that fails ends its upload, and a probe ends well.
LEMMA EndRefines ==
    ASSUME TempInv, NEW r \in Requests, CopyFails(r) \/ EndProbe(r)
    PROVE  Blobs!Next
<1>1. req[r].tmp \in TempFiles
  BY DEF CopyFails, EndProbe, TempInv, HasTemp
<1>2. UNCHANGED Stored
  BY <1>1, StoredApart DEF CopyFails, EndProbe
<1>3. QED
  BY <1>2, AnswerStep DEF CopyFails, EndProbe

\* A rename stores its content at the instant it is answered 201.
LEMMA RenameRefines ==
    ASSUME TempInv, NEW r \in Requests, Rename(r)
    PROVE  Blobs!Next
<1> DEFINE w == req[r]
<1>1. /\ w.pc = "rename"
      /\ w.ns \in Namespaces /\ w.hash \in Hashes /\ w.tmp \in TempFiles
  BY DEF Rename, TempInv, HasTemp
<1>2. CASE ShardDir(w.ns, w.hash) \in dirs
  <2>1. /\ files' = (files \ {w.tmp}) \union {ShardedPath(w.ns, w.hash)}
        /\ Goto(r, Idle)
        /\ answer' = [status |-> 201, ref |-> <<w.ns, w.hash>>]
    BY <1>2 DEF Rename, Stores
  <2>2. \A ns \in Namespaces, h \in Hashes :
          ShardedPath(ns, h) \in files' <=>
             \/ ShardedPath(ns, h) \in files
             \/ ns = w.ns /\ h = w.hash
    BY <1>1, <2>1, PathsApart
  <2>3. Stored' = Stored \union {<<w.ns, w.hash>>}
    BY <1>1, <2>2 DEF Stored
  <2>4. Asked[r] = [op |-> "upload", ns |-> w.ns, hash |-> w.hash]
        /\ Asked' = [Asked EXCEPT ![r] = Blobs!Free]
    BY <1>1, <2>1, AskedStep, Asks DEF Idle
  <2>5. Blobs!Upload(r)
    BY <2>1, <2>3, <2>4 DEF Blobs!Upload, Blobs!Respond
  <2>6. QED
    BY <2>5 DEF Blobs!Next
<1>3. CASE ShardDir(w.ns, w.hash) \notin dirs
  <2>1. Finish(r, 500) /\ UNCHANGED Stored
    BY <1>3, StoredSame DEF Rename
  <2>2. QED
    BY <1>1, <2>1, AnswerStep
<1>4. QED
  BY <1>2, <1>3

\* The removal of a file drops the content that its delete asks for.
LEMMA RemoveRefines ==
    ASSUME TempInv, NEW r \in Requests, RemoveFile(r)
    PROVE  Blobs!Next
<1> DEFINE w == req[r]
           climb == [pc |-> "climb", at |-> ShardDir(w.ns, w.hash)]
<1>1. w.pc = "remove" /\ w.ns \in Namespaces /\ w.hash \in Hashes
  BY DEF RemoveFile, TempInv
<1>2. CASE /\ files' = files \ {ShardedPath(w.ns, w.hash)}
           /\ Goto(r, climb)
           /\ UNCHANGED answer
  <2>1. \A ns \in Namespaces, h \in Hashes :
          ShardedPath(ns, h) \in files' <=>
             /\ ShardedPath(ns, h) \in files
             /\ ~(ns = w.ns /\ h = w.hash)
    BY <1>1, <1>2, PathsApart
  <2>2. Stored' = Stored \ {<<w.ns, w.hash>>}
    BY <1>1, <2>1 DEF Stored
  <2>3. AskedFor(climb) = Blobs!Dropped
    BY Asks
  <2> HIDE DEF climb
  <2>4. /\ Asked[r] = [op |-> "delete", ns |-> w.ns, hash |-> w.hash]
        /\ Asked' = [Asked EXCEPT ![r] = Blobs!Dropped]
    BY <1>1, <1>2, <2>3, AskedStep, Asks
  <2>5. Blobs!Drop(r)
    BY <1>2, <2>2, <2>4 DEF Blobs!Drop
  <2>6. QED
    BY <2>5 DEF Blobs!Next
<1>3. CASE Finish(r, 500) /\ UNCHANGED files
  <2>1. UNCHANGED Stored
    BY <1>3, StoredSame
  <2>2. QED
    BY <1>1, <1>3, <2>1, AnswerStep
<1>4. QED
  BY <1>2, <1>3 DEF RemoveFile

\* A climb takes no stored file with it, and ends a delete that has taken effect.
LEMMA ClimbRefines ==
    ASSUME TempInv, NEW r \in Requests, Climb(r)
    PROVE  [Blobs!Next]_Blobs!vars
<1>1. req[r].pc = "climb" /\ UNCHANGED Stored
  BY StoredSame DEF Climb
<1>2. ASSUME Goto(r, Idle), answer' = [status |-> 204, ref |-> NoAnswer]
      PROVE  Blobs!Next
  <2>1. Asked[r] = Blobs!Dropped /\ Asked' = [Asked EXCEPT ![r] = Blobs!Free]
    BY <1>1, <1>2, AskedStep, Asks DEF Idle
  <2>2. Blobs!EndDelete(r)
    BY <1>1, <1>2, <2>1 DEF Blobs!EndDelete, Blobs!Respond
  <2>3. QED
    BY <2>2 DEF Blobs!Next
<1>3. ASSUME NEW at, Goto(r, [pc |-> "climb", at |-> at]), UNCHANGED answer
      PROVE  [Blobs!Next]_Blobs!vars
  <2>1. AskedFor([pc |-> "climb", at |-> at]) = AskedFor(req[r])
    BY <1>1, Asks
  <2>2. QED
    BY <1>1, <1>3, <2>1, HiddenStep
<1>4. QED
  BY <1>2, <1>3 DEF Climb, Finish

\* data-service implements the set of contents.  Each content it stores comes
\* with an upload of it, at the instant of the 201, and each that goes is taken
\* by a delete of it, before the 204: no climb, failed upload, probe or restart
\* takes one.
THEOREM Refinement == Spec => ImplementsBlobStore
<1>1. Init => TempInv /\ Blobs!Init
  <2> SUFFICES ASSUME Init PROVE TempInv /\ Blobs!Init
    OBVIOUS
  <2>1. Idle.pc = "idle"
    BY DEF Idle
  <2>2. TempInv
    BY <2>1 DEF Init, TempInv, OwnTempFile, HasTemp
  <2>3. Stored = {} /\ answer = NoAnswer
    BY DEF Init, Stored
  <2>4. \A r \in Requests : AskedFor(req[r]) = Blobs!Free
    BY <2>1, Asks DEF Init
  <2>5. QED
    BY <2>2, <2>3, <2>4 DEF Blobs!Init, Asked
<1>2. TempInv /\ [Next]_vars => [Blobs!Next]_Blobs!vars
  <2> SUFFICES ASSUME TempInv, [Next]_vars PROVE [Blobs!Next]_Blobs!vars
    OBVIOUS
  <2>1. CASE Restart
    <3>1. UNCHANGED Stored /\ UNCHANGED answer
      BY <2>1, StoredSame DEF Restart
    <3>2. AskedFor(Idle) = Blobs!Free
      BY Asks DEF Idle
    <3>3. Asked' = [r \in Requests |-> Blobs!Free]
      BY <2>1, <3>2 DEF Restart, Asked
    <3>4. Blobs!Restart
      BY <3>1, <3>3 DEF Blobs!Restart
    <3>5. QED
      BY <3>4 DEF Blobs!Next
  <2>2. CASE UNCHANGED vars
    BY <2>2, StoredSame DEF vars, Asked, Blobs!vars
  <2>3. QED
    BY <2>1, <2>2, StartUploadRefines, StartDeleteRefines, StartProbeRefines,
       MkdirAllRefines, EndRefines, RenameRefines, RemoveRefines, ClimbRefines DEF Next
<1>3. QED
  BY <1>1, <1>2, TempStep, PTL DEF Spec, ImplementsBlobStore, Blobs!Spec
=============================================================================
