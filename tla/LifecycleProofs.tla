--------------------------- MODULE LifecycleProofs --------------------------
(***************************************************************************)
(* Proofs about Lifecycle, for any number of services, processes, schema   *)
(* versions and requests, and about Readiness, the probe that watches      *)
(* those services.                                                         *)
(***************************************************************************)
EXTENDS Readiness, TLAPS

USE LifecycleAssumption DEF Keeps

-----------------------------------------------------------------------------
(* The invariant holds at first.                                           *)

LEMMA LifeInitially == LifeInit => LifeInv
  BY DEF LifeInit, LifeInv, LifeTypeOK, StoreGuarded, LockHeld, OpenWhileServing,
         ListenWhileRunning, HandlersPlaced, CutsExplained, AnswersTrue, NotYet,
         Phases, Holding, InHandler, InTransaction, Outcomes

-----------------------------------------------------------------------------
(* Processes that go.                                                      *)

\* A process that is gone takes its lock and its handlers with it and no more,
\* if what it cuts short is excused.
LEMMA GoneKeeps ==
  ASSUME NEW p \in Processes, LifeInv, Gone(p),
         excused \subseteq excused', excused' \subseteq Requests,
         Busy(p) \subseteq excused'
  PROVE  LifeInv'
<1>1. LifeTypeOK'
  BY DEF LifeInv, LifeTypeOK, Gone, Move, Phases, Outcomes, Busy
<1>2. ASSUME NEW q \in Processes, q # p
      PROVE  /\ phase'[q] = phase[q]
             /\ q \in open' <=> q \in open
             /\ q \in listening' <=> q \in listening
  BY <1>2 DEF LifeInv, LifeTypeOK, Gone, Move
<1>3. phase'[p] = "down" /\ p \notin open' /\ p \notin listening'
  BY DEF LifeInv, LifeTypeOK, Gone, Move
<1>4. ASSUME NEW s \in Stored, lock[s] # p PROVE lock'[s] = lock[s]
  BY <1>4 DEF Gone
<1>5. ASSUME NEW r \in Requests
      PROVE  /\ r \in Busy(p) => /\ call'[r] = [pc |-> "cut", at |-> Nobody]
                                 /\ r \in excused'
             /\ r \notin Busy(p) => call'[r] = call[r]
  BY DEF Gone
<1>6. StoreGuarded' /\ LockHeld' /\ OpenWhileServing' /\ ListenWhileRunning'
  BY <1>1, <1>2, <1>3, <1>4
     DEF LifeInv, LifeTypeOK, StoreGuarded, LockHeld, OpenWhileServing,
         ListenWhileRunning, Holding, Gone
<1>7. HandlersPlaced'
  <2> SUFFICES ASSUME NEW r \in Requests, call'[r].pc \in InHandler
               PROVE  /\ call'[r].at \in Processes
                      /\ \/ call'[r].at \in listening'
                         \/ phase'[call'[r].at] = "draining"
                         \/ phase'[call'[r].at] \in {"closing", "exiting"} /\ r \in excused'
                      /\ call'[r].pc \in InTransaction /\ Keeps(call'[r].at)
                           => call'[r].at \in open'
                      /\ call'[r].pc \in {"write", "writing"} => r \in Writes
    BY DEF HandlersPlaced
  <2>1. r \notin Busy(p) /\ call'[r] = call[r]
    BY <1>5 DEF InHandler, InTransaction
  <2>2. call[r].at # p
    BY <2>1 DEF Busy
  <2> QED
    BY <1>2, <2>1, <2>2 DEF LifeInv, HandlersPlaced
<1>8. CutsExplained' /\ AnswersTrue' /\ NotYet'
  BY <1>5 DEF LifeInv, LifeTypeOK, CutsExplained, AnswersTrue, NotYet, Gone
<1> QED
  BY <1>1, <1>6, <1>7, <1>8 DEF LifeInv

\* A process that does not serve has no handlers.
LEMMA NobodyServed ==
  ASSUME NEW p \in Processes, LifeInv, p \notin listening,
         phase[p] \notin {"draining", "closing", "exiting"}
  PROVE  Busy(p) = {}
  BY DEF LifeInv, HandlersPlaced, Busy

\* One that exits has only handlers whose ten seconds are over.
LEMMA OverrunExcused ==
  ASSUME NEW p \in Processes, LifeInv, phase[p] = "exiting"
  PROVE  Busy(p) \subseteq excused
  BY DEF LifeInv, ListenWhileRunning, HandlersPlaced, Busy

-----------------------------------------------------------------------------
(* Processes that go on.                                                   *)

\* What a process does with its file leaves the requests alone.
LEMMA OpeningKeeps ==
  ASSUME NEW p \in Processes, LifeInv, Start(p) \/ Lock(p) \/ Bootstrap(p)
  PROVE  LifeInv'
<1>1. LifeTypeOK'
  BY DEF LifeInv, LifeTypeOK, Start, Lock, Bootstrap, Move, Phases, file
<1>2. UNCHANGED <<listening, call, data, excused>>
  BY DEF Start, Lock, Bootstrap, file
<1>3. /\ p \notin listening
      /\ p \notin open
      /\ phase[p] \in {"down", "locking", "boot"}
      /\ phase'[p] \in {"locking", "boot", "running"}
      /\ open \subseteq open'
      /\ \A q \in Processes : q # p => phase'[q] = phase[q] /\ (q \in open' <=> q \in open)
  BY DEF LifeInv, LifeTypeOK, ListenWhileRunning, OpenWhileServing, Holding,
         Start, Lock, Bootstrap, Move, file
<1>4. StoreGuarded' /\ LockHeld' /\ OpenWhileServing'
  <2>1. CASE Start(p)
    BY <1>1, <1>3, <2>1
       DEF Start, Move, file, LifeInv, LifeTypeOK, StoreGuarded, LockHeld,
           OpenWhileServing, Holding
  <2>2. CASE Lock(p)
    BY <1>1, <1>3, <2>2
       DEF Lock, Move, LifeInv, LifeTypeOK, StoreGuarded, LockHeld,
           OpenWhileServing, Holding
  <2>3. CASE Bootstrap(p)
    BY <1>1, <1>3, <2>3
       DEF Bootstrap, Move, LifeInv, LifeTypeOK, StoreGuarded, LockHeld,
           OpenWhileServing, Holding
  <2> QED
    BY <2>1, <2>2, <2>3
<1>5. ListenWhileRunning' /\ HandlersPlaced'
  BY <1>2, <1>3
     DEF LifeInv, LifeTypeOK, ListenWhileRunning, HandlersPlaced
<1>6. CutsExplained' /\ AnswersTrue' /\ NotYet'
  BY <1>2 DEF LifeInv, CutsExplained, AnswersTrue, NotYet
<1> QED
  BY <1>1, <1>4, <1>5, <1>6 DEF LifeInv

\* Listening, asking for signals and shutting down leave the file alone until
\* the store is closed, when no transaction is open.
LEMMA RunningKeeps ==
  ASSUME NEW p \in Processes, LifeInv,
         \/ Listen(p) \/ Notify(p) \/ Drain(p) \/ Close(p)
         \/ Signal(p) /\ phase'[p] = "draining"
  PROVE  LifeInv'
<1>1. LifeTypeOK'
  BY DEF LifeInv, LifeTypeOK, Listen, Notify, Drain, Close, Signal, Gone, Move,
         Phases, file, Busy
<1>2. CASE Listen(p) \/ Notify(p)
  <2>1. /\ phase[p] = "running"
        /\ UNCHANGED <<phase, open, lock, stamp, call, data, excused>>
        /\ listening \subseteq listening' /\ listening' \subseteq listening \union {p}
    BY <1>2 DEF Listen, Notify, file
  <2> QED
    BY <1>1, <2>1
       DEF LifeInv, LifeTypeOK, StoreGuarded, LockHeld, OpenWhileServing,
           ListenWhileRunning, HandlersPlaced, CutsExplained, AnswersTrue, NotYet
<1>3. CASE Signal(p) /\ phase'[p] = "draining"
  <2>1. /\ phase[p] = "running"
        /\ Move(p, "draining")
        /\ listening' = listening \ {p}
        /\ UNCHANGED <<open, lock, stamp, call, data, excused>>
    BY <1>3 DEF LifeInv, LifeTypeOK, Signal, Gone, Move, file
  <2> QED
    BY <1>1, <2>1
       DEF Move, LifeInv, LifeTypeOK, StoreGuarded, LockHeld, OpenWhileServing,
           ListenWhileRunning, HandlersPlaced, CutsExplained, AnswersTrue, NotYet, Holding
<1>4. CASE Drain(p)
  <2>1. StoreGuarded' /\ LockHeld' /\ OpenWhileServing' /\ ListenWhileRunning'
    BY <1>1, <1>4
       DEF Drain, Move, file, LifeInv, LifeTypeOK, StoreGuarded, LockHeld,
           OpenWhileServing, ListenWhileRunning, Holding
  <2>2. HandlersPlaced'
    BY <1>4
       DEF Drain, Move, file, Busy, LifeInv, LifeTypeOK, ListenWhileRunning,
           HandlersPlaced
  <2>3. CutsExplained' /\ AnswersTrue' /\ NotYet'
    BY <1>4 DEF Drain, file, LifeInv, CutsExplained, AnswersTrue, NotYet
  <2> QED
    BY <1>1, <2>1, <2>2, <2>3 DEF LifeInv
<1>5. CASE Close(p)
  <2>1. StoreGuarded' /\ LockHeld' /\ OpenWhileServing' /\ ListenWhileRunning'
    BY <1>1, <1>5
       DEF Close, Move, LifeInv, LifeTypeOK, StoreGuarded, LockHeld,
           OpenWhileServing, ListenWhileRunning, Holding
  <2>2. HandlersPlaced'
    BY <1>5
       DEF Close, Move, Busy, LifeInv, LifeTypeOK, ListenWhileRunning,
           HandlersPlaced, InHandler, InTransaction
  <2>3. CutsExplained' /\ AnswersTrue' /\ NotYet'
    BY <1>5 DEF Close, LifeInv, CutsExplained, AnswersTrue, NotYet
  <2> QED
    BY <1>1, <2>1, <2>2, <2>3 DEF LifeInv
<1> QED
  BY <1>2, <1>3, <1>4, <1>5

-----------------------------------------------------------------------------
(* Requests.                                                               *)

\* A step of a request moves that request alone.
LEMMA CallsKeep ==
  ASSUME NEW r \in Requests, LifeInv,
         UNCHANGED <<process, open, lock, stamp, starts, excused>>,
         NEW c \in [pc : InHandler \union Outcomes \union {"new"},
                    at : Processes \union {Nobody}],
         call' = [call EXCEPT ![r] = c],
         data' \subseteq Writes,
         \A q \in Requests : q # r => (q \in data' <=> q \in data),
         c.pc \in InHandler =>
            /\ c.at \in Processes
            /\ \/ c.at \in listening
               \/ phase[c.at] = "draining"
               \/ phase[c.at] \in {"closing", "exiting"} /\ r \in excused
            /\ c.pc \in InTransaction /\ Keeps(c.at) => c.at \in open
            /\ c.pc \in {"write", "writing"} => r \in Writes,
         c.pc \in {"refuse", "failed", "cut"} => r \in excused,
         r \in Writes /\ c.pc \in {"answer", "ok"} => r \in data',
         c.pc \in {"new", "check", "write", "checking", "writing", "refuse", "failed"}
            => r \notin data'
  PROVE  LifeInv'
<1>1. UNCHANGED <<phase, listening, trapping, open, lock, stamp, starts, excused>>
  BY DEF process
<1>2. call'[r] = c /\ \A q \in Requests : q # r => call'[q] = call[q]
  BY DEF LifeInv, LifeTypeOK
<1>3. LifeTypeOK'
  BY <1>1 DEF LifeInv, LifeTypeOK
<1>4. StoreGuarded' /\ LockHeld' /\ OpenWhileServing' /\ ListenWhileRunning'
  BY <1>1 DEF LifeInv, StoreGuarded, LockHeld, OpenWhileServing, ListenWhileRunning
<1>5. HandlersPlaced'
  BY <1>1, <1>2 DEF LifeInv, HandlersPlaced
<1>6. CutsExplained' /\ AnswersTrue' /\ NotYet'
  BY <1>1, <1>2 DEF LifeInv, CutsExplained, AnswersTrue, NotYet
<1> QED
  BY <1>3, <1>4, <1>5, <1>6 DEF LifeInv

LEMMA AcceptKeeps ==
  ASSUME NEW r \in Requests, NEW p \in Processes, LifeInv, Accept(r, p)
  PROVE  LifeInv'
<1>1. PICK pc \in {"check", "write"} :
        /\ pc = "write" => r \in Writes
        /\ call' = [call EXCEPT ![r] = [pc |-> pc, at |-> p]]
  BY DEF Accept
<1>2. /\ UNCHANGED <<process, open, lock, stamp, starts, excused, data>>
      /\ p \in listening
      /\ call[r].pc = "new"
      /\ pc = "write" => r \in Writes
  BY <1>1 DEF Accept, file
<1>3. r \notin data
  BY <1>2 DEF LifeInv, NotYet
<1>4. data' \subseteq Writes
  BY <1>2 DEF LifeInv, LifeTypeOK
<1> DEFINE c == [pc |-> pc, at |-> p]
<1>5. c \in [pc : InHandler \union Outcomes \union {"new"},
            at : Processes \union {Nobody}]
  BY DEF InHandler
<1> HIDE DEF c
<1>6. call' = [call EXCEPT ![r] = c]
  BY <1>1 DEF c
<1>7. c.pc = pc /\ c.at = p
  BY DEF c
<1>8. /\ pc \in {"check", "write"}
      /\ pc = "write" => r \in Writes
      /\ pc \notin InTransaction
  BY <1>1 DEF InTransaction
<1>9. UNCHANGED <<process, open, lock, stamp, starts, excused>> /\ data' = data
  BY <1>2
<1> QED
  BY <1>2, <1>3, <1>4, <1>5, <1>6, <1>7, <1>8, <1>9, CallsKeep

\* A handler that goes on stays in its process.
LEMMA GoesKeeps ==
  ASSUME NEW r \in Requests, LifeInv, call[r].pc \in InHandler,
         NEW pc \in InHandler, Goes(r, pc),
         data' \subseteq Writes,
         \A q \in Requests : q # r => (q \in data' <=> q \in data),
         pc \in InTransaction /\ Keeps(call[r].at) => call[r].at \in open,
         pc \in {"write", "writing"} => r \in Writes,
         pc = "refuse" => r \in excused,
         r \in Writes /\ pc = "answer" => r \in data',
         pc \in {"check", "write", "checking", "writing", "refuse"} => r \notin data'
  PROVE  LifeInv'
<1> DEFINE c == [pc |-> pc, at |-> call[r].at]
<1>1. /\ c \in [pc : InHandler \union Outcomes \union {"new"},
               at : Processes \union {Nobody}]
      /\ call' = [call EXCEPT ![r] = c]
  <2>1. call[r] \in [pc : InHandler \union Outcomes \union {"new"},
                    at : Processes \union {Nobody}]
    BY DEF LifeInv, LifeTypeOK
  <2>2. [call[r] EXCEPT !.pc = pc] = c
    BY <2>1
  <2>3. call' = [call EXCEPT ![r] = [call[r] EXCEPT !.pc = pc]]
    BY DEF Goes
  <2> QED
    BY <2>1, <2>2, <2>3
<1>2. c.pc = pc /\ c.at = call[r].at
  OBVIOUS
<1>3. UNCHANGED <<process, open, lock, stamp, starts, excused>>
  BY DEF Goes
<1>4. /\ c.at \in Processes
      /\ \/ c.at \in listening
         \/ phase[c.at] = "draining"
         \/ phase[c.at] \in {"closing", "exiting"} /\ r \in excused
  BY <1>2 DEF LifeInv, HandlersPlaced
<1>5. pc \notin {"new", "failed", "cut", "ok"}
  BY DEF InHandler, InTransaction
<1> HIDE DEF c
<1> QED
  BY <1>1, <1>2, <1>3, <1>4, <1>5, CallsKeep

\* A store is closed only when the ten seconds are over.
LEMMA RefusedExcused ==
  ASSUME NEW r \in Requests, LifeInv, call[r].pc \in InHandler,
         Keeps(call[r].at), call[r].at \notin open
  PROVE  r \in excused
<1>1. call[r].at \in Processes
  BY DEF LifeInv, HandlersPlaced
<1>2. phase[call[r].at] \notin {"running", "draining"}
  BY <1>1 DEF LifeInv, OpenWhileServing, Holding
<1> QED
  BY <1>1, <1>2 DEF LifeInv, HandlersPlaced, ListenWhileRunning

LEMMA BeginKeeps ==
  ASSUME NEW r \in Requests, LifeInv, Begin(r)
  PROVE  LifeInv'
<1>1. /\ call[r].pc \in {"check", "write"}
      /\ call[r].pc \in InHandler
      /\ data' = data
      /\ r \notin data
      /\ data \subseteq Writes
      /\ call[r].pc = "write" => r \in Writes
  BY DEF Begin, LifeInv, LifeTypeOK, HandlersPlaced, NotYet, InHandler
<1>2. CASE /\ Keeps(call[r].at) => call[r].at \in open
           /\ Goes(r, IF call[r].pc = "check" THEN "checking" ELSE "writing")
  BY <1>1, <1>2, GoesKeeps DEF InHandler, InTransaction
<1>3. CASE Keeps(call[r].at) /\ call[r].at \notin open /\ Goes(r, "refuse")
  BY <1>1, <1>3, GoesKeeps, RefusedExcused DEF InHandler, InTransaction
<1> QED
  BY <1>2, <1>3 DEF Begin

LEMMA FinishKeeps ==
  ASSUME NEW r \in Requests, LifeInv, Finish(r)
  PROVE  LifeInv'
<1>1. /\ call[r].pc \in {"checking", "writing"}
      /\ call[r].pc \in InHandler
      /\ r \notin data
      /\ data \subseteq Writes
      /\ call[r].pc = "writing" => r \in Writes
  BY DEF Finish, LifeInv, LifeTypeOK, HandlersPlaced, NotYet, InHandler, InTransaction
<1>2. CASE Goes(r, IF r \in Writes THEN "write" ELSE "answer") /\ data' = data
  BY <1>1, <1>2, GoesKeeps DEF InHandler, InTransaction
<1>3. CASE call[r].pc = "writing" /\ Goes(r, "answer") /\ data' = data \union {r}
  BY <1>1, <1>3, GoesKeeps DEF InHandler, InTransaction
<1> QED
  BY <1>2, <1>3 DEF Finish

LEMMA RespondKeeps ==
  ASSUME NEW r \in Requests, LifeInv, Respond(r)
  PROVE  LifeInv'
<1>1. PICK c \in {[pc |-> "ok", at |-> Nobody], [pc |-> "failed", at |-> Nobody]} :
        /\ call' = [call EXCEPT ![r] = c]
        /\ c.pc = "ok" => call[r].pc = "answer"
        /\ c.pc = "failed" => call[r].pc = "refuse"
        /\ UNCHANGED <<process, file, starts, excused>>
  BY DEF Respond, Ends
<1>2. /\ c \in [pc : InHandler \union Outcomes \union {"new"},
               at : Processes \union {Nobody}]
      /\ c.pc \in {"ok", "failed"}
  BY <1>1 DEF Outcomes
<1>3. /\ UNCHANGED <<process, open, lock, stamp, data, starts, excused>>
      /\ data' \subseteq Writes
  BY <1>1 DEF file, LifeInv, LifeTypeOK
<1>4. /\ c.pc = "failed" => r \in excused /\ r \notin data
      /\ c.pc = "ok" /\ r \in Writes => r \in data
  BY <1>1, <1>2 DEF LifeInv, CutsExplained, AnswersTrue, LifeTypeOK
<1>5. c.pc \notin InHandler
  BY <1>2 DEF InHandler, InTransaction
<1> QED
  BY <1>1, <1>2, <1>3, <1>4, <1>5, CallsKeep

-----------------------------------------------------------------------------
(* The theorems.                                                           *)

LEMMA LifeStep == LifeInv /\ [LifeNext]_lifeVars => LifeInv'
<1> SUFFICES ASSUME LifeInv, [LifeNext]_lifeVars PROVE LifeInv'
  OBVIOUS
<1>1. CASE UNCHANGED lifeVars
  BY <1>1 DEF lifeVars, process, file, LifeInv, LifeTypeOK, StoreGuarded, LockHeld,
      OpenWhileServing, ListenWhileRunning, HandlersPlaced, CutsExplained, AnswersTrue,
      NotYet
<1>2. ASSUME NEW p \in Processes,
             \/ Start(p) \/ Opening(p) \/ Serving(p)
             \/ Signal(p) \/ Ending(p) \/ Kill(p)
      PROVE  LifeInv'
  <2>1. CASE Start(p) \/ Lock(p) \/ Bootstrap(p)
    BY <2>1, OpeningKeeps
  <2>2. CASE LockTimeout(p) \/ Refuse(p) \/ ListenFails(p)
    <3>1. Gone(p) /\ excused' = excused
      BY <2>2 DEF LockTimeout, Refuse, ListenFails
    <3>2. p \notin listening /\ phase[p] \notin {"draining", "closing", "exiting"}
      BY <2>2 DEF LockTimeout, Refuse, ListenFails, LifeInv, ListenWhileRunning
    <3>3. Busy(p) = {}
      BY <3>2, NobodyServed
    <3> QED
      BY <3>1, <3>3, GoneKeeps DEF LifeInv, LifeTypeOK
  <2>3. CASE Listen(p) \/ Notify(p) \/ Drain(p) \/ Close(p)
    BY <2>3, RunningKeeps
  <2>4. CASE Signal(p)
    <3>1. CASE phase'[p] = "draining"
      BY <2>4, <3>1, RunningKeeps
    <3>2. CASE Gone(p) /\ excused' = excused \union Busy(p)
      BY <3>2, GoneKeeps DEF LifeInv, LifeTypeOK, Busy
    <3> QED
      BY <2>4, <3>1, <3>2 DEF Signal, Move, LifeInv, LifeTypeOK
  <2>5. CASE Exit(p)
    <3>1. Gone(p) /\ excused' = excused /\ phase[p] = "exiting"
      BY <2>5 DEF Exit
    <3> QED
      BY <3>1, OverrunExcused, GoneKeeps DEF LifeInv, LifeTypeOK
  <2>6. CASE Kill(p)
    BY <2>6, GoneKeeps DEF Kill, LifeInv, LifeTypeOK, Busy
  <2> QED
    BY <1>2, <2>1, <2>2, <2>3, <2>4, <2>5, <2>6 DEF Opening, Serving, Ending
<1>3. ASSUME NEW p \in Processes, NEW r \in Requests, Accept(r, p)
      PROVE  LifeInv'
  BY <1>3, AcceptKeeps
<1>4. ASSUME NEW r \in Requests, Handling(r)
      PROVE  LifeInv'
  BY <1>4, BeginKeeps, FinishKeeps, RespondKeeps DEF Handling
<1> QED
  BY <1>1, <1>2, <1>3, <1>4 DEF LifeNext

\* The inductive invariant, which ties locks, stores, listeners and handlers to
\* where each process is between Open and exit.
THEOREM LifeInvariance == LifeSpec => []LifeInv
  BY LifeInitially, LifeStep, PTL DEF LifeSpec

\* An open store has the lock of its file and the layout of its binary.
THEOREM StoresGuarded == LifeSpec => []StoreGuarded
<1>1. LifeInv => StoreGuarded
  BY DEF LifeInv
<1> QED
  BY <1>1, LifeInvariance, PTL

LEMMA ListenersAreOpen == LifeInv => ListeningIsOpen
  BY DEF LifeInv, LifeTypeOK, ListeningIsOpen, ListenWhileRunning, OpenWhileServing, Holding

\* Whoever accepts connections has its store open.
THEOREM ListenersOpen == LifeSpec => []ListeningIsOpen
  BY ListenersAreOpen, LifeInvariance, PTL

\* Only a kill or the end of the ten seconds cuts a request short.
THEOREM CutsAccounted == LifeSpec => []CutsExplained
<1>1. LifeInv => CutsExplained
  BY DEF LifeInv
<1> QED
  BY <1>1, LifeInvariance, PTL

\* An answer tells whether the write is in the file.
THEOREM AnswersHold == LifeSpec => []AnswersTrue
<1>1. LifeInv => AnswersTrue
  BY DEF LifeInv
<1> QED
  BY <1>1, LifeInvariance, PTL

-----------------------------------------------------------------------------
(* The probe begins.                                                       *)

LEMMA ProbeInitially == ProbeInit => ProbeInv
  BY DEF ProbeInit, ProbeInv, ProbeTypeOK, PingsWitnessed, Pings

\* Up is a set of services, before and after every step.
LEMMA UpServices == Up \subseteq Services /\ Up' \subseteq Services
  BY DEF Up

\* A service that answers is up if whoever listens has its store open.
LEMMA AnswersUp ==
  ASSUME LifecycleAssumption, ListeningIsOpen, listening \subseteq Processes,
         NEW s \in Services
  PROVE  Answers(s) <=> s \in Up
  BY DEF Answers, Up, ListeningIsOpen

-----------------------------------------------------------------------------
(* The handler of the probe and the services.                              *)

\* The handler's own steps keep the invariant: a ping is served by a service
\* that is up, and refused by one that is down.
LEMMA ProbingKeeps ==
  ASSUME LifecycleAssumption, ListeningIsOpen, listening \subseteq Processes,
         ProbeInv, Probing
  PROVE  ProbeInv'
<1>1. Up' = Up
  BY DEF Probing, lifeVars, process, file, Up, Keeps
<1>2. CASE StartProbe
  <2>1. ProbeTypeOK'
    BY <1>2, UpServices DEF StartProbe, ProbeInv, ProbeTypeOK, Pings
  <2>2. PingsWitnessed'
    BY <1>1, <1>2 DEF StartProbe, PingsWitnessed
  <2> QED
    BY <2>1, <2>2 DEF ProbeInv
<1>3. CASE Answer
  BY <1>3 DEF Answer, Forget, Status, ProbeInv, ProbeTypeOK, PingsWitnessed
<1>4. ASSUME NEW s \in Services, PingArrives(s) PROVE ProbeInv'
  BY <1>1, <1>4, AnswersUp
     DEF PingArrives, Pinged, ProbeInv, ProbeTypeOK, PingsWitnessed, Pings
<1>5. ASSUME NEW s \in Services, PingBack(s) PROVE ProbeInv'
  BY <1>1, <1>5 DEF PingBack, Pinged, ProbeInv, ProbeTypeOK, PingsWitnessed, Pings
<1>6. ASSUME NEW s \in Services, PingTimeout(s) PROVE ProbeInv'
  BY <1>1, <1>6 DEF PingTimeout, Pinged, ProbeInv, ProbeTypeOK, PingsWitnessed, Pings
<1> QED
  BY <1>2, <1>3, <1>4, <1>5, <1>6 DEF Probing

\* Whatever the services do meanwhile only adds to what the probe could see.
LEMMA MeanwhileKeeps ==
  ASSUME ProbeInv, Meanwhile
  PROVE  ProbeInv'
<1>1. UNCHANGED <<probe, ping, late>>
  BY DEF Meanwhile, handler
<1>2. CASE probe = "waiting" /\ Watch
  BY <1>1, <1>2, UpServices DEF Watch, ProbeInv, ProbeTypeOK, PingsWitnessed
<1>3. CASE probe # "waiting" /\ UNCHANGED <<upSeen, downSeen>>
  BY <1>1, <1>3 DEF ProbeInv, ProbeTypeOK, PingsWitnessed
<1> QED
  BY <1>2, <1>3 DEF Meanwhile

-----------------------------------------------------------------------------
(* The theorems.                                                           *)

\* The services do under a probe what they do without it.
THEOREM LifecycleInReadiness == ProbeSpec => LifeSpec
<1>1. ProbeInit => LifeInit
  BY DEF ProbeInit
<1>2. [ProbeNext]_<<lifeVars, probeVars>> => [LifeNext]_lifeVars
  BY DEF ProbeNext, Probing, Meanwhile
<1> QED
  BY <1>1, <1>2, PTL DEF ProbeSpec, LifeSpec

\* What a ping has come to is something the services have been through.
THEOREM ProbeInvariance == ProbeSpec => []ProbeInv
<1>1. ProbeInv /\ LifeInv /\ [ProbeNext]_<<lifeVars, probeVars>> => ProbeInv'
  <2> SUFFICES ASSUME ProbeInv, LifeInv, [ProbeNext]_<<lifeVars, probeVars>>
               PROVE  ProbeInv'
    OBVIOUS
  <2>1. ListeningIsOpen /\ listening \subseteq Processes
    BY ListenersAreOpen DEF LifeInv, LifeTypeOK
  <2>2. CASE Probing
    BY LifecycleAssumption, <2>1, <2>2, ProbingKeeps
  <2>3. CASE Meanwhile
    BY <2>3, MeanwhileKeeps
  <2>4. CASE UNCHANGED <<lifeVars, probeVars>>
    BY <2>4 DEF lifeVars, process, file, probeVars, handler, ProbeInv, ProbeTypeOK,
        PingsWitnessed, Up, Keeps
  <2> QED
    BY <2>2, <2>3, <2>4 DEF ProbeNext
<1> QED
  BY <1>1, ProbeInitially, LifecycleInReadiness, LifeInvariance, PTL DEF ProbeSpec

\* Only the handler answers, when its pings are done.
LEMMA AnswerSteps ==
  ASSUME probe = "waiting", probe' # "waiting", ProbeNext
  PROVE  Answer
  BY DEF ProbeNext, Probing, Meanwhile, handler, StartProbe, PingArrives, PingBack,
         PingTimeout, Pinged

\* 200 means that every service was up at some time of the probe.
THEOREM ReadyIsUp == ProbeSpec => ReadyMeansUp
<1>1. ProbeInv /\ [ProbeNext]_<<lifeVars, probeVars>>
        => [probe = "waiting" /\ probe' = "200" => upSeen = Services]_probeVars
  <2> SUFFICES ASSUME ProbeInv, ProbeNext, probe = "waiting", probe' = "200"
               PROVE  upSeen = Services
    BY DEF probeVars, handler
  <2>1. Answer
    BY AnswerSteps
  <2>2. \A s \in Services : ping[s] = "ok"
    BY <2>1 DEF Answer, Status, Failures
  <2> QED
    BY <2>2 DEF ProbeInv, ProbeTypeOK, PingsWitnessed
<1> QED
  BY <1>1, ProbeInvariance, PTL DEF ProbeSpec, ReadyMeansUp

\* 503 means that a service was down at some time of it, or its ping was late.
THEOREM UnreadyIsDown == ProbeSpec => UnreadyMeansDown
<1>1. ProbeInv /\ [ProbeNext]_<<lifeVars, probeVars>>
        => [probe = "waiting" /\ probe' = "503" => downSeen \union late # {}]_probeVars
  <2> SUFFICES ASSUME ProbeInv, ProbeNext, probe = "waiting", probe' = "503"
               PROVE  downSeen \union late # {}
    BY DEF probeVars, handler
  <2>1. Answer
    BY AnswerSteps
  <2>2. PICK s \in Services : ping[s] = "failed"
    BY <2>1 DEF Answer, Status, Failures
  <2> QED
    BY <2>2 DEF ProbeInv, PingsWitnessed
<1> QED
  BY <1>1, ProbeInvariance, PTL DEF ProbeSpec, UnreadyMeansDown
=============================================================================
