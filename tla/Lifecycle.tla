------------------------------ MODULE Lifecycle -----------------------------
(***************************************************************************)
(* The life of a server process: cmd/server/main.go of the services, and   *)
(* the store that metadata-service and auth-service open before they       *)
(* listen and close after they have shut down.                             *)
(*                                                                         *)
(* A process waits at most a second for the lock of its bbolt file, makes  *)
(* the file ready in one transaction that also checks the schema version,  *)
(* and then lets a goroutine listen while main waits for a signal.  After  *)
(* the signal it gives the requests in progress ten seconds, closes the    *)
(* store and exits; a handler may run for thirty.  A replacement may start *)
(* at any time, and a process may be killed at any time.                   *)
(***************************************************************************)
EXTENDS Naturals

CONSTANTS
    Processes,          \* processes that may be started
    Services,           \* the services they run
    Service,            \* the service each process runs
    Stored,             \* the services that keep a bbolt file
    SchemaVersion,      \* currentSchemaVersion of the binary of a process
    Requests,           \* the requests of the clients
    Writes,             \* those that write to the store
    MaxStarts,          \* bound on the processes started
    Nobody,             \* no process
    NoStamp             \* a file without a schema version

ASSUME LifecycleAssumption ==
    /\ Service \in [Processes -> Services]
    /\ Stored \subseteq Services
    /\ SchemaVersion \in [Processes -> Nat]
    /\ Writes \subseteq Requests
    /\ MaxStarts \in Nat
    /\ Nobody \notin Processes
    /\ NoStamp \notin Nat

VARIABLES
    phase,              \* where main is
    listening,          \* the processes that accept connections
    trapping,           \* the processes that have asked for signals
    open,               \* the processes whose store is open
    lock,               \* the process that holds the lock of a file
    stamp,              \* the schema version stamped on a file
    call,               \* what became of a request, and who serves it
    data,               \* the requests whose write is in a file
    starts,             \* how many processes have been started
    excused             \* history: requests whose process was killed, or whose
                        \* ten seconds ran out

process == <<phase, listening, trapping>>
file == <<open, lock, stamp, data>>
lifeVars == <<process, file, call, starts, excused>>

Phases == {"down", "locking", "boot", "running", "draining", "closing", "exiting"}

InTransaction == {"checking", "writing"}
InHandler == InTransaction \union {"check", "write", "answer", "refuse"}
Outcomes == {"ok", "failed", "cut"}

LifeTypeOK ==
    /\ phase \in [Processes -> Phases]
    /\ listening \subseteq Processes
    /\ trapping \subseteq Processes
    /\ open \subseteq Processes
    /\ lock \in [Stored -> Processes \union {Nobody}]
    /\ stamp \in [Stored -> Nat \union {NoStamp}]
    /\ call \in [Requests -> [pc : InHandler \union Outcomes \union {"new"},
                              at : Processes \union {Nobody}]]
    /\ data \subseteq Writes
    /\ starts \in 0..MaxStarts
    /\ excused \subseteq Requests

LifeInit ==
    /\ phase = [p \in Processes |-> "down"]
    /\ listening = {}
    /\ trapping = {}
    /\ open = {}
    /\ lock = [s \in Stored |-> Nobody]
    /\ stamp = [s \in Stored |-> NoStamp]
    /\ call = [r \in Requests |-> [pc |-> "new", at |-> Nobody]]
    /\ data = {}
    /\ starts = 0
    /\ excused = {}

Keeps(p) == Service[p] \in Stored

\* The requests whose handlers run in process p.
Busy(p) == {r \in Requests : call[r].at = p /\ call[r].pc \in InHandler}

Move(p, to) == phase' = [phase EXCEPT ![p] = to]

\* The process is gone: its sockets, its lock and its handlers with it.
Gone(p) ==
    /\ Move(p, "down")
    /\ listening' = listening \ {p}
    /\ trapping' = trapping \ {p}
    /\ open' = open \ {p}
    /\ lock' = [s \in Stored |-> IF lock[s] = p THEN Nobody ELSE lock[s]]
    /\ call' = [r \in Requests |-> IF r \in Busy(p)
                                   THEN [pc |-> "cut", at |-> Nobody]
                                   ELSE call[r]]
    /\ UNCHANGED <<stamp, data, starts>>

-----------------------------------------------------------------------------
(* store.Open.                                                             *)

\* main up to store.Open.  A service without a bbolt file goes on.
Start(p) ==
    /\ phase[p] = "down"
    /\ starts < MaxStarts
    /\ starts' = starts + 1
    /\ Move(p, IF Keeps(p) THEN "locking" ELSE "running")
    /\ UNCHANGED <<listening, trapping, file, call, excused>>

\* The bug of a store that opens the file without its lock.
LockIgnored(p) ==
    /\ phase[p] = "locking"
    /\ lock' = [lock EXCEPT ![Service[p]] = p]
    /\ Move(p, "boot")
    /\ UNCHANGED <<listening, trapping, open, stamp, call, data, starts, excused>>

\* bolt.Open gets the lock of the file.
Lock(p) ==
    /\ phase[p] = "locking"
    /\ lock[Service[p]] = Nobody
    /\ lock' = [lock EXCEPT ![Service[p]] = p]
    /\ Move(p, "boot")
    /\ UNCHANGED <<listening, trapping, open, stamp, call, data, starts, excused>>

\* The bug of opening the file without a timeout.
LockTimeoutNever(p) ==
    /\ phase[p] = "locking"
    /\ lock[Service[p]] \notin Processes \union {Nobody}
    /\ Gone(p)
    /\ UNCHANGED excused

\* bolt.Open has tried for a second, and main exits.
LockTimeout(p) ==
    /\ phase[p] = "locking"
    /\ lock[Service[p]] # Nobody
    /\ Gone(p)
    /\ UNCHANGED excused

\* The bug of a version check that only looks for newer files.
BootstrapTakesOlder(p) ==
    /\ phase[p] = "boot"
    /\ LET s == Service[p]
       IN  /\ stamp[s] # NoStamp => stamp[s] <= SchemaVersion[p]
           /\ stamp' = [stamp EXCEPT ![s] = IF @ = NoStamp THEN SchemaVersion[p] ELSE @]
    /\ open' = open \union {p}
    /\ Move(p, "running")
    /\ UNCHANGED <<listening, trapping, lock, call, data, starts, excused>>

\* bootstrap in one transaction: the bolt buckets and the stamp are made
\* together, so the stamp stands for both.
Bootstrap(p) ==
    /\ phase[p] = "boot"
    /\ stamp[Service[p]] \in {NoStamp, SchemaVersion[p]}
    /\ stamp' = [stamp EXCEPT ![Service[p]] = SchemaVersion[p]]
    /\ open' = open \union {p}
    /\ Move(p, "running")
    /\ UNCHANGED <<listening, trapping, lock, call, data, starts, excused>>

\* checkSchemaVersion refuses a newer file and, as no migration is written yet
\* ("not implemented yet"), an older one too: the transaction is rolled back, the
\* file closed, and main exits.
Refuse(p) ==
    /\ phase[p] = "boot"
    /\ stamp[Service[p]] \notin {NoStamp, SchemaVersion[p]}
    /\ Gone(p)
    /\ UNCHANGED excused

-----------------------------------------------------------------------------
(* Serving.                                                                *)

\* The processes of a service share its port.
PortFree(p) == \A q \in listening : Service[q] # Service[p]

\* The bug of a goroutine that is started before the store is opened.
ListenEarly(p) ==
    /\ phase[p] \in {"locking", "boot", "running"}
    /\ p \notin listening
    /\ PortFree(p)
    /\ listening' = listening \union {p}
    /\ UNCHANGED <<phase, trapping, file, call, starts, excused>>

\* The goroutine of main: ListenAndServe.
Listen(p) ==
    /\ phase[p] = "running"
    /\ p \notin listening
    /\ PortFree(p)
    /\ listening' = listening \union {p}
    /\ UNCHANGED <<phase, trapping, file, call, starts, excused>>

\* The port is taken: the goroutine exits the process.
ListenFails(p) ==
    /\ phase[p] = "running"
    /\ p \notin listening
    /\ ~PortFree(p)
    /\ Gone(p)
    /\ UNCHANGED excused

\* waitForShutdown: signal.Notify, in any order with the goroutine.
Notify(p) ==
    /\ phase[p] = "running"
    /\ p \notin trapping
    /\ trapping' = trapping \union {p}
    /\ UNCHANGED <<phase, listening, file, call, starts, excused>>

Goes(r, pc) ==
    /\ call' = [call EXCEPT ![r].pc = pc]
    /\ UNCHANGED <<process, open, lock, stamp, starts, excused>>

\* The response of a request has left.
Ends(r, pc) ==
    /\ call' = [call EXCEPT ![r] = [pc |-> pc, at |-> Nobody]]
    /\ UNCHANGED <<process, file, starts, excused>>

\* A request arrives: a put looks its bucket up in a transaction of its own
\* before it writes.
Accept(r, p) ==
    /\ call[r].pc = "new"
    /\ p \in listening
    /\ \E pc \in {"check", "write"} :
         /\ pc = "write" => r \in Writes
         /\ call' = [call EXCEPT ![r] = [pc |-> pc, at |-> p]]
    /\ UNCHANGED <<process, file, starts, excused>>

\* A transaction begins; bbolt refuses it once the store is closed.
Begin(r) ==
    /\ call[r].pc \in {"check", "write"}
    /\ LET p == call[r].at
       IN  \/ /\ Keeps(p) => p \in open
              /\ Goes(r, IF call[r].pc = "check" THEN "checking" ELSE "writing")
           \/ /\ Keeps(p) /\ p \notin open
              /\ Goes(r, "refuse")
    /\ UNCHANGED data

\* A transaction ends.
Finish(r) ==
    \/ /\ call[r].pc = "checking"
       /\ Goes(r, IF r \in Writes THEN "write" ELSE "answer")
       /\ UNCHANGED data
    \/ /\ call[r].pc = "writing"
       /\ data' = data \union {r}
       /\ Goes(r, "answer")

\* The bug of a write whose error is not looked at.
RespondAnyway(r) == call[r].pc \in {"answer", "refuse"} /\ Ends(r, "ok")

\* The handler responds.
Respond(r) ==
    \/ call[r].pc = "answer" /\ Ends(r, "ok")
    \/ call[r].pc = "refuse" /\ Ends(r, "failed")

-----------------------------------------------------------------------------
(* Shutting down.                                                          *)

\* The bug of a shutdown that goes on accepting.
SignalStillListening(p) ==
    \/ /\ phase[p] = "running"
       /\ p \in trapping
       /\ Move(p, "draining")
       /\ UNCHANGED <<listening, trapping, file, call, starts, excused>>
    \/ /\ phase[p] \in {"locking", "boot", "running"}
       /\ p \notin trapping
       /\ Gone(p)
       /\ excused' = excused \union Busy(p)

\* SIGTERM or SIGINT.  srv.Shutdown closes the listener first; a process that
\* does not trap the signal yet dies of it.
Signal(p) ==
    \/ /\ phase[p] = "running"
       /\ p \in trapping
       /\ Move(p, "draining")
       /\ listening' = listening \ {p}
       /\ UNCHANGED <<trapping, file, call, starts, excused>>
    \/ /\ phase[p] \in {"locking", "boot", "running"}
       /\ p \notin trapping
       /\ Gone(p)
       /\ excused' = excused \union Busy(p)

\* The bug of a shutdown that does not wait.
DrainAtOnce(p) ==
    /\ phase[p] = "draining"
    /\ Move(p, "closing")
    /\ UNCHANGED <<listening, trapping, file, call, starts, excused>>

\* srv.Shutdown returns: no request is in progress, or ten seconds are over,
\* which is logged.
Drain(p) ==
    /\ phase[p] = "draining"
    /\ Move(p, "closing")
    /\ excused' = excused \union Busy(p)
    /\ UNCHANGED <<listening, trapping, file, call, starts>>

\* The deferred st.Close, which waits for the transactions that are open.
Close(p) ==
    /\ phase[p] = "closing"
    /\ \A r \in Busy(p) : call[r].pc \notin InTransaction
    /\ Move(p, "exiting")
    /\ open' = open \ {p}
    /\ lock' = [s \in Stored |-> IF lock[s] = p THEN Nobody ELSE lock[s]]
    /\ UNCHANGED <<listening, trapping, stamp, call, data, starts, excused>>

\* main returns.
Exit(p) ==
    /\ phase[p] = "exiting"
    /\ Gone(p)
    /\ UNCHANGED excused

\* SIGKILL or a power failure.
Kill(p) ==
    /\ phase[p] # "down"
    /\ Gone(p)
    /\ excused' = excused \union Busy(p)

-----------------------------------------------------------------------------

Opening(p) == Lock(p) \/ LockTimeout(p) \/ Bootstrap(p) \/ Refuse(p)

Serving(p) == Listen(p) \/ ListenFails(p) \/ Notify(p)

Ending(p) == Drain(p) \/ Close(p) \/ Exit(p)

Handling(r) == Begin(r) \/ Finish(r) \/ Respond(r)

LifeNext ==
    \/ \E p \in Processes :
         \/ Start(p) \/ Opening(p) \/ Serving(p)
         \/ Signal(p) \/ Ending(p) \/ Kill(p)
         \/ \E r \in Requests : Accept(r, p)
    \/ \E r \in Requests : Handling(r)

LifeSpec == LifeInit /\ [][LifeNext]_lifeVars

\* main and the handlers run when they can: a wait has a timeout or ends with
\* the transaction it waits for.  Nothing makes a process start, serve or stop.
LifeFairness ==
    /\ \A p \in Processes :
         /\ WF_lifeVars(Opening(p))
         /\ WF_lifeVars(Serving(p))
         /\ WF_lifeVars(Ending(p))
    /\ \A r \in Requests : WF_lifeVars(Handling(r))

-----------------------------------------------------------------------------
(* Properties.                                                             *)

\* A store that is open holds the lock of its file, so that no two processes
\* write to one file, and the file has the layout of its binary.
StoreGuarded ==
    \A p \in open : /\ lock[Service[p]] = p
                     /\ stamp[Service[p]] = SchemaVersion[p]

\* A process that accepts connections has its store open, also while it stops:
\* this is what lets a liveness probe stand for readiness.
ListeningIsOpen ==
    \A p \in listening : Keeps(p) => p \in open

\* A shutdown lets every request finish that can within ten seconds: one is cut
\* short, or refused by a closed store, only if its process was killed or those
\* seconds ran out on it.
CutsExplained ==
    \A r \in Requests : call[r].pc \in {"refuse", "failed", "cut"} => r \in excused

\* Whatever happens to the process, a write answered with success is in the
\* file, and one that a closed store refused is not.
AnswersTrue ==
    \A r \in Writes :
        /\ call[r].pc \in {"answer", "ok"} => r \in data
        /\ call[r].pc \in {"refuse", "failed"} => r \notin data

\* A process does not hang: one that opens its file gets it or gives up, and
\* one that was asked to stop stops, whatever its handlers do.
NoneHangs ==
    \A p \in Processes :
        phase[p] \notin {"running", "down"} ~> phase[p] \in {"running", "down"}

-----------------------------------------------------------------------------
(* The inductive invariant.                                                *)

\* From the lock to the end of the close the file is the process's own.
Holding == {"boot", "running", "draining", "closing"}

LockHeld ==
    \A p \in Processes :
        /\ Keeps(p) /\ phase[p] \in Holding => lock[Service[p]] = p
        /\ phase[p] \in {"locking", "boot"} => Keeps(p)

OpenWhileServing ==
    \A p \in Processes :
        p \in open <=> Keeps(p) /\ phase[p] \in Holding \ {"boot"}

ListenWhileRunning == \A p \in listening : phase[p] = "running"

\* A request runs in a process that listens, or has stopped listening in order;
\* a transaction runs in an open store.
HandlersPlaced ==
    \A r \in Requests : call[r].pc \in InHandler =>
        /\ call[r].at \in Processes
        /\ \/ call[r].at \in listening
           \/ phase[call[r].at] = "draining"
           \/ phase[call[r].at] \in {"closing", "exiting"} /\ r \in excused
        /\ call[r].pc \in InTransaction /\ Keeps(call[r].at) => call[r].at \in open
        /\ call[r].pc \in {"write", "writing"} => r \in Writes

\* A request that has not written is not in the file.
NotYet ==
    \A r \in Requests :
        call[r].pc \in {"new", "check", "write", "checking", "writing"} => r \notin data

LifeInv ==
    /\ LifeTypeOK
    /\ StoreGuarded
    /\ LockHeld
    /\ OpenWhileServing
    /\ ListenWhileRunning
    /\ HandlersPlaced
    /\ CutsExplained
    /\ AnswersTrue
    /\ NotYet
=============================================================================
