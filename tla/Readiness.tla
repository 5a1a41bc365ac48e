----------------------------- MODULE Readiness ------------------------------
(***************************************************************************)
(* The readiness probe of api-service over the processes of Lifecycle.     *)
(*                                                                         *)
(* One goroutine for each service asks it whether it is alive and notes a  *)
(* failure under a mutex; the handler waits for all of them and answers    *)
(* 503 if any failed.  Services start and stop meanwhile, a ping or its    *)
(* answer may be lost, and a ping gives up after three seconds.            *)
(***************************************************************************)
EXTENDS Lifecycle

VARIABLES
    probe,              \* where the handler is, or its last answer
    ping,               \* what became of the ping of each service
    upSeen,             \* history: services up at some time of the probe,
    downSeen,           \* those down at some time of it,
    late                \* and those whose ping was cut short

handler == <<probe, ping, late>>
probeVars == <<handler, upSeen, downSeen>>

\* A ping is under way, has been answered with 200, or is done.
Pings == {"none", "sent", "served", "ok", "failed"}

ProbeTypeOK ==
    /\ probe \in {"idle", "waiting", "200", "503"}
    /\ ping \in [Services -> Pings]
    /\ upSeen \subseteq Services
    /\ downSeen \subseteq Services
    /\ late \subseteq Services

ProbeInit ==
    /\ LifeInit
    /\ probe = "idle"
    /\ ping = [s \in Services |-> "none"]
    /\ upSeen = {}
    /\ downSeen = {}
    /\ late = {}

\* Some process of the service accepts connections and can serve them.
Up == {s \in Services : \E p \in listening : /\ Service[p] = s
                                             /\ Keeps(p) => p \in open}

Watch ==
    /\ upSeen' = upSeen \union Up'
    /\ downSeen' = downSeen \union (Services \ Up')

Answers(s) == \E p \in listening : Service[p] = s

Pinged(s, outcome) ==
    /\ ping' = [ping EXCEPT ![s] = outcome]
    /\ UNCHANGED probe

-----------------------------------------------------------------------------

\* The bug of keeping failures in the server, not in the request.
StartProbeKeepsFailures ==
    /\ probe # "waiting"
    /\ probe' = "waiting"
    /\ ping' = [s \in Services |-> IF ping[s] = "failed" THEN "failed" ELSE "sent"]
    /\ upSeen' = Up
    /\ downSeen' = Services \ Up
    /\ UNCHANGED late

\* handleHealthzReady starts its goroutines.
StartProbe ==
    /\ probe # "waiting"
    /\ probe' = "waiting"
    /\ ping' = [s \in Services |-> "sent"]
    /\ upSeen' = Up
    /\ downSeen' = Services \ Up
    /\ UNCHANGED late

\* Ping reaches /healthz/live of a process, or nobody listens.
PingArrives(s) ==
    /\ ping[s] = "sent"
    /\ Pinged(s, IF Answers(s) THEN "served" ELSE "failed")
    /\ UNCHANGED <<late, upSeen, downSeen>>

\* The response arrives.
PingBack(s) ==
    /\ ping[s] = "served"
    /\ Pinged(s, "ok")
    /\ UNCHANGED <<late, upSeen, downSeen>>

\* The bug of a ping without a deadline.
PingForEver(s) ==
    /\ ping[s] = "none"
    /\ Pinged(s, "failed")
    /\ late' = late \union {s}
    /\ UNCHANGED <<upSeen, downSeen>>

\* pingTimeout is over, the connection breaks, or the client of the probe has gone.
PingTimeout(s) ==
    /\ ping[s] \in {"sent", "served"}
    /\ Pinged(s, "failed")
    /\ late' = late \union {s}
    /\ UNCHANGED <<upSeen, downSeen>>

Failures == {s \in Services : ping[s] = "failed"}

Status == IF Failures = {} THEN "200" ELSE "503"

Forget == late' = {} /\ upSeen' = {} /\ downSeen' = {}

\* The bug of a handler that does not wait for its goroutines.
AnswerAtOnce ==
    /\ probe = "waiting"
    /\ probe' = Status
    /\ Forget
    /\ UNCHANGED ping

\* The goroutines are done.
Answer ==
    /\ probe = "waiting"
    /\ \A s \in Services : ping[s] \in {"ok", "failed"}
    /\ probe' = Status
    /\ Forget
    /\ UNCHANGED ping

Probing ==
    /\ \/ StartProbe \/ Answer
       \/ \E s \in Services : PingArrives(s) \/ PingBack(s) \/ PingTimeout(s)
    /\ UNCHANGED lifeVars

\* A step of the services, which the histories watch while a probe runs.
Meanwhile ==
    /\ LifeNext
    /\ IF probe = "waiting" THEN Watch ELSE UNCHANGED <<upSeen, downSeen>>
    /\ UNCHANGED handler

ProbeNext == Probing \/ Meanwhile

ProbeSpec == ProbeInit /\ [][ProbeNext]_<<lifeVars, probeVars>>

\* A deadline passes, and the handler answers when its goroutines are done.
\* Nothing makes a ping arrive or come back.
ProbeFairness ==
    /\ WF_probeVars(Answer)
    /\ \A s \in Services : WF_probeVars(PingTimeout(s))

FairProbeSpec == ProbeSpec /\ LifeFairness /\ ProbeFairness

-----------------------------------------------------------------------------
(* Properties.                                                             *)

\* 200 means that each service was up, its store open, at some time since the
\* probe began, though they may never all have been up together.
ReadyMeansUp ==
    [][probe = "waiting" /\ probe' = "200" => upSeen = Services]_probeVars

\* 503 means that some service was down since the probe began, or that some
\* ping was cut short: a failure of an earlier probe does not show.
UnreadyMeansDown ==
    [][probe = "waiting" /\ probe' = "503" => downSeen \union late # {}]_probeVars

\* Every probe is answered, whatever the services do and the network loses.
ProbeEnds == probe = "waiting" ~> probe # "waiting"

\* What a ping has come to is something the services have been through.
PingsWitnessed ==
    probe = "waiting" => \A s \in Services :
        /\ ping[s] \in {"served", "ok"} => s \in upSeen
        /\ ping[s] = "failed" => s \in downSeen \union late
        /\ ping[s] # "none"
        /\ s \in Up => s \in upSeen
        /\ s \notin Up => s \in downSeen

ProbeInv == ProbeTypeOK /\ PingsWitnessed
=============================================================================
