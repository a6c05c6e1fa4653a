--------------------------- MODULE StratumListener ---------------------------
(* The accepting side of the pool: the listener of StratumV1Service and the *)
(* backpressure monitor that pauses it while the process is overloaded. To  *)
(* pause, the server is closed, which stops accepting and keeps the         *)
(* connections there are; to resume, a new server listens on the port.      *)
EXTENDS Integers, FiniteSetsExt

CONSTANTS
    MaxConnections, \* STRATUM_MAX_CONNECTIONS_PER_LISTENER
    HealthyChecks,  \* STRATUM_BACKPRESSURE_HEALTHY_CHECKS
    MaxOverloads    \* bound: how often the load reaches the thresholds

ASSUME ListenerAssumption ==
    /\ MaxConnections \in Nat
    /\ HealthyChecks \in Nat \ {0}
    /\ MaxOverloads \in Nat

VARIABLES
    overloads,      \* how often the load has reached the thresholds
    load,           \* event loop delay and memory against their thresholds
    created,        \* how many servers have been created
    server,         \* listener.server: the number of a server, or null
    paused,         \* listener.paused
    accepting,      \* does that server accept connections?
    healthyBackpressureChecks,
    connections,    \* how many connections each server has
    streak          \* how many checks in a row have seen a healthy load

vars == <<overloads, load, created, server, paused, accepting, healthyBackpressureChecks,
          connections, streak>>

listener == <<created, server, paused, accepting>>
monitor == <<healthyBackpressureChecks, streak>>
environment == <<overloads, load>>

\* A server is created at the start and after each pause.
Server == 1 .. MaxOverloads + 1
null == 0

\* Below the thresholds to resume, between the two, and at those to pause.
Load == {"healthy", "high", "overloaded"}

TypeOK ==
    /\ overloads \in 0 .. MaxOverloads
    /\ load \in Load
    /\ created \in Server \cup {0}
    /\ server \in 0 .. created
    /\ {paused, accepting} \subseteq BOOLEAN
    /\ healthyBackpressureChecks \in 0 .. HealthyChecks - 1
    /\ connections \in [Server -> 0 .. MaxConnections]
    /\ streak \in 0 .. HealthyChecks

Init ==
    /\ overloads = 0
    /\ load = "healthy"
    /\ created = 0
    /\ server = null
    /\ paused = FALSE
    /\ accepting = FALSE
    /\ healthyBackpressureChecks = 0
    /\ connections = [s \in Server |-> 0]
    /\ streak = 0

-----------------------------------------------------------------------------
(* Connections and the load they, and other things, bring. *)

LoadChanges ==
    /\ load' \in Load \ {load}
    /\ overloads' = overloads + IF load' = "overloaded" THEN 1 ELSE 0
    /\ overloads' <= MaxOverloads
    /\ UNCHANGED <<listener, monitor, connections>>

\* A server has so many connections of its own at most; others are dropped.
Connect ==
    /\ accepting
    /\ connections[server] < MaxConnections
    /\ connections' = [connections EXCEPT ![server] = @ + 1]
    /\ UNCHANGED <<environment, listener, monitor>>

Disconnect(s) ==
    /\ connections[s] > 0
    /\ connections' = [connections EXCEPT ![s] = @ - 1]
    /\ UNCHANGED <<environment, listener, monitor>>

-----------------------------------------------------------------------------
(* Listening, pausing and resuming. *)

\* Mutant: the listener remains marked as paused.
ListenPaused ==
    /\ created' = created + 1
    /\ server' = created + 1
    /\ accepting' \in BOOLEAN
    /\ UNCHANGED paused

\* listen: a server is created and put in place whether or not the port can be
\* had. If not, the error is logged.
Listen ==
    /\ created' = created + 1
    /\ server' = created + 1
    /\ paused' = FALSE
    /\ accepting' \in BOOLEAN

\* Ten seconds after the start.
StartSocketServer ==
    /\ created = 0
    /\ Listen
    /\ UNCHANGED <<environment, monitor, connections>>

\* Mutant: that the listener is paused is not noted.
PauseUnnoted ==
    /\ server' = null
    /\ accepting' = FALSE
    /\ UNCHANGED <<created, paused>>

\* The server is closed; what it has accepted stays.
PauseAccepting ==
    IF server = null THEN UNCHANGED listener
    ELSE /\ server' = null
         /\ paused' = TRUE
         /\ accepting' = FALSE
         /\ UNCHANGED created

\* Mutant: a check that sees a high load leaves the count of healthy ones.
CountGoesOn == UNCHANGED healthyBackpressureChecks

CountStartsAgain == healthyBackpressureChecks' = 0

CheckOverloaded ==
    /\ load = "overloaded"
    /\ CountStartsAgain
    /\ IF paused THEN UNCHANGED listener ELSE PauseAccepting

CheckRunning ==
    /\ load # "overloaded"
    /\ ~paused
    /\ UNCHANGED <<listener, healthyBackpressureChecks>>

CheckStillHigh ==
    /\ load = "high"
    /\ paused
    /\ CountStartsAgain
    /\ UNCHANGED listener

\* Mutant: the pool resumes one check later than the count can get.
OneTooMany == healthyBackpressureChecks + 1 > HealthyChecks

EnoughHealthyChecks == healthyBackpressureChecks + 1 >= HealthyChecks

\* Only a listener that is paused is opened again.
ResumeAccepting == IF ~paused \/ server # null THEN UNCHANGED listener ELSE Listen

CheckRecovering ==
    /\ load = "healthy"
    /\ paused
    /\ IF EnoughHealthyChecks
       THEN ResumeAccepting /\ CountStartsAgain
       ELSE /\ healthyBackpressureChecks' = healthyBackpressureChecks + 1
            /\ UNCHANGED listener

\* checkBackpressure, at every tick of the monitor.
CheckBackpressure ==
    /\ CheckOverloaded \/ CheckRunning \/ CheckStillHigh \/ CheckRecovering
    /\ streak' = IF load = "healthy" THEN Min({streak + 1, HealthyChecks}) ELSE 0
    /\ UNCHANGED <<environment, connections>>

Next ==
    \/ LoadChanges
    \/ Connect
    \/ \E s \in Server : Disconnect(s)
    \/ StartSocketServer
    \/ CheckBackpressure

\* The start and the monitor are timers.
Fairness == WF_vars(StartSocketServer) /\ WF_vars(CheckBackpressure)

Spec == Init /\ [][Next]_vars

FairSpec == Spec /\ Fairness

-----------------------------------------------------------------------------
(* Safety and liveness. *)

\* A check that sees an overload leaves nothing accepting, also after earlier
\* pauses and after servers that could not listen.
OverloadStopsAccepting ==
    [][CheckBackpressure /\ load = "overloaded" => ~accepting']_vars

\* "should resume listeners after consecutive healthy backpressure checks": no
\* earlier, whatever loads the checks before have seen.
ResumeIsEarned == [][paused /\ ~paused' => streak' = HealthyChecks]_vars

\* Once the load stays healthy, the pool does not stay paused: a server is in
\* place, and accepts unless the port could not be had.
Recovers == <>[](load = "healthy") => <>[](server # null)
=============================================================================
