------------------------ MODULE StratumListenerProofs ------------------------
(* Theorems about StratumListener, for any limits, thresholds and loads.     *)
EXTENDS StratumListener, TLAPS

\* What relates the fields of the listener: a paused one has no server, and
\* without a server nothing is accepted.
ListenerInv ==
    /\ created \in Nat /\ server \in 0 .. created
    /\ paused \in BOOLEAN /\ accepting \in BOOLEAN
    /\ created = 0 => ~paused
    /\ paused => server = null
    /\ server = null => ~accepting

\* The checks counted are checks in a row that have seen a healthy load, and none
\* are counted while the listener runs.
CountInv ==
    /\ healthyBackpressureChecks \in Nat
    /\ streak \in 0 .. HealthyChecks
    /\ healthyBackpressureChecks <= streak
    /\ ~paused => healthyBackpressureChecks = 0

Inv == ListenerInv /\ CountInv

\* The smaller of two numbers.
LEMMA MinOfTwo ==
    ASSUME NEW a \in Nat, NEW b \in Nat, a <= b
    PROVE  Min({a, b}) = a /\ Min({b, a}) = a
<1>1. a \in {a, b} /\ \A y \in {a, b} : a <= y
  OBVIOUS
<1>2. Min({a, b}) \in {a, b} /\ \A y \in {a, b} : Min({a, b}) <= y
  <2> HIDE DEF Min
  <2>1. \E x \in {a, b} : \A y \in {a, b} : x <= y
    BY <1>1
  <2> QED
    BY <2>1, Zenon DEF Min
<1>3. Min({a, b}) = a
  BY <1>2
<1> QED
  BY <1>3, {a, b} = {b, a}

\* A streak that goes on, counted up to the number of checks asked for.
LEMMA StreakGrows ==
    ASSUME streak \in Nat
    PROVE  /\ streak + 1 <= HealthyChecks => Min({streak + 1, HealthyChecks}) = streak + 1
           /\ streak + 1 >= HealthyChecks => Min({streak + 1, HealthyChecks}) = HealthyChecks
BY MinOfTwo, ListenerAssumption

\* At the start there is no server, and nothing has been paused.
LEMMA InvInit == Init => Inv
<1> SUFFICES ASSUME Init PROVE Inv
  OBVIOUS
<1>1. created = 0 /\ server = null /\ paused = FALSE /\ accepting = FALSE
      /\ healthyBackpressureChecks = 0 /\ streak = 0
  BY DEF Init
<1>2. created \in Nat /\ server \in 0 .. created
  BY <1>1 DEF null
<1>3. ListenerInv
  BY <1>1, <1>2, Zenon DEF ListenerInv
<1>4. CountInv
  BY <1>1, ListenerAssumption DEF CountInv
<1> QED
  BY <1>3, <1>4 DEF Inv

\* A server that listens ends the pause.
LEMMA ListenKeepsInv ==
    ASSUME ListenerInv, Listen
    PROVE  ListenerInv' /\ ~paused'
<1>1. created' \in Nat /\ server' \in 0 .. created' /\ created' # 0 /\ server' # null
  <2>1. created \in Nat /\ created' = created + 1 /\ server' = created + 1
    BY DEF Listen, ListenerInv
  <2> QED
    BY <2>1 DEF null
<1>2. paused' = FALSE /\ accepting' \in BOOLEAN
  BY DEF Listen
<1> QED
  BY <1>1, <1>2, Zenon DEF ListenerInv

\* What a check of the monitor does, whatever load it sees.
LEMMA CheckKeepsInv ==
    ASSUME Inv, CheckBackpressure
    PROVE  Inv' /\ (load = "overloaded" => ~accepting')
                /\ (paused /\ ~paused' => streak' = HealthyChecks)
<1> USE ListenerAssumption DEF listener
<1>1. ListenerInv /\ CountInv
  BY DEF Inv
<1>2. streak' = IF load = "healthy" THEN Min({streak + 1, HealthyChecks}) ELSE 0
  BY DEF CheckBackpressure
<1>3. streak \in Nat /\ streak <= HealthyChecks
  BY <1>1 DEF CountInv
<1>4. streak' \in 0 .. HealthyChecks
  <2>1. CASE load = "healthy"
    <3>1. streak' = Min({streak + 1, HealthyChecks})
      BY <1>2, <2>1
    <3>2. CASE streak + 1 <= HealthyChecks
      BY <3>1, <3>2, <1>3, StreakGrows
    <3>3. CASE streak + 1 >= HealthyChecks
      BY <3>1, <3>3, <1>3, StreakGrows
    <3> QED
      BY <3>2, <3>3, <1>3
  <2> QED
    BY <1>2, <2>1
<1>5. CASE CheckOverloaded
  <2>1. load = "overloaded" /\ healthyBackpressureChecks' = 0 /\ streak' = 0
    BY <1>2, <1>5 DEF CheckOverloaded, CountStartsAgain
  <2>2. ListenerInv' /\ ~accepting' /\ (paused => paused')
    <3>1. CASE UNCHANGED listener /\ server = null
      BY <1>1, <3>1 DEF ListenerInv
    <3>2. CASE ~paused /\ server # null /\ PauseAccepting
      <4>1. server' = null /\ paused' = TRUE /\ accepting' = FALSE /\ created' = created
        BY <3>2 DEF PauseAccepting
      <4>2. created' \in Nat /\ server' \in 0 .. created' /\ created' # 0
        BY <1>1, <3>2, <4>1 DEF ListenerInv, null
      <4> QED
        BY <4>1, <4>2, Zenon DEF ListenerInv
    <3>3. paused => UNCHANGED listener /\ server = null
      BY <1>1, <1>5 DEF CheckOverloaded, ListenerInv
    <3>4. ~paused => PauseAccepting
      BY <1>5 DEF CheckOverloaded
    <3> QED
      BY <3>1, <3>2, <3>3, <3>4 DEF PauseAccepting
  <2>3. CountInv'
    BY <2>1 DEF CountInv
  <2> QED
    BY <2>1, <2>2, <2>3 DEF Inv
<1>6. CASE CheckRunning
  <2>1. load # "overloaded" /\ ~paused /\ UNCHANGED <<listener, healthyBackpressureChecks>>
    BY <1>6 DEF CheckRunning
  <2>2. ListenerInv'
    BY <1>1, <2>1 DEF ListenerInv
  <2>3. CountInv'
    BY <1>1, <1>4, <2>1 DEF CountInv
  <2> QED
    BY <2>1, <2>2, <2>3 DEF Inv
<1>7. CASE CheckStillHigh
  <2>1. /\ load = "high" /\ paused /\ UNCHANGED listener
        /\ healthyBackpressureChecks' = 0 /\ streak' = 0
    BY <1>2, <1>7 DEF CheckStillHigh, CountStartsAgain
  <2>2. ListenerInv'
    BY <1>1, <2>1 DEF ListenerInv
  <2>3. CountInv'
    BY <2>1 DEF CountInv
  <2> QED
    BY <2>1, <2>2, <2>3 DEF Inv
<1>8. CASE CheckRecovering /\ EnoughHealthyChecks
  <2>1. load = "healthy" /\ paused /\ ResumeAccepting /\ healthyBackpressureChecks' = 0
    BY <1>8 DEF CheckRecovering, CountStartsAgain
  <2>2. streak + 1 >= HealthyChecks
    BY <1>1, <1>8 DEF CountInv, EnoughHealthyChecks
  <2>3. streak' = HealthyChecks
    BY <1>2, <1>3, <2>1, <2>2, StreakGrows
  <2>4. Listen
    BY <1>1, <2>1 DEF ResumeAccepting, ListenerInv
  <2>5. ListenerInv' /\ ~paused'
    BY <1>1, <2>4, ListenKeepsInv
  <2>6. CountInv'
    BY <2>1, <2>3 DEF CountInv
  <2> QED
    BY <2>1, <2>3, <2>5, <2>6 DEF Inv
<1>9. CASE CheckRecovering /\ ~EnoughHealthyChecks
  <2>1. /\ load = "healthy" /\ paused /\ UNCHANGED listener
        /\ healthyBackpressureChecks' = healthyBackpressureChecks + 1
    BY <1>9 DEF CheckRecovering
  <2>2. healthyBackpressureChecks + 1 < HealthyChecks
    BY <1>1, <1>9 DEF CountInv, EnoughHealthyChecks
  <2>3. healthyBackpressureChecks + 1 <= streak'
    <3>1. streak' = Min({streak + 1, HealthyChecks})
      BY <1>2, <2>1
    <3>2. streak' = streak + 1 \/ streak' = HealthyChecks
      BY <1>3, <3>1, StreakGrows
    <3> QED
      BY <1>1, <2>2, <3>2 DEF CountInv
  <2>4. ListenerInv'
    BY <1>1, <2>1 DEF ListenerInv
  <2>5. CountInv'
    BY <1>1, <1>4, <2>1, <2>3 DEF CountInv, ListenerInv
  <2> QED
    BY <2>1, <2>4, <2>5 DEF Inv
<1> QED
  BY <1>5, <1>6, <1>7, <1>8, <1>9 DEF CheckBackpressure

\* Nothing else ends a pause: the start comes before the first one.
LEMMA OthersKeepInv ==
    ASSUME Inv,
           \/ LoadChanges \/ Connect \/ (\E s \in Server : Disconnect(s))
           \/ StartSocketServer \/ UNCHANGED vars
    PROVE  Inv' /\ (paused => paused')
<1>1. ListenerInv /\ CountInv
  BY DEF Inv
<1>2. CASE StartSocketServer
  <2>1. created = 0 /\ Listen /\ UNCHANGED monitor
    BY <1>2 DEF StartSocketServer
  <2>2. ListenerInv' /\ ~paused /\ ~paused'
    BY <1>1, <2>1, ListenKeepsInv DEF ListenerInv
  <2>3. CountInv'
    BY <1>1, <2>1, <2>2 DEF monitor, CountInv
  <2> QED
    BY <2>2, <2>3 DEF Inv
<1>3. CASE ~StartSocketServer
  <2>1. UNCHANGED <<listener, monitor>>
    BY <1>3 DEF LoadChanges, Connect, Disconnect, vars, listener, monitor
  <2>2. ListenerInv' /\ CountInv'
    BY <1>1, <2>1 DEF ListenerInv, CountInv, listener, monitor
  <2> QED
    BY <2>1, <2>2 DEF Inv, listener
<1> QED
  BY <1>2, <1>3

\* The fields of the listener agree in every state.
LEMMA Invariance == Spec => []Inv
<1>1. Inv /\ [Next]_vars => Inv'
  BY CheckKeepsInv, OthersKeepInv DEF Next
<1> QED
  BY <1>1, InvInit, PTL DEF Spec

\* Whatever pauses, resumptions and failures to listen have come before, a check
\* that sees an overload leaves no server accepting.
THEOREM OverloadStops == Spec => OverloadStopsAccepting
<1>1. Inv /\ [Next]_vars =>
        [CheckBackpressure /\ load = "overloaded" => ~accepting']_vars
  BY CheckKeepsInv
<1> QED
  BY <1>1, Invariance, PTL DEF Spec, OverloadStopsAccepting

\* The pool resumes only after HealthyChecks healthy checks in a row.
THEOREM ResumptionIsEarned == Spec => ResumeIsEarned
<1>1. Inv /\ [Next]_vars => [paused /\ ~paused' => streak' = HealthyChecks]_vars
  BY CheckKeepsInv, OthersKeepInv DEF Next
<1> QED
  BY <1>1, Invariance, PTL DEF Spec, ResumeIsEarned

-----------------------------------------------------------------------------
(* Type correctness: the servers that can be created are bounded. *)

\* A server is created at the start and after a pause, and a pause takes an overload: the
\* servers created, and that which can still be, are bounded by the overloads.
ServersInv ==
    /\ overloads \in 0 .. MaxOverloads /\ load \in Load
    /\ load = "overloaded" => overloads >= 1
    /\ created <= overloads + 1
    /\ paused \/ (load = "overloaded" /\ created > 0) => created <= overloads
    /\ healthyBackpressureChecks < HealthyChecks
    /\ connections \in [Server -> 0 .. MaxConnections]

TypeInv == Inv /\ ServersInv

\* At the start there is neither server nor overload.
LEMMA TypeInvInit == Init => TypeInv
<1> SUFFICES ASSUME Init PROVE TypeInv
  OBVIOUS
<1>1. overloads = 0 /\ created = 0 /\ paused = FALSE /\ load = "healthy"
      /\ healthyBackpressureChecks = 0
  BY DEF Init
<1>2. connections \in [Server -> 0 .. MaxConnections]
  BY ListenerAssumption DEF Init
<1>3. ServersInv
  BY <1>1, <1>2, ListenerAssumption DEF ServersInv, Load
<1> QED
  BY <1>3, InvInit DEF TypeInv

\* What a check does to the servers: it creates one only when it sees a healthy load.
LEMMA CheckKeepsServers ==
    ASSUME TypeInv, CheckBackpressure
    PROVE  ServersInv'
<1> USE ListenerAssumption DEF listener, environment
<1>1. /\ ListenerInv /\ CountInv /\ ServersInv
  BY DEF TypeInv, Inv
<1>2. UNCHANGED <<overloads, load, connections>>
  BY DEF CheckBackpressure
<1>3. connections' \in [Server -> 0 .. MaxConnections]
  BY <1>1, <1>2 DEF ServersInv
<1>4. created \in Nat /\ overloads \in Nat /\ healthyBackpressureChecks \in Nat
  BY <1>1 DEF ListenerInv, CountInv, ServersInv
<1> SUFFICES /\ healthyBackpressureChecks' < HealthyChecks
             /\ created' <= overloads + 1
             /\ paused' \/ (load = "overloaded" /\ created' > 0) => created' <= overloads
  BY <1>1, <1>2, <1>3 DEF ServersInv
<1>5. CASE CheckOverloaded
  <2>1. load = "overloaded" /\ healthyBackpressureChecks' = 0 /\ created' = created
    BY <1>5 DEF CheckOverloaded, CountStartsAgain, PauseAccepting
  <2>2. created <= overloads
    BY <1>1, <1>4, <2>1 DEF ServersInv
  <2> QED
    BY <1>4, <2>1, <2>2
<1>6. CASE CheckRunning \/ CheckStillHigh
  <2>1. created' = created /\ paused' = paused
    BY <1>6 DEF CheckRunning, CheckStillHigh
  <2>2. healthyBackpressureChecks' < HealthyChecks
    BY <1>1, <1>6 DEF CheckRunning, CheckStillHigh, CountStartsAgain, ServersInv
  <2>3. created' <= overloads + 1
    BY <1>1, <2>1 DEF ServersInv
  <2>4. paused' \/ (load = "overloaded" /\ created' > 0) => created' <= overloads
    BY <1>1, <2>1 DEF ServersInv
  <2> QED
    BY <2>2, <2>3, <2>4
<1>7. CASE CheckRecovering
  <2>1. load = "healthy" /\ paused
    BY <1>7 DEF CheckRecovering
  <2>2. created <= overloads
    BY <1>1, <2>1 DEF ServersInv
  <2>3. CASE EnoughHealthyChecks /\ Listen
    <3>1. created' = created + 1 /\ healthyBackpressureChecks' = 0 /\ ~paused'
      BY <1>7, <2>3 DEF CheckRecovering, Listen, CountStartsAgain
    <3>2. created' <= overloads + 1 /\ healthyBackpressureChecks' < HealthyChecks
      BY <1>4, <2>2, <3>1
    <3> QED
      BY <2>1, <3>1, <3>2
  <2>4. CASE created' = created /\ paused' = paused
             /\ healthyBackpressureChecks' \in {0, healthyBackpressureChecks + 1}
             /\ (healthyBackpressureChecks' # 0 => ~EnoughHealthyChecks)
    BY <1>4, <2>2, <2>4 DEF EnoughHealthyChecks
  <2>5. EnoughHealthyChecks => Listen
    BY <1>1, <1>7, <2>1 DEF CheckRecovering, ResumeAccepting, ListenerInv
  <2> QED
    BY <1>7, <2>3, <2>4, <2>5 DEF CheckRecovering
<1> QED
  BY <1>5, <1>6, <1>7 DEF CheckBackpressure

\* The other steps create a server only at the start.
LEMMA OthersKeepServers ==
    ASSUME TypeInv,
           \/ LoadChanges \/ Connect \/ (\E s \in Server : Disconnect(s))
           \/ StartSocketServer \/ UNCHANGED vars
    PROVE  ServersInv'
<1> USE ListenerAssumption DEF listener, environment, monitor
<1>1. /\ ListenerInv /\ CountInv /\ ServersInv
  BY DEF TypeInv, Inv
<1>2. created \in Nat /\ overloads \in Nat
  BY <1>1 DEF ListenerInv, ServersInv
<1>3. CASE LoadChanges
  <2>1. /\ load' \in Load /\ UNCHANGED <<created, paused, healthyBackpressureChecks, connections>>
        /\ overloads' = overloads + (IF load' = "overloaded" THEN 1 ELSE 0)
        /\ overloads' <= MaxOverloads
    BY <1>3 DEF LoadChanges
  <2>2. overloads' \in 0 .. MaxOverloads /\ overloads' >= overloads
        /\ (load' = "overloaded" => overloads' = overloads + 1)
    BY <1>2, <2>1
  <2>3. created' <= overloads' + 1 /\ (load' = "overloaded" => created' <= overloads')
    BY <1>1, <1>2, <2>1, <2>2 DEF ServersInv
  <2>4. paused' => created' <= overloads'
    BY <1>1, <1>2, <2>1, <2>2 DEF ServersInv
  <2>5. load' = "overloaded" => overloads' >= 1
    BY <1>2, <2>2
  <2> QED
    BY <1>1, <2>1, <2>2, <2>3, <2>4, <2>5 DEF ServersInv
<1>4. CASE Connect \/ (\E s \in Server : Disconnect(s))
  <2>1. UNCHANGED <<created, paused, healthyBackpressureChecks, overloads, load>>
    BY <1>4 DEF Connect, Disconnect
  <2>2. connections' \in [Server -> 0 .. MaxConnections]
    BY <1>1, <1>4 DEF Connect, Disconnect, ServersInv
  <2> QED
    BY <1>1, <2>1, <2>2 DEF ServersInv
<1>5. CASE StartSocketServer
  <2>1. /\ created = 0 /\ created' = 1 /\ ~paused'
        /\ UNCHANGED <<healthyBackpressureChecks, overloads, load, connections>>
    BY <1>5 DEF StartSocketServer, Listen
  <2>2. created' <= overloads' + 1 /\ (load' = "overloaded" => created' <= overloads')
    BY <1>1, <1>2, <2>1 DEF ServersInv
  <2> QED
    BY <1>1, <2>1, <2>2 DEF ServersInv
<1>6. CASE UNCHANGED vars
  BY <1>1, <1>6 DEF vars, ServersInv
<1> QED
  BY <1>3, <1>4, <1>5, <1>6

\* The types follow: the number of a server is bounded by that of the overloads.
LEMMA TypeFromInv == TypeInv => TypeOK
<1> SUFFICES ASSUME TypeInv PROVE TypeOK
  OBVIOUS
<1>1. /\ ListenerInv /\ CountInv /\ ServersInv
  BY DEF TypeInv, Inv
<1>2. created \in Server \cup {0}
  <2>1. created \in Nat /\ overloads \in 0 .. MaxOverloads /\ created <= overloads + 1
    BY <1>1 DEF ListenerInv, ServersInv
  <2> QED
    BY <2>1, ListenerAssumption DEF Server
<1>3. server \in 0 .. created
  BY <1>1 DEF ListenerInv
<1>4. healthyBackpressureChecks \in 0 .. HealthyChecks - 1 /\ streak \in 0 .. HealthyChecks
  BY <1>1, ListenerAssumption DEF CountInv, ServersInv
<1>5. paused \in BOOLEAN /\ accepting \in BOOLEAN
  BY <1>1 DEF ListenerInv
<1>6. {paused, accepting} \subseteq BOOLEAN
  BY <1>5, Zenon
<1>7. overloads \in 0 .. MaxOverloads /\ load \in Load
      /\ connections \in [Server -> 0 .. MaxConnections]
  BY <1>1 DEF ServersInv
<1> QED
  BY <1>2, <1>3, <1>4, <1>6, <1>7, Zenon DEF TypeOK

\* Every variable keeps its type; in particular, no more servers are created than
\* there have been overloads, and one.
THEOREM TypeCorrect == Spec => []TypeOK
<1>1. TypeInv /\ [Next]_vars => TypeInv'
  <2> SUFFICES ASSUME TypeInv, [Next]_vars PROVE TypeInv'
    OBVIOUS
  <2>1. Inv'
    BY CheckKeepsInv, OthersKeepInv DEF Next, TypeInv
  <2>2. ServersInv'
    BY CheckKeepsServers, OthersKeepServers DEF Next
  <2> QED
    BY <2>1, <2>2 DEF TypeInv
<1> QED
  BY <1>1, TypeInvInit, TypeFromInv, PTL DEF Spec
=============================================================================
