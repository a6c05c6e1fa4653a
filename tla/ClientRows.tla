----------------------------- MODULE ClientRows -----------------------------
(* The rows of the client table, from which the pool tells who is mining:   *)
(* the insert queue of ClientService, the promise in which a session caches *)
(* the creation of its row (ensureClientEntity), heartbeats, the soft       *)
(* delete when the socket closes (destroy), and the timers that soft-delete *)
(* rows without a heartbeat and remove rows deleted long ago.               *)
(*                                                                          *)
(* The pool runs as one process or as a cluster of workers that share the   *)
(* database. Statements under way execute in any order; the crash of a      *)
(* worker loses those it made and everything it had in memory.              *)
EXTENDS Integers

CONSTANTS
    Session,        \* the TCP connections
    Worker,         \* the processes of a cluster
    First,          \* the one with NODE_APP_INSTANCE 0, or the only one
    MaxShares,      \* bound on the shares of a session under way
    MaxFailures,    \* bound on the statements that fail
    MaxCrashes      \* bound on the crashes of workers

ASSUME RowsAssumption ==
    /\ First \in Worker
    /\ MaxShares \in Nat
    /\ MaxFailures \in Nat
    /\ MaxCrashes \in Nat

VARIABLES
    cluster,        \* is NODE_APP_INSTANCE set?
    home,           \* the worker that has or will have each session
    starting,       \* has the first worker of a cluster not yet called deleteAll?
    socket,         \* "new", "open" or "closed"
    sharing,        \* how many accepted shares each session has under way
    creatingEntity, \* the cached promise: "none", "pending", "kept", "broken"
    insertQueue,    \* the sessions whose row waits to be inserted
    batches,        \* the inserts under way, each a set of sessions
    beats,          \* the sessions with a heartbeat under way
    deletes,        \* the sessions with a soft delete under way
    row,            \* the row of each session: "none", "live" or "deleted"
    recent,         \* the sessions whose insert or heartbeat was executed within
                    \* five minutes
    removed,        \* the sessions whose row was deleted and a day later removed
    failures,       \* how many statements failed
    crashes         \* how often a worker crashed

vars == <<cluster, home, starting, socket, sharing, creatingEntity, insertQueue,
          batches, beats, deletes, row, recent, removed, failures, crashes>>

TypeOK ==
    /\ cluster \in BOOLEAN /\ starting \in BOOLEAN
    /\ home \in [Session -> Worker]
    /\ socket \in [Session -> {"new", "open", "closed"}]
    /\ creatingEntity \in [Session -> {"none", "pending", "kept", "broken"}]
    /\ batches \subseteq SUBSET Session
    /\ sharing \in [Session -> 0 .. MaxShares]
    /\ \A set \in {insertQueue, beats, deletes, recent, removed} : set \subseteq Session
    /\ row \in [Session -> {"none", "live", "deleted"}]
    /\ failures \in 0 .. MaxFailures
    /\ crashes \in 0 .. MaxCrashes

\* Without a cluster there is one worker.
Init ==
    /\ cluster \in BOOLEAN
    /\ home \in [Session -> IF cluster THEN Worker ELSE {First}]
    /\ starting = FALSE
    /\ socket = [s \in Session |-> "new"]
    /\ sharing = [s \in Session |-> 0]
    /\ creatingEntity = [s \in Session |-> "none"]
    /\ insertQueue = {}
    /\ batches = {}
    /\ beats = {}
    /\ deletes = {}
    /\ row = [s \in Session |-> "none"]
    /\ recent = {}
    /\ removed = {}
    /\ failures = 0
    /\ crashes = 0

table == <<row, recent, removed>>
bounds == <<failures, crashes>>
pool == <<cluster, home, starting>>

At(w) == {s \in Session : home[s] = w}

\* A worker listens ten seconds after it has started.
Open(s) ==
    /\ socket[s] = "new"
    /\ ~(starting /\ home[s] = First)
    /\ socket' = [socket EXCEPT ![s] = "open"]
    /\ UNCHANGED <<pool, sharing, creatingEntity, insertQueue, batches, beats, deletes,
                   table, bounds>>

\* The sockets of the sessions in S close and destroy() issues the soft deletes.
Close(S) ==
    /\ socket' = [s \in Session |-> IF s \in S THEN "closed" ELSE socket[s]]
    /\ deletes' = deletes \cup {s \in S : socket[s] = "open"}

Disconnect(s) ==
    /\ socket[s] = "open"
    /\ Close({s})
    /\ UNCHANGED <<pool, sharing, creatingEntity, insertQueue, batches, beats, table,
                   bounds>>

-----------------------------------------------------------------------------
(* Shares and the creation of the row. *)

\* Mutant: what is cached is the row, not the promise of it.
NotCreatedYet(s) == creatingEntity[s] \in {"none", "pending"}

NotCreating(s) == creatingEntity[s] = "none"

\* An accepted share reaches ensureClientEntity: the first queues the row.
ShareAccepted(s) ==
    /\ socket[s] = "open"
    /\ sharing[s] < MaxShares
    /\ creatingEntity[s] # "broken"
    /\ sharing' = [sharing EXCEPT ![s] = @ + 1]
    /\ IF NotCreating(s)
       THEN /\ creatingEntity' = [creatingEntity EXCEPT ![s] = "pending"]
            /\ insertQueue' = insertQueue \cup {s}
       ELSE UNCHANGED <<creatingEntity, insertQueue>>
    /\ UNCHANGED <<pool, socket, batches, beats, deletes, table, bounds>>

\* Mutant: a share may end twice.
ShareDoneAgain(s) ==
    /\ creatingEntity[s] = "kept"
    /\ sharing' = [sharing EXCEPT ![s] = @ - 1]
    /\ beats' \in {beats, beats \cup {s}}
    /\ UNCHANGED <<pool, socket, creatingEntity, insertQueue, batches, deletes, table,
                   bounds>>

\* The row exists and the share ends, with a heartbeat if the last was more than
\* a minute ago, whether or not the socket is still open.
ShareDone(s) ==
    /\ sharing[s] > 0
    /\ creatingEntity[s] = "kept"
    /\ sharing' = [sharing EXCEPT ![s] = @ - 1]
    /\ beats' \in {beats, beats \cup {s}}
    /\ UNCHANGED <<pool, socket, creatingEntity, insertQueue, batches, deletes, table,
                   bounds>>

\* insertClients, every five seconds.
Flush(w) ==
    /\ insertQueue \cap At(w) # {}
    /\ batches' = batches \cup {insertQueue \cap At(w)}
    /\ insertQueue' = insertQueue \ At(w)
    /\ UNCHANGED <<pool, socket, sharing, creatingEntity, beats, deletes, table, bounds>>

Inserted(b) ==
    /\ \A s \in b : row[s] = "none"
    /\ batches' = batches \ {b}
    /\ row' = [s \in Session |-> IF s \in b THEN "live" ELSE row[s]]
    /\ recent' = recent \cup b
    /\ creatingEntity' = [s \in Session |-> IF s \in b THEN "kept" ELSE creatingEntity[s]]
    /\ UNCHANGED <<pool, socket, sharing, insertQueue, beats, deletes, removed, bounds>>

\* The shares that wait for the row throw, and their sockets are ended.
EndWaiting(b) == Close(b)

\* One insert writes the rows of a whole batch: if it fails, it fails for all.
InsertFails(b) ==
    /\ failures < MaxFailures
    /\ failures' = failures + 1
    /\ batches' = batches \ {b}
    /\ creatingEntity' = [s \in Session |-> IF s \in b THEN "broken" ELSE creatingEntity[s]]
    /\ sharing' = [s \in Session |-> IF s \in b THEN 0 ELSE sharing[s]]
    /\ EndWaiting(b)
    /\ UNCHANGED <<pool, insertQueue, beats, table, crashes>>

-----------------------------------------------------------------------------
(* Statements on a row, timers and crashes. *)

\* Mutant: the heartbeat leaves deletedAt alone.
Touched(s) == row[s]

\* heartbeat: an update by key of hashRate, updatedAt and deletedAt, which also
\* revives a deleted row. It does not bring back a row that has been removed.
Revived(s) == IF row[s] = "none" THEN "none" ELSE "live"

Beat(s) ==
    /\ s \in beats
    /\ beats' = beats \ {s}
    /\ row' = [row EXCEPT ![s] = Revived(s)]
    /\ recent' = recent \cup {s}
    /\ UNCHANGED <<pool, socket, sharing, creatingEntity, insertQueue, batches, deletes,
                   removed, bounds>>

BeatFails(s) ==
    /\ s \in beats
    /\ failures < MaxFailures
    /\ failures' = failures + 1
    /\ beats' = beats \ {s}
    /\ UNCHANGED <<pool, socket, sharing, creatingEntity, insertQueue, batches, deletes,
                   table, crashes>>

\* The soft delete of destroy(). It does nothing if the row has not been
\* inserted yet.
Delete(s) ==
    /\ s \in deletes
    /\ deletes' = deletes \ {s}
    /\ row' = [row EXCEPT ![s] = IF @ = "none" THEN "none" ELSE "deleted"]
    /\ UNCHANGED <<pool, socket, sharing, creatingEntity, insertQueue, batches, beats,
                   recent, removed, bounds>>

DeleteFails(s) ==
    /\ s \in deletes
    /\ failures < MaxFailures
    /\ failures' = failures + 1
    /\ deletes' = deletes \ {s}
    /\ UNCHANGED <<pool, socket, sharing, creatingEntity, insertQueue, batches, beats,
                   table, crashes>>

\* Five minutes without an update of the row.
GrowsOld(s) ==
    /\ s \in recent
    /\ recent' = recent \ {s}
    /\ UNCHANGED <<pool, socket, sharing, creatingEntity, insertQueue, batches, beats,
                   deletes, row, removed, bounds>>

\* Mutant: only rows this process has created are considered.
DeadAndOurs(s) == row[s] = "live" /\ s \notin recent /\ creatingEntity[s] # "none"

Dead(s) == row[s] = "live" /\ s \notin recent

\* killDeadClients, every five minutes, by the first worker.
KillDead ==
    /\ ~starting
    /\ \E s \in Session : Dead(s)
    /\ row' = [s \in Session |-> IF Dead(s) THEN "deleted" ELSE row[s]]
    /\ UNCHANGED <<pool, socket, sharing, creatingEntity, insertQueue, batches, beats,
                   deletes, recent, removed, bounds>>

\* deleteOldClients removes a row that was deleted a day ago, also that of a session
\* that is still connected and has not had a share for so long: one may be under way.
RemoveOld(s) ==
    /\ row[s] = "deleted"
    /\ s \notin recent
    /\ row' = [row EXCEPT ![s] = "none"]
    /\ removed' = removed \cup {s}
    /\ UNCHANGED <<pool, socket, sharing, creatingEntity, insertQueue, batches, beats,
                   deletes, recent, bounds>>

\* A worker dies with its sockets, its memory and its statements, and starts again.
Crash(w) ==
    /\ crashes < MaxCrashes
    /\ crashes' = crashes + 1
    /\ ~(starting /\ w = First)
    /\ socket' = [s \in Session |->
                     IF s \in At(w) /\ socket[s] = "open" THEN "closed" ELSE socket[s]]
    /\ creatingEntity' = [s \in Session |-> IF s \in At(w) THEN "none" ELSE creatingEntity[s]]
    /\ sharing' = [s \in Session |-> IF s \in At(w) THEN 0 ELSE sharing[s]]
    /\ insertQueue' = insertQueue \ At(w)
    /\ batches' = {b \in batches : b \cap At(w) = {}}
    /\ beats' = beats \ At(w)
    /\ deletes' = deletes \ At(w)
    /\ starting' = (starting \/ (cluster /\ w = First))
    /\ UNCHANGED <<cluster, home, table, failures>>

\* The first worker of a cluster soft-deletes all rows before it listens, also those of
\* sessions that other workers have. They are not heard of until their next heartbeat.
DeleteAll ==
    /\ starting
    /\ starting' = FALSE
    /\ row' = [s \in Session |-> IF row[s] = "live" THEN "deleted" ELSE row[s]]
    /\ recent' = {}
    /\ UNCHANGED <<cluster, home, socket, sharing, creatingEntity, insertQueue, batches,
                   beats, deletes, removed, bounds>>

Next ==
    \/ \E s \in Session : \/ Open(s)
                          \/ Disconnect(s)
                          \/ ShareAccepted(s)
                          \/ ShareDone(s)
                          \/ Beat(s)
                          \/ BeatFails(s)
                          \/ Delete(s)
                          \/ DeleteFails(s)
                          \/ GrowsOld(s)
                          \/ RemoveOld(s)
    \/ \E w \in Worker : Flush(w) \/ Crash(w)
    \/ \E b \in batches : Inserted(b) \/ InsertFails(b)
    \/ KillDead
    \/ DeleteAll

\* Timers fire, statements end well or badly, and shares under way are handled.
\* Nothing makes miners come, go or send shares.
Fairness ==
    /\ \A w \in Worker : WF_vars(Flush(w))
    /\ WF_vars(KillDead)
    /\ WF_vars(DeleteAll)
    /\ WF_vars(\E b \in batches : Inserted(b))
    /\ \A s \in Session : /\ WF_vars(ShareDone(s))
                         /\ WF_vars(Beat(s))
                         /\ WF_vars(Delete(s))
                         /\ WF_vars(GrowsOld(s))

Spec == Init /\ [][Next]_vars

FairSpec == Spec /\ Fairness

-----------------------------------------------------------------------------
(* Safety and liveness. *)

\* No row is inserted twice, however many shares of a session ask for it while
\* it is being created. The key would refuse the second row, and with it every
\* other row of the batch, whose sessions would lose their sockets.
InsertedOnce ==
    \A s \in Session :
        /\ s \in insertQueue => row[s] = "none" /\ \A b \in batches : s \notin b
        /\ \A b, c \in batches : s \in b => row[s] = "none" /\ (s \in c => b = c)

\* A session that shows signs of life is in the table of those who mine, also when
\* its row had been deleted for want of them, or by another worker that started
\* after its last sign of life. The exception is a row that was removed: the session
\* still has its entity and does not insert it again, its heartbeats update nothing,
\* and it stays hidden for as long as it is connected.
RecentIsShown ==
    \A s \in recent : socket[s] = "open" => row[s] = "live" \/ s \in removed

\* A session that is gone disappears from the table in the end and for good,
\* though its delete may come before the insert, before a late heartbeat, fail
\* or be lost in a crash.
GoneDisappears == \A s \in Session : <>[](socket[s] = "closed" => row[s] # "live")
=============================================================================
