--------------------------- MODULE AcceptedShares ---------------------------
(* What becomes of a share whose difficulty suffices: handleMiningSubmission *)
(* of StratumV1Client from the accepting reply to its end. A share that is a *)
(* block goes to the node, to the table of found blocks, to the notifiers,   *)
(* resets the best difficulties and is reported to the mempool explorers;    *)
(* every share is then counted and may become the best of its session and   *)
(* of its address.                                                           *)
(*                                                                           *)
(* Each step is the code between two awaits. The shares under way, of one    *)
(* session or of several, take their steps in any order, and the steps that  *)
(* call something may fail. How addShares counts is ShareStatistics.         *)
EXTENDS Integers, FiniteSetsExt

CONSTANTS
    Session,        \* the TCP connections
    Payout,         \* Payout[s] is the address session s authorized with
    MaxDifficulty,  \* bound: the difficulties are 1 .. MaxDifficulty
    NetworkDifficulty,  \* a share of this difficulty is a block
    MaxShares,      \* bound on the shares accepted
    MaxFailures     \* bound on the steps that fail

Difficulty == 1 .. MaxDifficulty

\* Shares are numbered in the order they are accepted.
ShareId == 1 .. MaxShares

ASSUME SharesAssumption ==
    /\ DOMAIN Payout = Session
    /\ MaxDifficulty \in Nat
    /\ NetworkDifficulty \in Nat \ {0}
    /\ MaxShares \in Nat
    /\ MaxFailures \in Nat

VARIABLES
    connected,      \* sessions whose socket is open
    shares,         \* the shares under way
    arrived,        \* how many shares have been accepted
    replied,        \* the shares whose accepting reply was written: write() was
                    \* resumed with the socket open
    entity,         \* the session's row: ClientEntity of StratumV1Client
    best,           \* entity.bestDifficulty in memory
    rowBest,        \* bestDifficulty of the session's row
    addressBest,    \* bestDifficulty of the address's row
    chain,          \* the blocks the node has accepted
    found,          \* the blocks in the table of found blocks
    recent,         \* PoolRegistryService.recentlyFoundBlocks
    reports,        \* the blocks whose reports have been posted
    told,           \* the blocks of which a report has reached an explorer
    counted,        \* the shares addShares has counted
    wasReset,       \* have the best difficulties been reset?
    missed,         \* the shares a failure kept from being counted or saved
    lost,           \* the blocks whose verdict was lost or whose saving failed
    failures        \* how many steps failed

vars == <<connected, shares, arrived, replied, entity, best, rowBest,
          addressBest, chain, found, recent, reports, told, counted, wasReset,
          missed, lost, failures>>

\* What a share waits for: its reply to be written, the node's verdict, the
\* verdict's way back, the row of its block, the notifiers, the reset of the
\* best difficulties, the reports to the explorers, the session's row, the
\* counters, the best difficulty of that row, being told so, and the best
\* difficulty of the address.
Stage == {"reply", "submit", "verdict", "save", "notify", "reset", "report",
          "entity", "count", "row", "rowDone", "address"}

Share == [id : ShareId, sess : Session, diff : Difficulty, stage : Stage]

TypeOK ==
    /\ connected \subseteq Session
    /\ shares \subseteq Share
    /\ arrived \in 0 .. MaxShares
    /\ entity \in [Session -> {"none", "creating", "present", "failed"}]
    /\ best \in [Session -> Difficulty \cup {0}]
    /\ rowBest \in [Session -> Difficulty \cup {0}]
    /\ addressBest \in [Range(Payout) -> Difficulty \cup {0}]
    /\ \A ids \in {replied, chain, found, recent, reports, told,
                 missed, lost} : ids \subseteq ShareId
    /\ counted \subseteq [id : ShareId, sess : Session, diff : Difficulty]
    /\ wasReset \in BOOLEAN
    /\ failures \in 0 .. MaxFailures

Init ==
    /\ connected = Session
    /\ shares = {}
    /\ arrived = 0
    /\ replied = {}
    /\ entity = [s \in Session |-> "none"]
    /\ best = [s \in Session |-> 0]
    /\ rowBest = [s \in Session |-> 0]
    /\ addressBest = [a \in Range(Payout) |-> 0]
    /\ chain = {}
    /\ found = {}
    /\ recent = {}
    /\ reports = {}
    /\ told = {}
    /\ counted = {}
    /\ wasReset = FALSE
    /\ missed = {}
    /\ lost = {}
    /\ failures = 0

blocks == <<chain, found, recent, reports, told, wasReset, lost>>
records == <<best, rowBest, addressBest>>

-----------------------------------------------------------------------------
(* Steps a share takes in general. *)

Await(x, stage) == shares' = (shares \ {x}) \cup {[x EXCEPT !.stage = stage]}

Finish(x) == shares' = shares \ {x}

Fail ==
    /\ failures < MaxFailures
    /\ failures' = failures + 1

\* The handler ends by an exception, and the data callback ends the socket.
Throw(x) ==
    /\ Finish(x)
    /\ missed' = missed \cup {x.id}
    /\ connected' = connected \ {x.sess}

\* ensureClientEntity: the first share of the session has its row created, the
\* others wait for the same promise, and once it has been rejected all throw.
EnsureEntity(x) ==
    \/ /\ entity[x.sess] \in {"none", "creating"}
       /\ entity' = [entity EXCEPT ![x.sess] = "creating"]
       /\ Await(x, "entity")
       /\ UNCHANGED <<missed, connected>>
    \/ /\ entity[x.sess] = "present"
       /\ Await(x, "count")
       /\ UNCHANGED <<entity, missed, connected>>
    \/ /\ entity[x.sess] = "failed"
       /\ Throw(x)
       /\ UNCHANGED entity

-----------------------------------------------------------------------------
(* The reply, and a share that is a block. *)

\* The share is good and the reply is handed to the socket.
Accept(s, d) ==
    /\ s \in connected
    /\ arrived < MaxShares
    /\ arrived' = arrived + 1
    /\ shares' = shares \cup {[id |-> arrived + 1, sess |-> s, diff |-> d, stage |-> "reply"]}
    /\ UNCHANGED <<connected, replied, entity, records, blocks, counted, missed,
                   failures>>

Replied(x) ==
    /\ x.stage = "reply"
    /\ x.sess \in connected
    /\ replied' = replied \cup {x.id}
    /\ IF x.diff >= NetworkDifficulty
       THEN Await(x, "submit") /\ UNCHANGED <<entity, missed, connected>>
       ELSE EnsureEntity(x)
    /\ UNCHANGED <<arrived, records, blocks, counted, failures>>

\* The socket closed meanwhile: the share is dropped.
NotReplied(x) ==
    /\ x.stage = "reply"
    /\ x.sess \notin connected
    /\ Finish(x)
    /\ UNCHANGED <<connected, arrived, replied, entity, records, blocks, counted,
                   missed, failures>>

NodeTakes(x) ==
    /\ x.stage = "submit"
    /\ chain' = chain \cup {x.id}
    /\ Await(x, "verdict")
    /\ UNCHANGED <<connected, arrived, replied, entity, records, found, recent,
                   reports, told, wasReset, counted, missed, lost, failures>>

\* The node rejects the block: a share like any other.
NodeRejects(x) ==
    /\ x.stage = "submit"
    /\ EnsureEntity(x)
    /\ UNCHANGED <<arrived, replied, records, blocks, counted, failures>>

\* Mutant: the block is saved only for a miner that is still there.
VerdictForConnected(x) == IF x.sess \in connected THEN "save" ELSE "count"

\* SUBMIT_BLOCK returns 'SUCCESS!'.
AfterVerdict(x) == "save"

VerdictArrives(x) ==
    /\ x.stage = "verdict"
    /\ Await(x, AfterVerdict(x))
    /\ UNCHANGED <<connected, arrived, replied, entity, records, blocks, counted,
                   missed, failures>>

\* The verdict does not come back, or too late for the timeout of the RPC
\* client: SUBMIT_BLOCK returns the error, which is taken for a rejection.
VerdictLost(x) ==
    /\ x.stage = "verdict"
    /\ Fail
    /\ lost' = lost \cup {x.id}
    /\ EnsureEntity(x)
    /\ UNCHANGED <<arrived, replied, records, chain, found, recent, reports, told,
                   wasReset, counted>>

\* Mutant: the block is in the table before the node has answered.
SavedEarly == {"save", "submit"}

SaveStages == {"save"}

BlockSaved(x) ==
    /\ x.stage \in SaveStages
    /\ found' = found \cup {x.id}
    /\ Await(x, "notify")
    /\ UNCHANGED <<connected, arrived, replied, entity, records, chain, recent,
                   reports, told, wasReset, counted, missed, lost, failures>>

Notified(x) ==
    /\ x.stage = "notify"
    /\ Await(x, "reset")
    /\ UNCHANGED <<connected, arrived, replied, entity, records, blocks, counted,
                   missed, failures>>

\* Mutant: the hash is remembered when all explorers have answered.
RememberLast(x) ==
    recent' = IF x.stage = "report" THEN recent \cup {x.id} ELSE recent

\* recordFoundBlock: at the start of reportBlockFound.
Remember(x) ==
    recent' = IF x.stage = "reset" THEN recent \cup {x.id} ELSE recent

\* resetBestDifficultyAndShares has set the rows of all addresses; what sessions
\* have in memory and in their rows stays. reportBlockFound runs up to its await:
\* a report is posted to every explorer.
BestsReset(x) ==
    /\ x.stage = "reset"
    /\ addressBest' = [a \in DOMAIN addressBest |-> 0]
    /\ wasReset' = TRUE
    /\ Remember(x)
    /\ reports' = reports \cup {x.id}
    /\ Await(x, "report")
    /\ UNCHANGED <<connected, arrived, replied, entity, best, rowBest, chain, found,
                   told, counted, missed, lost, failures>>

\* A report reaches an explorer, which may ask back from now on, while the pool
\* waits for the others or long after it has stopped waiting.
ReportArrives(i) ==
    /\ i \in reports
    /\ told' = told \cup {i}
    /\ UNCHANGED <<connected, shares, arrived, replied, entity, records, chain, found,
                   recent, reports, wasReset, counted, missed, lost, failures>>

\* Every explorer has answered, or has not within REPORT_TIMEOUT_MS.
Reported(x) ==
    /\ x.stage = "report"
    /\ Remember(x)
    /\ EnsureEntity(x)
    /\ UNCHANGED <<arrived, replied, records, chain, found, reports, told, wasReset,
                   counted, lost, failures>>

\* Saving, notifying or resetting rejects: nothing of the rest is done, and the
\* share is not counted either.
BlockStepFails(x) ==
    /\ x.stage \in {"save", "notify", "reset"}
    /\ Fail
    /\ lost' = IF x.stage = "save" THEN lost \cup {x.id} ELSE lost
    /\ Throw(x)
    /\ UNCHANGED <<arrived, replied, entity, records, chain, found, recent, reports,
                   told, wasReset, counted>>

-----------------------------------------------------------------------------
(* The session's row, the counters and the best difficulties. *)

Waiting(s) == {x \in shares : x.sess = s /\ x.stage = "entity"}

\* Mutant: only the share that had the row created is woken.
WokenFirst(s) == {x \in Waiting(s) : \A y \in Waiting(s) : x.id <= y.id}

Woken(s) == Waiting(s)

\* The row has been inserted and all shares that wait for it go on.
EntityCreated(s) ==
    /\ entity[s] = "creating"
    /\ entity' = [entity EXCEPT ![s] = "present"]
    /\ shares' = (shares \ Woken(s)) \cup {[x EXCEPT !.stage = "count"] : x \in Woken(s)}
    /\ UNCHANGED <<connected, arrived, replied, records, blocks, counted, missed,
                   failures>>

EntityFails(s) ==
    /\ entity[s] = "creating"
    /\ Fail
    /\ entity' = [entity EXCEPT ![s] = "failed"]
    /\ shares' = shares \ Waiting(s)
    /\ missed' = missed \cup {x.id : x \in Waiting(s)}
    /\ connected' = connected \ {s}
    /\ UNCHANGED <<arrived, replied, records, blocks, counted>>

\* After the counters, whether or not they failed: a share better than the best
\* in memory goes on to the session's row.
CompareWithBest(x) ==
    IF x.diff > best[x.sess] THEN Await(x, "row") ELSE Finish(x)

Counted(x) ==
    /\ x.stage = "count"
    /\ counted' = counted \cup {[id |-> x.id, sess |-> x.sess, diff |-> x.diff]}
    /\ CompareWithBest(x)
    /\ UNCHANGED <<connected, arrived, replied, entity, records, blocks, missed,
                   failures>>

CountFails(x) ==
    /\ x.stage = "count"
    /\ Fail
    /\ missed' = missed \cup {x.id}
    /\ CompareWithBest(x)
    /\ UNCHANGED <<connected, arrived, replied, entity, records, blocks, counted>>

\* Mutant: difficulties are added up.
AddedUp(old, new) == old + new

\* Mutant: the update does not ask whether the row has a lower difficulty.
Unconditional(old, new) == new

\* updateBestDifficultyIfHigher: UPDATE ... WHERE bestDifficulty < new.
IfHigher(old, new) == IF old < new THEN new ELSE old

\* The database updates the session's row ...
RowUpdated(x) ==
    /\ x.stage = "row"
    /\ rowBest' = [rowBest EXCEPT ![x.sess] = IfHigher(@, x.diff)]
    /\ Await(x, "rowDone")
    /\ UNCHANGED <<connected, arrived, replied, entity, best, addressBest, blocks,
                   counted, missed, failures>>

\* ... and the share resumes: memory takes its difficulty, whatever another
\* share has put there meanwhile.
RowDone(x) ==
    /\ x.stage = "rowDone"
    /\ best' = [best EXCEPT ![x.sess] = x.diff]
    /\ Await(x, "address")
    /\ UNCHANGED <<connected, arrived, replied, entity, rowBest, addressBest, blocks,
                   counted, missed, failures>>

AddressUpdated(x) ==
    /\ x.stage = "address"
    /\ addressBest' = [addressBest EXCEPT ![Payout[x.sess]] = IfHigher(@, x.diff)]
    /\ Finish(x)
    /\ UNCHANGED <<connected, arrived, replied, entity, best, rowBest, blocks,
                   counted, missed, failures>>

\* Either update fails: the error is logged and the share is done.
BestUpdateFails(x) ==
    /\ x.stage \in {"row", "address"}
    /\ Fail
    /\ Finish(x)
    /\ UNCHANGED <<connected, arrived, replied, entity, records, blocks, counted,
                   missed>>

\* The socket closes. The shares under way go on.
Disconnect(s) ==
    /\ s \in connected
    /\ connected' = connected \ {s}
    /\ UNCHANGED <<shares, arrived, replied, entity, records, blocks, counted,
                   missed, failures>>

-----------------------------------------------------------------------------
\* What the node, the sockets and the database do for a share.
Proceed(x) ==
    \/ Replied(x)
    \/ NotReplied(x)
    \/ NodeTakes(x)
    \/ NodeRejects(x)
    \/ VerdictArrives(x)
    \/ BlockSaved(x)
    \/ Notified(x)
    \/ BestsReset(x)
    \/ Reported(x)
    \/ Counted(x)
    \/ RowUpdated(x)
    \/ RowDone(x)
    \/ AddressUpdated(x)

GoWrong(x) ==
    \/ VerdictLost(x)
    \/ BlockStepFails(x)
    \/ CountFails(x)
    \/ BestUpdateFails(x)

Next ==
    \/ \E s \in Session : \/ \E d \in Difficulty : Accept(s, d)
                          \/ EntityCreated(s)
                          \/ EntityFails(s)
                          \/ Disconnect(s)
    \/ \E x \in shares : Proceed(x) \/ GoWrong(x)
    \/ \E i \in reports : ReportArrives(i)

Spec == Init /\ [][Next]_vars

-----------------------------------------------------------------------------
(* Safety. *)

\* "Only persist accepted blocks in the Found Blocks table": a block is there
\* only if the node has accepted it, with any number of submissions under way.
FoundAreAccepted == found \subseteq chain

\* A block the node has accepted is in the table of found blocks, or on its way
\* there, unless its own verdict was lost or its own saving failed. That its miner
\* has gone, that another share fails, or what fails after the saving does not matter.
WinsAreFound ==
    \A i \in chain \ (found \cup lost) :
        \E x \in shares : x.id = i /\ x.stage \in {"verdict", "save"}

\* An explorer that gets a report asks back whether the pool knows the block
\* (GET pool/identity/confirm), maybe while the other explorers are still being
\* told: the pool knows it from before the first report can arrive.
ReportsAreConfirmed == told \subseteq recent

\* The difficulty a share must exceed to be recorded is one that the session's
\* row has: a best that failed to be stored is not in memory, so that the next
\* such share tries again.
MemoryIsStored == \A s \in Session : best[s] <= rowBest[s]

\* The best difficulty among the shares counted for the sessions in S.
BestCounted(S) == Max({0} \cup {c.diff : c \in {e \in counted : e.sess \in S}})

\* When nothing is under way and nothing failed, the row of a session has the
\* best of its shares and, until a block resets it, the row of an address the
\* best of all its sessions, though overlapping updates run in any order and
\* memory may fall behind the row.
BestsAreBest ==
    shares = {} /\ failures = 0 =>
        /\ \A s \in Session : rowBest[s] = BestCounted({s})
        /\ wasReset \/ \A a \in DOMAIN addressBest :
              addressBest[a] = BestCounted({s \in Session : Payout[s] = a})

\* A share whose accepting reply was written is counted, was kept from it by a
\* failure, or still has someone to carry it on, even if the miner has left: of the
\* shares that wait for the session's row none stays behind when it is there.
AcceptedIsCounted ==
    \A i \in replied \ missed :
        \/ \E c \in counted : c.id = i
        \/ \E x \in shares : /\ x.id = i
                             /\ x.stage \notin {"reply", "row", "rowDone", "address"}
                             /\ x.stage = "entity" => entity[x.sess] = "creating"

=============================================================================
