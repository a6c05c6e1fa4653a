# A verification project for the Elektron Net solo pool

The pool (`src/src`, NestJS on Node.js) serves Stratum V1 miners over TCP. Each
miner mines for itself: the coinbase of its job pays its own address, and because
the node attests the UTXO set per payout address, a template cannot be shared by
two addresses (`src/README.md`, 21-23). This directory holds TLA+ modules that
model the pool, TLC configurations that check them on small instances, and proofs,
checked by TLAPS, of what holds for every instance.

Node.js runs one callback at a time. What makes this program hard is that its
callbacks are full of `await`: a template call, a database statement, a socket
write or a report to an explorer is under way while every other callback may run,
and what was read before the await is used after it. A step of a model is
therefore the code between two awaits.

## Inventory

| component | code | state | operations | talks to |
| --- | --- | --- | --- | --- |
| job registry | `services/stratum-v1-jobs.service.ts` | live templates `blocks`, live `jobs`, two id counters, last height per address | `buildTemplateFor` (build, clear, expire), `addJob`, `getNextId`, lookups by id | node (getblocktemplate), sessions |
| Stratum session | `models/StratumV1Client.ts` | socket, authorized address, difficulty, cached template, rotation of version bits, shares seen, its row, best difficulty | the six Stratum messages, `initStratum`, three timers, the new-block subscription, `handleMiningSubmission`, `checkDifficulty`, `destroy` | registry, node, tables, explorers |
| mining job | `models/MiningJob.ts` | template, payout, time, version bits; immutable | `response`, `buildHeaderBuffer`, `copyAndUpdateBlock` | session, registry |
| share statistics | `models/StratumV1ClientStatistics.ts` | slot, counters in memory, `lastSave`, ring of submission times | `addShares`, `getSuggestedDifficulty` | statistics table |
| client table | `ORM/client/client.service.ts`, `services/app.service.ts` | insert queue, rows with `updatedAt` and `deletedAt` | `insert`, `insertClients` every 5 s, `heartbeat`, `delete`, `deleteAll`, `killDeadClients`, `deleteOldClients` | sessions |
| address settings | `ORM/address-settings/address-settings.service.ts` | best difficulty of each address | `updateBestDifficultyIfHigher`, `resetBestDifficultyAndShares` | sessions |
| found blocks | `ORM/blocks/blocks.service.ts` | rows | `save` | sessions |
| node client | `services/bitcoin-rpc.service.ts` | `blockHeight`, `newBlock$` | poll (by a timer, or once at the start and for each ZMQ message), `getBlockTemplate`, `SUBMIT_BLOCK` | node |
| pool registry | `services/pool-registry.service.ts` | found blocks remembered, list of explorers and its file | refresh of the list, `reportBlockFound`, `wasRecentlyFound` | explorers |
| listener | `services/stratum-v1.service.ts` | servers, paused ports, connection limit | listen, `checkBackpressure`, pause, resume | operating system |
| notifications, log rotation, HTTP API, external shares | see `PROJECT.json` | | I/O and reads | |

**Hard behaviours**, each with its line and the property that would catch it
under `hazards` in `PROJECT.json`:

* Sessions share the registry. A template of one address may remove the templates
  and jobs of all others, and answers of the node arrive late and in any order.
* The payout address is read when a template is asked for and again when a job is
  made of it; ids are read and consumed in different places; the set of shares seen
  is emptied while shares are on their way.
* Messages of a session are handled up to the write of their response; others are
  handled meanwhile, and each that resumes may be the one that starts the session.
  The difficulty is assigned in five places, and not all of them tell the miner.
* Many jobs are made of one template, and only their time and four version bits tell
  them apart. Three timers make them, and each write is awaited before the session
  takes note of the job it has sent.
* Polls for blocks overlap, and with ZMQ a block is looked for only when told.
* Shares of one session overlap: their counters, their row and their best difficulty
  are read, awaited and written by several at once.
* Every step after the accepting reply may fail: the node's answer may be lost, a
  statement may fail, one row may fail the insert of a whole batch.
* A process dies and leaves rows of sessions that no longer exist, blocks nobody
  remembers, and a file that may have been half written. In a cluster the first worker
  deletes the rows of all when it starts again.

**What makes each part correct.** Registry: live templates are of their address's
height, an id names one job for ever. Session: a job pays the address it was
attested for, the miner is told when its old work is void, it always gets live work
back, no two of its jobs make it hash the same headers, the block submitted is the one
that was mined, no submission is accepted again when it is sent again, the difficulty shares are
checked with is the one the miner was told, its timers run once and not after its end.
Node client: the pool learns of new blocks. Statistics: a share is counted exactly once, in
the slot it was made in. Client table: a session that mines is shown, one that is gone is
not, a row is inserted once. Found blocks: in the table exactly when the node took
them. Explorers: the list is never lost to a bad answer, and what is reported can be
confirmed. Listener: an overload stops the accepting, and a healthy load resumes it.

## Modules

| module | models |
| --- | --- |
| `StratumJobs` | the registry and the sessions that fill it and look work up in it |
| `JobLedger` | abstract: what the registry promises to those who name a job by id |
| `WorkDelivery` | the same code as `StratumJobs` without ids and clocks, for the long run, and the polls for blocks |
| `WorkRotation` | what a miner is given to hash: the times and version bits of the jobs of one session, and the block made of a share |
| `MerkleBranch` | the Merkle branch in `mining.notify` and the root computed along it, used by `WorkRotation` |
| `StratumSession` | one session: handshake, start and end of its timers, the difficulty |
| `DifficultyTarget` | `getSuggestedDifficulty` and `nearestPowerOfTwo`, used by `StratumSession` |
| `AcceptedShares` | a share from the accepting reply on: block submission, row, counters, bests |
| `ShareStatistics` | `addShares` and the rows it writes |
| `ClientRows` | the life of a session's row in the client table |
| `PoolRegistry` | the list of explorers, its file, and the blocks found lately |
| `StratumListener` | listening, and pausing and resuming under load |
| `MCStratumJobs`, `MCAcceptedShares` | values for constants that a configuration cannot write |
| `StratumJobsProofs`, `StratumSessionProofs`, `AcceptedSharesProofs`, `ShareStatisticsProofs`, `ClientRowsProofs`, `PoolRegistryProofs`, `StratumListenerProofs`, `WorkRotationProofs` | theorems about the module each is named for |

How they fit together: `StratumSession` ends where `StratumJobs` begins (its `SendJob`
stands for any job `StratumJobs` sends, and `Open` of `StratumJobs` for the whole
handshake); `WorkRotation` looks into the jobs that `StratumJobs` tells apart by their id; a
share that `Submit` of `StratumJobs` accepts is an `Accept` of
`AcceptedShares`; `Counted` there is `AddShares` of `ShareStatistics`, and the insert of
the session's row is the life of that row in `ClientRows`; the blocks reported there
are those of `ReportBlockFound` in `PoolRegistry`.

### StratumJobs

`blocks`, `jobs`, `lastTemplateHeight`, `latestJobTemplateId` and `latestJobId` are
the fields of `StratumV1JobsService`; `authorized`, `currentJobTemplate` and
`submissionHashes` those of each `StratumV1Client`. A template is its id, address,
tip and creation time; a job its id, template, the address paid and the address
attested. A call of getblocktemplate is three steps: a request (`Send`), the node's
computation at its tip of that moment (`NodeAnswers`), and the resumption
(`ResumeRefresh` for `refreshMiningJob`, `ResumeVardiff` for `checkDifficulty`),
which runs from the await to the written mining.notify. Or it fails, and who waited
decides the rest: the new-block subscription ends the socket, the refresh timer logs,
and the difficulty timer has no handler, so that Node.js ends the process.
`PollNewBlock` is the poll together with the requests `newBlock$` sets off.
`LocalRefresh` is `refreshLocalMiningWork`, `RetargetFromCache` and `RetargetByCall`
are the two branches of `checkDifficulty` with a new target. `Submit` is the lookup
and the duplicate check of `handleMiningSubmission`, `Accepted` its accepting reply; the
outcome of the comparison of difficulties is a choice. A submission is the job it names, a
solution and a spelling: `submissionHashes` holds the strings that were sent, among them
extraNonce2, while the header is made of the job and the numbers in them, so that one
solution can be sent in several ways. The handshake is one step, `Open`, after which the session
is as `initStratum` leaves it; `AuthorizeAgain` is a second mining.authorize.

`JobLedger` is implemented with `issued` the ids below `latestJobId` and `live` the
jobs of the registry.

### WorkDelivery

The registry keeps every template ever built distinct by id, so a model with ids is
finite only with a bound on the refreshes, and a bound on the refreshes forbids the
question whether they end well. `WorkDelivery` keeps of each session only the template
it cached and whether that template and its last job are still in the registry.
The heights of the tips are chosen at the start: a chain that grows, or one whose tip
is replaced by another of its height. Left out: the five minutes a template lives
(the refresh timer replaces it every thirty seconds), the call of the difficulty timer
of a session without a template, and a second authorization.

The two ways to look for blocks are both there, and `zmq` chooses. By the timer,
`PollTimer` asks without waiting for the poll before, so that polls overlap. With ZMQ, there is
`StartPoll`, the poll of `onModuleInit`, and `MessagePoll`, one for each message; messages
come in already while the first poll is under way, and one is taken when the poll for the one
before is done. `Polled` is `pollMiningInfo` after its await. `missed` says that the
last message was lost, or that the last poll failed, after which nothing asks again before
the next block. A poll and a template call of the refresh timer are seen from their answer
on, since nothing depends on when they were made; a template call of the new-block
subscription is a request and an answer, since its failure ends the socket.

### WorkRotation and MerkleBranch

The coinbase has no extranonce, so jobs of one template differ in the time of the
header and in the four version bits `sendNewMiningJob` rotates. One session is followed
through its three timers (`WorkTimer`, `RefreshTimer`, `DifficultyTimer`), its template
calls (`Resume`) and its writes (`Written`, after which the session takes note of the
job). `versionCounter` and `lastSent` are `elektronPoolVersionCounter` and
`lastSentMiningJobTimestamp`. Times are seconds from now: at the turn of a second all shrink,
and jobs with a time before now are forgotten, since no later job can have it. So the clock
need not be bounded. `lead` is how far the `mintime` of the tip is ahead of the
clock. A version is the set of its bits.

`MinedHeader` is what a miner makes of `mining.notify`, `CheckedHeader` what
`buildHeaderBuffer` makes of the share it sends back, `Block` what `copyAndUpdateBlock`
submits. In `MerkleBranch` a hash is the bracketed pair of what was hashed, so that
different trees have different roots; `Proof` is the proof of merkle-lib, by the places in
it, from which `Branch` cuts the branch as `buildTemplateFor` does: `filter`, `pop`, `slice`.

### StratumSession and DifficultyTarget

`userAgent`, `hobby`, `authorized`, `suggested`, `used`, `initialized` and
`sessionDifficulty` are the fields `handleMessage` and `initStratum` branch on. A
message is two steps: the handler up to its write (`Subscribe`, `Authorize`, `Suggest`,
`OtherMessage`), and what follows the write (`Responded`), which is where
`usedSuggestedDifficulty` is set and where the first message that finds the session
complete runs `InitStratum`. `writes` holds the kinds of message whose write is under
way; "init" stands for the set_difficulty of `initStratum`, after which
`DifficultyWritten` starts the timers. A write whose socket has gone returns false
(`WriteFails`), and the handler returns. `Destroy` is `destroy()`.

Three variables say what the miner knows, which the code does not store: `told` is the
last set_difficulty, `mining` the difficulty its last job was sent under, `newer` what
has set a difficulty since. `untold` names the two paths of the code that change the
difficulty without telling: `initStratum` over a suggested difficulty, and a
mining.authorize of a session already started. `CheckDifficulty` takes what the cache of
submissions would say as an input (`Measured`) and computes the new difficulty as the
code does.

A difficulty in `DifficultyTarget` is a whole number of units, `Scale` of them being one,
so that fractions are exact. `nearestPowerOfTwo` is translated bit by bit: a word is the
set of the positions of its ones, `>>` fills with the sign and takes the shift modulo the
length of the word, and a value below one is multiplied by `Factor` and tried again. The
recursion is a search for the first depth at which something is left, `Diverged` if there
is none. Powers and sums are recursive functions, so that proofs can use them. The assumption
`TargetAssumption` ties the numbers together: what is multiplied from `MinDifficulty` on
becomes at least one within `MaxDepth`, and units are fine enough for the divisions on the
way back to be exact (for the code's 0.00001 and 100, a millionth is). The configurations use words of eight bits, where shifts by 8, 16 and 32
change nothing, as a shift by 32 does in the code's words of thirty-two, and twelfths
with a factor of 12, a multiple of four like the code's 100.

### AcceptedShares

A share waits at a `stage` named for the await it stands at, and each action is the
code from that await to the next. Several shares, of one or several sessions, are
under way. `EnsureEntity` is `ensureClientEntity`: the promise of the row is cached, so
all shares of a session wait for one insert and fail with it. The database's
execution of the update of the session's row (`RowUpdated`) and the resumption that
takes the difficulty into memory (`RowDone`) are separate steps. `VerdictLost` is a
node that took the block and whose answer does not arrive. `lost` holds the blocks this
happened to, and those whose saving failed. The reports of a block are posted in the
step that has reset the bests (`BestsReset`, which runs on into `reportBlockFound` up to
its await); each may arrive (`ReportArrives`) while the others are under way, or after the
pool has stopped waiting for them (`Reported`). A share counts as `replied` when `write` was
resumed with the socket open; a reply that reached the miner just before the socket closed
is one that was not written, as it is for the code. Left out: the report to an
external pool (fire and forget, off by default), and the thirty minutes after which a
found block is forgotten, which are in `PoolRegistry`.

### ShareStatistics

`addShares` has four branches, each an action up to its await; `statements` are the
database statements under way. The driver runs statements in a thread pool, so
`Execute(i)` takes any of them. After its await the branch that closes a slot resets
the counter and inserts (`Reopen`); the others note the time (`Saved`). Every share has
difficulty one, so `shares` and `acceptedCount` agree. `credited` and `raced`, which the
code does not have, count the shares of each slot and say whether a slot was
closed with a statement under way.

### ClientRows

The insert queue of each worker and its flush, the batches under way, heartbeats and soft
deletes under way, and the row itself: `none`, `live` or `deleted`; `recent` are the sessions
whose insert or heartbeat was executed within five minutes. A heartbeat writes
`deletedAt = null`, hence it revives a deleted row, but an update brings back no row that
`deleteOldClients` has removed (`RemoveOld`), which `removed` remembers. The pool
is one process or a cluster (`cluster`) whose workers share the table; `home` is the worker of
a session. `Crash(w)` loses what worker w had in memory, and its sockets and statements. If
it was the first of a cluster, it deletes all rows when it starts again, before it
listens (`DeleteAll`), also those of sessions other workers have. The timer that looks for
dead clients belongs to the first worker.

### PoolRegistry

Each worker of a cluster has a `PoolRegistryService` with its own `mempools` and
`recentlyFoundBlocks`; they share the file. `Start` reads the file and sends the first
request; a request is asked, answered and handled in three steps (`RefreshRegistry`,
`RegistryAnswers`, `Refreshed`), so that a worker may store an answer that is older than
another's. `writeFileSync` truncates before it writes, hence a write that fails leaves
the old text or nothing. `Crash` is the end of a worker by a signal or an error, after
which it may be started again. `WasRecentlyFound` is the question an explorer sends to
`pool/identity/confirm`, which the operating system may give to any worker. Between the
truncation and the write another worker could read an empty file; both are one synchronous
call, and the model takes them as one step.

### StratumListener

One listener: its `server`, `paused`, and whether that server really accepts. The load is
a choice of three: below the thresholds to resume, between, and at those to pause.
`CheckBackpressure` is one tick of the monitor, whose four branches are the four
returns of `checkBackpressure`; `Listen` stores the new server before it is known whether
the port could be had, as the code does. `streak`, which the code does not have, counts
the healthy checks in a row independently of `healthyBackpressureChecks`.

## Runs

| run | asks | bounds |
| --- | --- | --- |
| `Jobs_two_miners` | are live templates of their address's last height, do jobs pay the attested address, is a lone miner told to drop old work when its height changes | two sessions, two addresses, two heights, two calls in flight, three templates and jobs |
| `Jobs_ledger` | does the registry implement `JobLedger`; is a submission accepted twice as it was sent, with expiry, re-authorization and submissions for any job issued | one session, two addresses, three templates, two jobs, a solution in two spellings, expiry after one tick; addresses and spellings are symmetric |
| `Delivery_settles` | once the chain rests, does every open session have live work on the tip for good, and does the pool know its height | two sessions on any of two addresses, two tips, two calls of each session in flight, one failed call; refreshes and polls are not bounded |
| `Work_rotates` | do two jobs make the miner hash the same headers, does a job with a new difficulty repeat one, is the submitted block the one that was mined | ticks of half a second, local work every tick, templates every two seconds, retargets every three; eight rotations, a `mintime` of up to two seconds ahead, two tips, two writes pending, six transactions; the clock is not bounded |
| `Session_told` | is the difficulty checked the one told, does current work count, are timers started once and not after the end, does a retarget fit what was measured | one session of any kind, two passwords, three suggestions, five measurements; messages are not bounded |
| `Shares_accepted` | are found blocks blocks the node took and the other way round, can a report be confirmed from the moment it arrives, is every share told "accepted" counted or carried on, do best difficulties come out right | two sessions of one address, three shares of three difficulties, one failure |
| `Statistics_overlap` | is a share lost, counted twice or counted in another slot, has a slot one row | three slots of three shares, three statements under way, two failures |
| `Rows_lifecycle` | is a row inserted once, a session that shows signs of life shown (unless its row has been removed), one that is gone no longer | two sessions on any of two workers or on one, two shares each under way, two failures, two crashes |
| `Registry_restarts` | is the list of explorers kept and does it follow the registry, does a worker confirm exactly what it found | two workers, three texts, one block, one crash, one failed write; requests are not bounded |
| `Listener_recovers` | does an overload stop the accepting, and does the pool resume in time and not too early | two connections for each server, two overloads, three healthy checks |

Why these bounds are enough to be of interest: two calls in flight are the fewest that
come back in the other order; three templates let one session's template be wiped by
another's and built again; three shares let the first two race and the third find what
they left; three slots let a slot be closed while the closing of the one before is
under way, and two failures let its closing fail and the insert of the next attempt too; two
workers let one save an older text over a newer, or delete the rows of the
other's sessions, and a second crash lets that happen again before they are
revived; local work twice a second makes several jobs within one second, and eight rotations
are used up when `mintime` makes the time stand still; six transactions give trees with an
odd number of nodes on the first level, the second, on both and on none; three
healthy checks leave room for a count that is interrupted; the measurements of `Session_told` are none,
one below the smallest difficulty of one, one in the middle, and two beyond a
positive word. Every bound is a constant in a guard and stops the model, not the pool,
which is why deadlock is not checked in most runs: a model that has used up its bounds, or
whose sessions are all gone, has nothing to do. The registry and the listener never
stop, and their runs check deadlock.

Two runs show what the program does not do although a comment or a document says so:

| run | what it shows |
| --- | --- |
| `Jobs_refresh_keeps_work` | The height is compared per address, the clearing is for all: the first template of another address removes the live jobs of everybody. |
| `Statistics_slot_race` | Two submissions that both find the slot ended both reset the counter and insert a row. |

The passing properties say under what condition the same code is right: alone on an
address (`CleanOnNewHeight`), without a second authorization (`AttestationBound`),
unless a slot is closed with a statement under way (`HonestUnlessRaced`), for a submission
as it was sent (`AcceptedOnce`), unless its own verdict was lost or its own saving failed
(`WinsAreFound`), unless a call fails (`BestsAreBest`), unless the last block's message was lost or its poll
failed (`BlocksAreNoticed`), unless the file could not be written (`ListIsThere`,
`NeverWipedOut`), but for two named paths (`ToldIsChecked`), a suggestion or a retarget in
between (`CurrentWorkCounts`), if the target fits a word (`RetargetFits`), unless the
rotation has started again or has been used up (`SpacesApart`), unless a write
was pending or `mintime` is ahead (`RetargetIsNew`), since its last sign of life and
unless its row was removed (`RecentIsShown`), for a server in place, which need not
listen (`Recovers`). What the conditions leave out is behaviour of the code that a reader
should know of:

* Of two sessions of one address, only the first to get a template at a new height tells
  its miner to drop its jobs.
* After a second mining.authorize with another address, jobs of the cached template pay an
  address the template was not attested for.
* A block the node took and whose answer was lost is treated as rejected: not saved, not
  reported.
* A solution that is sent again with another extraNonce2, or in other hex digits, is another
  submission for the duplicate check and is accepted and counted again.
* The row of a session that is connected without a share for a day after it was taken for
  dead is removed. The session still has its entity and does not insert it again; its
  heartbeats update nothing, and it is not shown until it connects anew.
* A server that could not listen after a pause is taken for one in place; it is replaced
  after the next overload only.
* A suggested difficulty is replaced by the one of hobby miners or cpuminer without a
  set_difficulty, and so is a running session's by the password of a second authorization.
* A block announced before the ZMQ connection is up, or whose poll fails, is not noticed
  before the next one; templates are still fetched for it every thirty seconds.
* After a change of difficulty the rotation starts again, and a later local job may
  repeat headers of a job sent earlier in the same second; while `mintime` is ahead
  of the clock the time stands still, and the seventeenth job repeats the first.
* A job with a new difficulty that is made while the write of another is pending may have
  the same header as that one, since the session takes note of a job only after its write.
* Two sessions of one address get jobs with the same search spaces.
* A measured difficulty whose whole part does not fit a signed 32-bit word is turned
  into an unrelated power of two, and an infinite one makes `nearestPowerOfTwo` recurse without
  end.
* A template call of the difficulty timer that fails ends the process.
* The shares of up to a minute are only in memory: they are lost when the process
  dies, and not saved when the session closes.
* When the first worker of a cluster starts again, the miners of the other workers are not
  shown until their next heartbeat.
* After a pause the connections of the old server are not counted against the limit of
  the new one.
* In a cluster, the question whether the pool found a block is answered no by every
  worker but the one that found it.
* A write of the list that fails may leave an empty file, and the next start without
  the registry has no explorers.

## Fairness

Only what the program or the systems it calls must do is fair. In `WorkDelivery`, the
refresh timer of an open session fires (`setInterval`), a call that is under way ends (the
RPC client has a timeout, `ELEKTRON_RPC_TIMEOUT`), and an answer that has arrived is
handled, since the event loop does not stop. The poll timer fires and not all its polls
fail; with ZMQ the first poll is made and each message that has come in is handled, but a
message may be lost and its poll may fail. In `ClientRows`, each worker's insert queue is
flushed every five seconds, dead clients are looked for every five minutes, the first worker
deletes all rows when it starts again, and statements of the local database end. In
`PoolRegistry`, a worker
is started again, its interval fires and its requests end (they have a timeout). In
`StratumListener`, the start and the monitor are timers. Nothing makes miners connect, send
shares or leave, blocks be found, the load change, or calls fail. Failures are bounded
where they are modelled, since with a call that fails for ever nothing is delivered.
The other modules have safety properties only and no fairness.

## Proofs

The theorems hold for any values of the constants that satisfy the named assumptions of
the module (`ConstantsAssumption`, `SessionAssumption` and so on), among them any bounds:
these appear in guards only. The assumptions say of what kind a constant is; two say more:
`PeriodsAssumption` of `WorkRotation` has the least periods `getTunedIntervalMs` lets
through, and `TargetAssumption` of `DifficultyTarget` words of up to 64 bits, units fine
enough for exact quotients and difficulties below its bound. Each invariant below is one that `Init` establishes and every
step preserves; the lemma of the step splits into the actions of `Next`.

**`StratumJobsProofs`**

* `TypeCorrect`: `Spec => []TypeOK`. It is not inductive as it stands: a template call
  takes its address from `authorized`, which may hold "none". `TypeInv` adds that an
  open session has an address.
* `OneHeight`: `Spec => []LiveTemplatesOneHeight`. Inductive with the types: a template
  either has the height recorded for its address, and others of it stay, or it clears
  everything before it is stored.
* `LedgerImplemented`: `Spec => Ledger!Spec`. The step that stores a template, clears
  and issues a job maps to `Issue`; clearing without a socket to send to maps to
  `Revoke`; the rest stutters. The invariant `IdsIssued` says that the ids of live jobs
  are below `latestJobId`, which makes the id of the next one new.
* `NoShareTwice`: `Spec => []AcceptedOnce`, for submissions as they are sent, whatever other
  spellings of a solution there are. The number of replies and the number of
  different submissions could part when `submissionHashes` is emptied. `AcceptedInv` says that
  an accepted submission whose job is still live is in the set; the set is only emptied by
  a template that clears, with which all live jobs go, and by `IdsIssued` no
  later job takes their id.
* `Attestation`: `(Spec /\ ~Reauthorize) => []AttestationBound`. `AttestationInv` follows the
  address through the places it waits in: the call in flight, the cached template and
  the jobs of a session all carry the address the session has authorized with.

* `CleanAtNewHeight`: `(Spec /\ ~Reauthorize) => CleanOnNewHeight`, a property of steps.
  `HeightInv` says that for a session alone on its address the height recorded for the
  address, the one it was last given work for and the one of its cached template are the
  same, so that a template of another height clears.

**`StratumSessionProofs`**, of which the first four need nothing of how a target becomes a
power of two:

* `TimersStartOnce`: `Spec => []StartedOnce`. `StartInv` says that timers started, or a
  write of `initStratum` under way, mean that the session is marked as initialized, and
  that the two exclude each other.
* `ClosedSessionsRest`: `Spec => []NoWorkAfterClose`, inductive itself, since a handler
  goes on only if its write finds the socket open.
* `DifficultyIsTold`: `Spec => []ToldIsChecked`. `ToldInv` extends it to the time before
  `initStratum`: a suggested difficulty is told at once, so that `initStratum` may skip its own
  set_difficulty.
* `WorkCounts`: `Spec => []CurrentWorkCounts`. `WorkInv` says the same of the difficulty
  told instead of the one checked; `ToldInv` makes the two one.
* `TypeCorrect`: `Spec => []TypeOK`. `TypeInv` adds that a session's difficulty is within the
  bound, which makes the next difficulty asked for one of those `NearestPowerOfTwo` is
  defined for. `TargetType` says that what it then returns, if the recursion ends, is within
  the bound and never negative: of zero, and of a word whose sign is set, nothing is left
  (`NothingLeft`, `HighestOneIs`), of any other word its highest one.
* `RetargetsFit`: `Spec => RetargetFits`, for words of any length up to 64 bits, any smallest
  difficulty and any factor that is a number a word can hold. `SpreadCovers` says that a
  shift by k doubles a run of k ones below the highest one, `SmearedIs` that the six shifts
  leave all positions below it ones (a shift of a multiple of the word's length changes
  nothing, but then the word is full already), `HighestOneIs` that taking half of that away
  leaves the highest one, since a sum of ones is a power of two less one (`SumOfOnes`).
  `Depth` says that the recursion stops as soon as the value has become one, and that the value
  then still fits a positive word; `TargetFits` that dividing by the same factors is exact
  and keeps the value between the result and its double. `Recursion` shows that the
  recursive functions exist; the inductions are over sets of numbers, by `AllNumbers`.

**`AcceptedSharesProofs`**

* `TypeCorrect`: `Spec => []TypeOK`.
* `OnlyAcceptedBlocks`, `ReportsConfirmed`: `Spec => []FoundAreAccepted`,
  `Spec => []ReportsAreConfirmed`. `StagesAreEarned` says that a share beyond the node's
  verdict is of a block the node has accepted, and that one being reported is remembered;
  beside it, whatever has been posted to explorers is remembered, so that a report may arrive
  at any time, also before the others have been answered.
* `MemoryStored`: `Spec => []MemoryIsStored`. `MemoryInv` adds that a share whose update has
  been executed has at most the difficulty in the row; rows only grow, so this
  survives the updates of others until the share resumes.
* `NoneForgotten`: `Spec => []AcceptedIsCounted`, inductive with the types.
* `WinsKept`: `Spec => []WinsAreFound`, inductive with the types: a block the node took stays
  with its share until it is saved, unless the verdict or the saving of that share fails;
  what other shares, their failures and closing sockets do takes none off its way.
* `BestsHold`: `Spec => []BestsAreBest`. The property speaks of the time when nothing is
  under way. `BestsInv` says what holds until then: each counted share, and each best in
  memory, is no better than the rows or than a share on its way to them; and what rows
  hold are difficulties of counted shares. `MemoryInv` is needed for the shares that
  do not set out, because memory has a better one.

**`ShareStatisticsProofs`**

* `TypeCorrect`: `Spec => []TypeOK`.
* `HonestCounters`: `Spec => []HonestUnlessRaced`. `StatementsInv` says what can be under way
  together while no slot has been closed with company: only statements about the slot
  being counted, of which the update that closes it is alone and carries the count in
  memory, and at most one insert, only while the slot has no row. So saves of one slot may
  be executed in any order, as the update that closes it comes last. `CountingInv`
  holds with failures, too, and keeps the row single.

**`ClientRowsProofs`**

* `TypeCorrect`: `Spec => []TypeOK`.
* `RowsInsertedOnce`: `Spec => []InsertedOnce`. `Promised` says that a session whose row is queued or
  being inserted has its promise pending, on one way only; `AsksForNew` that a session
  that may still ask for its row has none, since the crash that makes a worker forget its
  promises closes its sockets.
* `SignsAreShown`: `Spec => []RecentIsShown`. `Shown` adds that a soft delete is under way for
  closed sockets only, and that what has shown signs of life lately is in the table or was
  removed from it; `Kept` says this of any session that has its entity or a heartbeat under way.

**`PoolRegistryProofs`**

* `TypeCorrect`: `Spec => []TypeOK`. `DownIsEmpty` says that a worker that is down has no
  list, no request and no blocks.
* `ListKept`: `Spec => []ListIsThere`. `ListInv` adds the file: while no write has failed, it
  has entries once any worker had a list, which is what a restart finds.
* `AnswersAreHonest`: `Spec => []ConfirmsItsOwn`. `FoundInv` says that a worker remembers only
  blocks of its own and all that are young enough; what it remembers beyond those is old,
  and pruned before the answer.
* `GoodListStays`: `Spec => NeverWipedOut`, a property of each step.

**`StratumListenerProofs`**

* `TypeCorrect`: `Spec => []TypeOK`. `ServersInv` bounds the servers that are created by the
  overloads, since one is created at the start and after a pause only.
* `OverloadStops`: `Spec => OverloadStopsAccepting`. `ListenerInv` says that a paused
  listener has no server and that without a server nothing is accepted, so that a check
  that finds it paused, or finds no server, has nothing to close.
* `ResumptionIsEarned`: `Spec => ResumeIsEarned`. `CountInv` says that the checks counted are at
  most the streak of healthy ones and none while the listener runs.

**`WorkRotationProofs`**

* `TypeCorrect`: `Spec => []TypeOK`. `TypeInv` says of the cached template and of the
  last job, which are sets of at most one member, which member that is. A template's time and
  that of a job stay numbers when a second passes, since jobs whose time is past are forgotten.
* `WorkIsNotRepeated`: `MaxCalls + 6 < Rotations` implies `Spec => []SpacesApart`. Two jobs
  of one template and one second have the same bits if the rotation has come around
  between them. `InTurn` says, for each job that was sent, how many have been sent since and
  which bits the next will have. For a job whose time is now or the next second, `InTime` adds
  that the jobs sent since and those that can still be sent before its time is past, its
  `Budget`, are fewer than the rotations. The budget counts the turns of the work timer,
  at most four in two seconds, the turns of the refresh timer, at most two, and the calls in
  flight; a job that is sent is paid for from it, a call in flight takes the place of
  a turn of the refresh timer, a new block ends the template, and a tick never adds to it.
  With the sixteen rotations of the pool it takes ten calls of one session in flight to repeat
  a job. For a job with a time ahead of the clock the number of jobs since is all
  that is known, and the property excepts the last of the rotations. The configuration, with
  eight rotations and one call, is an instance of the condition, too.
* `RetargetWorkIsNew`: `Spec => []RetargetIsNew`. The time of a retarget is beyond that of the last
  job written. `RetargetInv` says of each job that was sent whose time is not past that it is
  ahead, or that the difficulty timer is not due before its time is past, or that its time
  is now and the latest write, done or under way, is not older. The second case is for the
  time a retarget itself has added a second to, and is where the period of five seconds
  is needed.
* `MinedIsSubmitted`: `Spec => []BlockIsWhatWasMined`, for any number of transactions. The branch
  was cut from a tree over a placeholder, the root is computed from the real coinbase.
  `SameTree` shows by induction over the levels that two trees whose leaves differ in the
  first only have the same height and on each level the same nodes but the first;
  `BranchIs` that filter, pop and slice leave the neighbours on the way up; `RootAlongBranch`
  that hashing along them gives the first node of each level up to the root. The
  induction is `AllNumbers`, which speaks of a set of numbers and follows from the well-ordering
  of the library, and `Repeated` shows that the recursive functions exist.

**Only model-checked:** liveness (`WorkSettles`, `BlocksAreNoticed`, `GoneDisappears`,
`Recovers`, `FollowsRegistry`), which is beyond the prover, and the types of `WorkDelivery`,
a module written for liveness. Every other property of a passing run is stated by a theorem.

## Not modelled

The bytes of coinbase and header and the diagnostics logged about them
(`models/MiningJob.ts`), addresses and difficulty conversions (stateless library code), the
text of messages and logs, log rotation (a copy of the console in dated files, which nothing
in the pool reads), the bots, the HTTP endpoints of the dashboard (reads), and code the
application does not use (Braiins, BTCPay). `PROJECT.json` names each part with the reason.

## Plan

In order of weight, what is left to model:

1. **Restart with shares under way** in `AcceptedShares`: what a block loses at each stage.
2. **A round.** A found block resets the rows of all addresses and not the bests in the
   memory of sessions; what the best of a round is would have to be said first.
3. **Several sessions in `WorkRotation`**, with a coinbase for each address.
4. **The cache of submissions** behind `getSuggestedDifficulty`, which is an input now.

Theorems to come: the types of `WorkDelivery`, and an abstract specification of a miner's
work (what it may be paid for) for `StratumJobs`, `StratumSession` and `AcceptedShares` to
implement together.
