---------------------------- MODULE WorkRotation ----------------------------
(* What a miner is given to hash. The coinbase has no extranonce, so the    *)
(* jobs of one template differ in two things only: the time of the header   *)
(* (ntime) and the version bits that sendNewMiningJob rotates. One session  *)
(* is followed through its timers, its template calls and its writes, and   *)
(* the jobs it is sent are remembered while another could repeat them.      *)
(*                                                                          *)
(* Every time is a number of seconds from now, so that the clock may run    *)
(* for ever: at the turn of a second all of them shrink. No job is sent     *)
(* with a time before now, and jobs that are older are forgotten.           *)
(*                                                                          *)
(* The session stays open, and checkDifficulty finds a cached template      *)
(* (StratumJobs has the other cases, and answers that come after the chain  *)
(* has moved on). Heights are those of the tips: the chain only grows.      *)
EXTENDS Integers, FiniteSets, Sequences, MerkleBranch

CONSTANTS
    TicksPerSecond,     \* how finely the clock is looked at
    MinGap,             \* the 350 ms between a job and a local refresh, in ticks
    WorkPeriod,         \* WORK_REFRESH_INTERVAL_MS in ticks
    RefreshPeriod,      \* JOB_REFRESH_INTERVAL_MS in ticks
    DifficultyPeriod,   \* DIFFICULTY_CHECK_INTERVAL_MS in ticks
    PoolBits,           \* the version bits the pool rotates: 13 to 16
    MaxLead,            \* bound: how far the node's mintime is ahead, in seconds
    MaxTransactions,    \* bound on the transactions of a block
    MaxTip,             \* bound: how many chain tips the node goes through
    MaxCalls,           \* bound on the template calls in flight
    MaxWrites           \* bound on the jobs being written

Tip == 1 .. MaxTip
Timer == {"work", "refresh", "difficulty"}
Period == [work |-> WorkPeriod, refresh |-> RefreshPeriod, difficulty |-> DifficultyPeriod]

ASSUME RotationAssumption ==
    /\ TicksPerSecond \in Nat \ {0}
    /\ MinGap \in Nat
    /\ \A t \in Timer : Period[t] \in Nat \ {0}
    /\ PoolBits \subseteq 13 .. 16
    /\ MaxTip \in Nat \ {0}
    /\ MaxTransactions \in Nat \ {0}
    /\ MaxCalls \in Nat \ {0}
    /\ MaxWrites \in Nat \ {0}
    /\ MaxLead \in Nat

\* getTunedIntervalMs lets the periods be no shorter than half a second, a second and
\* five seconds, of which two matter here.
ASSUME PeriodsAssumption ==
    /\ 2 * WorkPeriod >= TicksPerSecond
    /\ RefreshPeriod >= TicksPerSecond
    /\ DifficultyPeriod >= 2 * TicksPerSecond

VARIABLES
    phase,              \* ticks since the last full second
    lead,               \* how far the mintime of the node's tip is ahead
    tip,                \* the node's chain tip
    calls,              \* how many template calls are in flight
    lastTemplateHeight, \* lastTemplateHeightByAddress of the session's address
    current,            \* currentJobTemplate, as a set of at most one template
    versionCounter,     \* elektronPoolVersionCounter, of which & 0x0f is used
    writing,            \* the times in the headers of jobs being written
    lastSent,           \* lastSentMiningJobTimestamp
    sinceSent,          \* ticks since lastLocalWorkSentAt, up to MinGap
    wait,               \* ticks until each timer is due
    jobs,               \* the jobs the session was sent, but for
    last                \* the last one, as a set of at most one

vars == <<phase, lead, tip, calls, lastTemplateHeight, current,
          versionCounter, writing, lastSent, sinceSent, wait, jobs, last>>

Later(a, b) == IF a > b THEN a ELSE b

Rotations == 2 ^ Cardinality(PoolBits)

\* A version is the set of its bits. The base is the one the node asks for.
BaseVersion == {29}

\* ConfigurationMessage lets miners roll 1ffe0000: two of its bits stand for all.
MinerBits == {17, 28}

\* -1 is any time before now.
Time == Nat \cup {-1}

Template == [tip : Tip, timestamp : Nat, version : SUBSET Nat]

\* restarted: the rotation has started again since the job was sent; ahead: its time was
\* beyond now, and beyond the second a retarget adds, because the node's mintime is; in
\* that case turns is how many jobs were sent since, up to the number of rotations.
Job == [template : Template, ntime : Nat, version : SUBSET Nat, ahead : BOOLEAN,
        restarted : BOOLEAN, turns : 0 .. Rotations]

\* retarget: it was sent with a new difficulty; hasty: while another was being written.
LastJob == [job : Job, retarget : BOOLEAN, hasty : BOOLEAN]

TypeOK ==
    /\ phase \in 0 .. TicksPerSecond - 1
    /\ lead \in 0 .. MaxLead
    /\ tip \in Tip
    /\ calls \in 0 .. MaxCalls
    /\ lastTemplateHeight \in 0 .. tip
    /\ current \subseteq Template /\ Cardinality(current) <= 1
    /\ versionCounter \in 0 .. Rotations - 1
    /\ writing \in Seq(Time) /\ Len(writing) <= MaxWrites
    /\ lastSent \in Time
    /\ sinceSent \in 0 .. MinGap
    /\ \A t \in Timer : wait[t] \in 0 .. Period[t]
    /\ jobs \subseteq Job
    /\ last \subseteq LastJob /\ Cardinality(last) <= 1

\* The session starts anywhere in a second and asks for its first template.
Init ==
    /\ phase \in 0 .. TicksPerSecond - 1
    /\ lead \in {0, MaxLead}
    /\ tip = 1
    /\ calls = 1
    /\ lastTemplateHeight = 0
    /\ current = {}
    /\ versionCounter = 0
    /\ writing = <<>>
    /\ lastSent = -1
    /\ sinceSent = MinGap
    /\ wait = Period
    /\ jobs = {}
    /\ last = {}

-----------------------------------------------------------------------------
(* Time and the node. *)

\* A time one second later.
Passed(time) == Later(time - 1, -1)

AgedTemplate(t) == [t EXCEPT !.timestamp = Later(@ - 1, 0)]
Older(j) == [j EXCEPT !.ntime = @ - 1, !.template = AgedTemplate(@)]

\* A tick passes for the timers. A timer may be late, never early.
Wear ==
    /\ sinceSent' = IF sinceSent < MinGap THEN sinceSent + 1 ELSE MinGap
    /\ wait' = [t \in Timer |-> Later(wait[t] - 1, 0)]
    /\ UNCHANGED <<tip, calls, lastTemplateHeight, versionCounter>>

Tick ==
    /\ phase < TicksPerSecond - 1
    /\ phase' = phase + 1
    /\ Wear
    /\ UNCHANGED <<lead, current, writing, lastSent, jobs, last>>

NextSecond ==
    /\ phase = TicksPerSecond - 1
    /\ phase' = 0
    /\ Wear
    /\ lead' = Later(lead - 1, 0)
    /\ current' = {AgedTemplate(t) : t \in current}
    /\ writing' = [i \in DOMAIN writing |-> Passed(writing[i])]
    /\ lastSent' = Passed(lastSent)
    /\ jobs' = {Older(j) : j \in {k \in jobs : k.ntime > 0}}
    /\ last' = {[l EXCEPT !.job = Older(@)] : l \in {k \in last : k.job.ntime > 0}}

\* One more call is under way.
Ask ==
    /\ calls < MaxCalls
    /\ calls' = calls + 1

\* A new block, whose mintime is not before that of the block under it. newBlock$
\* makes the session ask for a template.
NewBlock ==
    /\ tip < MaxTip
    /\ tip' = tip + 1
    /\ lead' \in {lead, MaxLead}
    /\ Ask
    /\ UNCHANGED <<phase, lastTemplateHeight, current, versionCounter, writing, lastSent,
                   sinceSent, wait, jobs, last>>

\* Another session of the same address gets a template; the height of the address is
\* recorded for both.
OtherSession ==
    /\ lastTemplateHeight' = tip
    /\ UNCHANGED <<phase, lead, tip, calls, current, versionCounter, writing,
                   lastSent, sinceSent, wait, jobs, last>>

-----------------------------------------------------------------------------
(* sendNewMiningJob. *)

\* Mutant: the counter is not cut to the bits there are.
Unmasked(n) == n + 1

\* The counter, of which only as many bits are used as the mask has (& 0x0f).
Advanced(n) == (n + 1) % Rotations

\* Mutant: only one of the bits is used.
OneBit(n) == IF n % 2 = 1 THEN {13} ELSE {}

\* The pool's bits for the n-th job since the rotation started.
RotationBits(n) ==
    {b \in PoolBits : (n \div 2 ^ Cardinality({c \in PoolBits : c < b})) % 2 = 1}

\* A job is made of template t with the time ntime, stored and written.
SendJob(t, ntime, clear, retarget) ==
    /\ Len(writing) < MaxWrites
    /\ LET rotationState == IF clear THEN 0 ELSE versionCounter
           job == [template |-> t, ntime |-> ntime,
                   version |-> (t.version \ PoolBits) \cup RotationBits(rotationState),
                   ahead |-> ntime > IF retarget THEN 1 ELSE 0, restarted |-> FALSE, turns |-> 0]
       IN /\ versionCounter' = Advanced(rotationState)
          /\ last' = {[job |-> job, retarget |-> retarget, hasty |-> writing # <<>>]}
          /\ jobs' = {[j EXCEPT !.restarted = @ \/ clear,
                                !.turns = IF j.ahead /\ @ < Rotations THEN @ + 1 ELSE @] :
                         j \in jobs \cup {l.job : l \in last}}
    /\ writing' = Append(writing, ntime)

\* The write has come through. Only now the session takes note of the job.
Written ==
    /\ writing # <<>>
    /\ lastSent' = Head(writing)
    /\ writing' = Tail(writing)
    /\ sinceSent' = 0
    /\ UNCHANGED <<phase, lead, tip, calls, lastTemplateHeight, current,
                   versionCounter, wait, jobs, last>>

-----------------------------------------------------------------------------
(* Template answers and the timers. *)

Due(timer) ==
    /\ wait[timer] = 0
    /\ wait' = [wait EXCEPT ![timer] = Period[timer]]

RefreshTimer ==
    /\ Due("refresh")
    /\ Ask
    /\ UNCHANGED <<phase, lead, tip, lastTemplateHeight, current,
                   versionCounter, writing, lastSent, sinceSent, jobs, last>>

\* An answer for the node's tip arrives: buildTemplateFor and refreshMiningJob after
\* their awaits. The time of the template is now, or mintime if that is later.
Resume ==
    /\ calls > 0
    /\ calls' = calls - 1
    /\ lastTemplateHeight' = tip
    /\ LET t == [tip |-> tip, timestamp |-> lead, version |-> BaseVersion]
       IN /\ current' = {t}
          /\ SendJob(t, t.timestamp, lastTemplateHeight # tip, FALSE)
    /\ UNCHANGED <<phase, lead, tip, lastSent, sinceSent, wait>>

\* refreshLocalMiningWork: nothing without a template or shortly after a job.
WorkTimer ==
    /\ Due("work")
    /\ \/ /\ current = {} \/ sinceSent < MinGap
          /\ UNCHANGED <<versionCounter, writing, jobs, last>>
       \/ /\ sinceSent = MinGap
          /\ \E t \in current : SendJob(t, t.timestamp, FALSE, FALSE)
    /\ UNCHANGED <<phase, lead, tip, calls, lastTemplateHeight, current,
                   lastSent, sinceSent>>

\* Mutant: the time of the last job is not looked at.
RetargetAtOnce(t) == t.timestamp

\* Not before now or the template, and beyond the last job.
RetargetTime(t) == Later(t.timestamp, lastSent + 1)

\* checkDifficulty, with and without a new target. Its job clears the others.
DifficultyTimer ==
    /\ Due("difficulty")
    /\ \/ UNCHANGED <<versionCounter, writing, jobs, last>>
       \/ \E t \in current : SendJob(t, RetargetTime(t), TRUE, TRUE)
    /\ UNCHANGED <<phase, lead, tip, calls, lastTemplateHeight, current,
                   lastSent, sinceSent>>

Next ==
    \/ Tick
    \/ NextSecond
    \/ NewBlock
    \/ OtherSession
    \/ Resume
    \/ Written
    \/ RefreshTimer
    \/ WorkTimer
    \/ DifficultyTimer

Spec == Init /\ [][Next]_vars

-----------------------------------------------------------------------------
(* Headers and blocks. *)

\* The transactions of a template are known by its tip and their number n.
Others(n) == [i \in 1 .. n - 1 |-> Leaf(i)]

\* The coinbase of buildTemplateFor, which only gives the tree its shape, and the
\* one MiningJob builds: payout, required outputs and height, another for each tip.
Placeholder == Leaf(0)
Coinbase(n) == Leaf(100 + n)

\* Merkle roots of the miner's header, from the branch in mining.notify, and of the
\* transactions of a block.
RootOfJob ==
    [t \in Tip |-> [n \in 1 .. MaxTransactions |->
        RootFrom(Coinbase(t), Branch(<<Placeholder>> \o Others(n)))]]
RootOfBlock ==
    [t \in Tip |-> [n \in 1 .. MaxTransactions |->
        MerkleRoot(<<Coinbase(t)>> \o Others(n))]]

\* XOR with the bits the miner says it has rolled.
Rolled(version, mask) == (version \ mask) \cup (mask \ version)

Header(t, version, root, ntime) ==
    [prevHash |-> t.tip, version |-> version, merkleRoot |-> root, timestamp |-> ntime]

\* What a miner hashes that has rolled the bits in mask, from what mining.notify
\* says of the job: coinbase, branch, version and time (response). There are n
\* transactions.
MinedHeader(j, mask, n) ==
    Header(j.template, Rolled(j.version, mask), RootOfJob[j.template.tip][n], j.ntime)

\* buildHeaderBuffer: what a share for j with these bits and this time is checked
\* with.
CheckedHeader(j, mask, ntime, n) ==
    Header(j.template, Rolled(j.version, mask), RootOfJob[j.template.tip][n], ntime)

\* copyAndUpdateBlock: the block submitted for such a share. Its coinbase takes the
\* place of the placeholder; its Merkle root is computed along the branch.
Block(j, mask, ntime, n) ==
    [header |-> Header(j.template, Rolled(j.version, mask),
                       RootOfJob[j.template.tip][n], ntime),
     transactions |-> [tip |-> j.template.tip, number |-> n]]

\* All headers a miner can try for j, nonces aside.
SearchSpace(j) == {MinedHeader(j, mask, 1) : mask \in SUBSET MinerBits}

-----------------------------------------------------------------------------
(* Safety. *)

Repeats(j, i) == SearchSpace(i) \cap SearchSpace(j) # {}

\* A miner does not try headers again under a new job, though many jobs are made of
\* one template within a second: the pool's bits keep them apart and the miner's
\* cannot bring them together. For that to fail the rotation must have started
\* again, or all rotations have been used in a second that stands still because the
\* node's mintime is ahead.
SpacesApart ==
    \A l \in last, i \in jobs :
        Repeats(l.job, i) => i.restarted \/ i.turns = Rotations

\* "Clear jobs so the difficulty takes effect without re-sending byte-identical
\* work": the job sent with a new difficulty starts the rotation again, but its time
\* is beyond that of the last job, so that it repeats none. That takes a clock that
\* moves and a last job whose write has come through.
RetargetIsNew ==
    \A l \in last, i \in jobs :
        l.retarget /\ Repeats(l.job, i) => l.hasty \/ i.ahead

\* The block that is submitted has the header the miner hashed and the pool checked,
\* whatever bits were rolled, and the Merkle root in it, computed along a branch that
\* was made for another coinbase, is the root of its transactions, however many.
BlockIsWhatWasMined ==
    \A l \in last, mask \in SUBSET MinerBits, n \in 1 .. MaxTransactions :
        LET j == l.job
            block == Block(j, mask, j.ntime, n)
            root == RootOfBlock[block.transactions.tip][block.transactions.number]
        IN /\ CheckedHeader(j, mask, j.ntime, n) = MinedHeader(j, mask, n)
           /\ block.header = MinedHeader(j, mask, n)
           /\ block.header.merkleRoot = root
=============================================================================
