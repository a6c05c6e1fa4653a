---------------------------- MODULE StratumJobs ----------------------------
(* The job registry of the pool (StratumV1JobsService) together with the    *)
(* sessions that fill it and look work up in it (StratumV1Client), and the  *)
(* node that answers their getblocktemplate calls.                          *)
(*                                                                          *)
(* Node.js runs one callback at a time, so a step is the code between two   *)
(* awaits: a template call is a request, an answer computed by the node and *)
(* a resumption, and anything may happen between the three.                 *)
EXTENDS Integers, FiniteSets

CONSTANTS
    Session,        \* the TCP connections (StratumV1Client instances)
    Address,        \* the payout addresses miners authorize with
    Nonce,          \* the solutions a miner may send for one job: the numbers
                    \* nonce, time and version bits that go into its header
    Spelling,       \* the ways to write a solution: extraNonce2, which no header
                    \* contains, and the case and leading zeros of its hex digits
    MaxTip,         \* bound: how many chain tips the node goes through
    Height,         \* Height[n] is the height of the n-th tip; two tips of
                    \* one height are a reorganisation
    Lifetime,       \* the 5 minutes a template or a job is kept, in ticks
    Reauthorize,    \* may a session send mining.authorize a second time?
    MaxTemplates,   \* bound on the templates built
    MaxJobs,        \* bound on the jobs issued
    MaxCalls,       \* bound on the template calls in flight
    MaxShares,      \* bound on the shares one session gets accepted
    MaxClock        \* bound on the clock

Tip == 1 .. MaxTip

\* The address of a session that has not authorized, and the answer of a
\* call the node has not answered.
NoAddress == "none"
NoTip == 0

ASSUME ConstantsAssumption ==
    /\ MaxTip \in Nat \ {0}
    /\ Height \in [Tip -> Nat \ {0}]
    /\ Lifetime \in Nat
    /\ Reauthorize \in BOOLEAN
    /\ NoAddress \notin Address
    /\ IsFiniteSet(Nonce)

VARIABLES
    tip,                 \* the node's chain tip
    blockHeight,         \* BitcoinRpcService.blockHeight: the last height polled
    clock,               \* wall-clock time
    up,                  \* FALSE once the process has died
    latestJobTemplateId,
    latestJobId,
    blocks,              \* the live templates
    jobs,                \* the live jobs
    lastTemplateHeight,  \* lastTemplateHeightByAddress; 0 is "no entry"
    connected,           \* sessions whose socket is open
    closed,              \* sessions whose socket has been closed
    authorized,          \* clientAuthorization.address of each session
    currentJobTemplate,  \* the cached template of each session, as a set of
                         \* at most one template
    submissionHashes,    \* miningSubmissionHashes of each session: what it has
                         \* sent, as it was sent
    calls,               \* template calls in flight
    notified,            \* the last mining.notify written to each session
    accepted,            \* the submissions accepted from each session
    acceptedCount        \* how many accepting replies each session got

registry == <<latestJobTemplateId, latestJobId, blocks, jobs, lastTemplateHeight>>
session == <<connected, closed, authorized>>
node == <<tip, blockHeight, clock, up>>
shares == <<accepted, acceptedCount>>
vars == <<tip, blockHeight, clock, up, latestJobTemplateId, latestJobId, blocks,
          jobs, lastTemplateHeight, connected, closed, authorized,
          currentJobTemplate, submissionHashes, calls, notified, accepted,
          acceptedCount>>

\* A submission as it is sent: the job it names, the solution and how it is written.
\* Its header depends on the first two only.
Share == Nat \X Nonce \X Spelling

Template == [id : Nat, addr : Address, tip : Tip, creation : Nat, clear : BOOLEAN]

\* payout is the address the coinbase pays, attested the address the node
\* computed the UTXO attestation for (it comes with the template's outputs).
Job == [id : Nat, tmpl : Nat, payout : Address, attested : Address,
        height : Nat, creation : Nat]

\* Who waits for a template call decides what its failure does: the new-block
\* subscription ends the socket, the refresh timer logs, and the difficulty
\* timer has no handler.
Caller == {"block", "timer", "vardiff"}
Call == [sess : Session, addr : Address, caller : Caller, answer : Tip \cup {NoTip}]

Notify == [job : Nat, height : Nat, clean : BOOLEAN]
NoNotify == [job |-> 0, height |-> 0, clean |-> TRUE]

TypeOK ==
    /\ tip \in Tip
    /\ blockHeight \in Nat
    /\ clock \in Nat
    /\ up \in BOOLEAN
    /\ latestJobTemplateId \in Nat
    /\ latestJobId \in Nat
    /\ blocks \subseteq Template
    /\ jobs \subseteq Job
    /\ lastTemplateHeight \in [Address -> Nat]
    /\ connected \subseteq Session
    /\ closed \subseteq Session
    /\ authorized \in [Session -> Address \cup {NoAddress}]
    /\ currentJobTemplate \in [Session -> SUBSET Template]
    /\ submissionHashes \in [Session -> SUBSET Share]
    /\ calls \subseteq Call
    /\ notified \in [Session -> Notify]
    /\ accepted \in [Session -> SUBSET Share]
    /\ acceptedCount \in [Session -> Nat]

Init ==
    /\ tip = 1
    /\ blockHeight = 0
    /\ clock = 0
    /\ up = TRUE
    /\ latestJobTemplateId = 1
    /\ latestJobId = 1
    /\ blocks = {}
    /\ jobs = {}
    /\ lastTemplateHeight = [a \in Address |-> 0]
    /\ connected = {}
    /\ closed = {}
    /\ authorized = [s \in Session |-> NoAddress]
    /\ currentJobTemplate = [s \in Session |-> {}]
    /\ submissionHashes = [s \in Session |-> {}]
    /\ calls = {}
    /\ notified = [s \in Session |-> NoNotify]
    /\ accepted = [s \in Session |-> {}]
    /\ acceptedCount = [s \in Session |-> 0]

-----------------------------------------------------------------------------
(* The node and time. *)

\* The node's best chain changes.
NodeAdvances ==
    /\ tip < MaxTip
    /\ tip' = tip + 1
    /\ UNCHANGED <<blockHeight, clock, up, registry, session, currentJobTemplate,
                   submissionHashes, calls, notified, shares>>

Tick ==
    /\ clock < MaxClock
    /\ clock' = clock + 1
    /\ UNCHANGED <<tip, blockHeight, up, registry, session, currentJobTemplate,
                   submissionHashes, calls, notified, shares>>

\* The node computes the template for a waiting call: its tip at that moment.
NodeAnswers(c) ==
    /\ c.answer = NoTip
    /\ calls' = (calls \ {c}) \cup {[c EXCEPT !.answer = tip]}
    /\ UNCHANGED <<node, registry, session, currentJobTemplate,
                   submissionHashes, notified, shares>>

-----------------------------------------------------------------------------
(* Sessions opening, closing and asking for templates. *)

\* Mutant: the address is read before mining.authorize has stored it.
RequestTooEarly(s, a, caller) ==
    [sess |-> s, addr |-> authorized[s], caller |-> caller, answer |-> NoTip]

Request(s, a, caller) == [sess |-> s, addr |-> a, caller |-> caller, answer |-> NoTip]

\* The requests in new are sent to the node. Calls are a set: two of one
\* session that ask and got the same are one.
Send(new) ==
    /\ calls' = calls \cup new
    /\ Cardinality(calls') <= MaxCalls

\* The session subscribes and authorizes, and initStratum subscribes it to
\* newBlock$, which replays the last block if one has been seen.
Open(s, a) ==
    /\ up
    /\ s \notin connected \cup closed
    /\ connected' = connected \cup {s}
    /\ authorized' = [authorized EXCEPT ![s] = a]
    /\ Send(IF blockHeight > 0 THEN {Request(s, a, "block")} ELSE {})
    /\ UNCHANGED <<node, registry, closed, currentJobTemplate,
                   submissionHashes, notified, shares>>

\* A second mining.authorize replaces the payout address and nothing else.
AuthorizeAgain(s, a) ==
    /\ Reauthorize
    /\ s \in connected
    /\ a # authorized[s]
    /\ authorized' = [authorized EXCEPT ![s] = a]
    /\ UNCHANGED <<node, registry, connected, closed, currentJobTemplate,
                   submissionHashes, calls, notified, shares>>

\* The socket closes; destroy() drops the cached template. Calls in flight
\* are not cancelled.
Hangup(s) ==
    /\ connected' = connected \ {s}
    /\ closed' = closed \cup {s}
    /\ currentJobTemplate' = [currentJobTemplate EXCEPT ![s] = {}]
    /\ UNCHANGED authorized

Disconnect(s) ==
    /\ s \in connected
    /\ Hangup(s)
    /\ UNCHANGED <<node, registry, submissionHashes, calls, notified, shares>>

\* A poll sees a higher block and newBlock$ makes every session ask for a
\* template.
PollNewBlock ==
    /\ up
    /\ Height[tip] > blockHeight
    /\ blockHeight' = Height[tip]
    /\ Send({Request(s, authorized[s], "block") : s \in connected})
    /\ UNCHANGED <<tip, clock, up, registry, session, currentJobTemplate,
                   submissionHashes, notified, shares>>

\* The periodic timer's refreshMiningJob, up to its call.
TimerRefresh(s) ==
    /\ s \in connected
    /\ Send({Request(s, authorized[s], "timer")})
    /\ UNCHANGED <<node, registry, session, currentJobTemplate,
                   submissionHashes, notified, shares>>

\* The call of the new-block subscription rejects: its handler ends the socket.
BlockCallFails(c) ==
    /\ c.answer = NoTip
    /\ c.caller = "block"
    /\ calls' = calls \ {c}
    /\ Hangup(c.sess)
    /\ UNCHANGED <<node, registry, submissionHashes, notified, shares>>

\* The call of the periodic timer rejects: the error is logged.
TimerCallFails(c) ==
    /\ c.answer = NoTip
    /\ c.caller = "timer"
    /\ calls' = calls \ {c}
    /\ UNCHANGED <<node, registry, session, currentJobTemplate,
                   submissionHashes, notified, shares>>

\* The call of the difficulty timer rejects: nothing handles the rejection and
\* Node.js ends the process, with every socket and call. What a restarted pool
\* does is this specification from its initial state.
VardiffCallFails(c) ==
    /\ c.answer = NoTip
    /\ c.caller = "vardiff"
    /\ up' = FALSE
    /\ connected' = {}
    /\ closed' = Session
    /\ calls' = {}
    /\ UNCHANGED <<tip, blockHeight, clock, registry, authorized,
                   currentJobTemplate, submissionHashes, notified, shares>>

-----------------------------------------------------------------------------
(* buildTemplateFor after its await. *)

\* Mutant: active jobs are cleared only when the height has grown.
NewTemplateAtHigherHeight(c) ==
    [id |-> latestJobTemplateId, addr |-> c.addr, tip |-> c.answer,
     creation |-> clock,
     clear |-> lastTemplateHeight[c.addr] < Height[c.answer]]

\* The template built from the answer of c. It asks for active jobs to be
\* cleared when its height differs from the last one fetched for the address.
NewTemplate(c) ==
    [id |-> latestJobTemplateId, addr |-> c.addr, tip |-> c.answer,
     creation |-> clock,
     clear |-> lastTemplateHeight[c.addr] # Height[c.answer]]

\* Mutant: a template at a new height drops nothing but the expired entries.
KeptWithoutClear(t, entries) ==
    {e \in entries : clock - e.creation <= Lifetime}

\* What is left of the templates, or of the jobs, when t is stored: nothing
\* when t clears, and otherwise the entries that are not older than Lifetime.
Kept(t, entries) ==
    {e \in entries : ~t.clear /\ clock - e.creation <= Lifetime}

StoreTemplate(t) ==
    /\ latestJobTemplateId < MaxTemplates
    /\ latestJobTemplateId' = latestJobTemplateId + 1
    /\ lastTemplateHeight' = [lastTemplateHeight EXCEPT ![t.addr] = Height[t.tip]]
    /\ blocks' = Kept(t, blocks) \cup {t}

\* Mutant: the job id is not consumed when the job is stored.
KeepJobId == UNCHANGED latestJobId

ConsumeJobId == latestJobId' = latestJobId + 1

\* sendNewMiningJob: a job for session s is built from template t, paying the
\* address s is authorized with now, added to the jobs in kept and written to
\* the miner. Nothing happens when the socket is closed.
SendJob(s, t, clean, kept) ==
    IF s \in connected
    THEN /\ latestJobId < MaxJobs
         /\ jobs' = kept \cup {[id |-> latestJobId, tmpl |-> t.id,
                                payout |-> authorized[s], attested |-> t.addr,
                                height |-> Height[t.tip], creation |-> clock]}
         /\ ConsumeJobId
         /\ notified' = [notified EXCEPT ![s] =
                [job |-> latestJobId, height |-> Height[t.tip], clean |-> clean]]
    ELSE /\ jobs' = kept
         /\ UNCHANGED <<latestJobId, notified>>

\* Mutant: one cached template for all sessions.
CacheForAll(s, t) == currentJobTemplate' = [r \in Session |-> {t}]

CacheTemplate(s, t) == currentJobTemplate' = [currentJobTemplate EXCEPT ![s] = {t}]

\* Mutant: every refresh forgets the shares seen so far.
ForgetAlways(s, t) == submissionHashes' = [submissionHashes EXCEPT ![s] = {}]

ForgetShares(s, t) ==
    submissionHashes' = IF t.clear THEN [submissionHashes EXCEPT ![s] = {}]
                        ELSE submissionHashes

\* refreshMiningJob after its await: cache the template, forget the shares
\* seen so far if it clears, send a job.
ResumeRefresh(c) ==
    /\ c.answer # NoTip
    /\ c.caller \in {"block", "timer"}
    /\ \E t \in {NewTemplate(c)} :
       /\ StoreTemplate(t)
       /\ CacheTemplate(c.sess, t)
       /\ ForgetShares(c.sess, t)
       /\ SendJob(c.sess, t, t.clear, Kept(t, jobs))
    /\ calls' = calls \ {c}
    /\ UNCHANGED <<node, session, shares>>

\* checkDifficulty after its await: the job is sent with clean_jobs whatever
\* the template says, and the shares seen so far are not forgotten.
ResumeVardiff(c) ==
    /\ c.answer # NoTip
    /\ c.caller = "vardiff"
    /\ \E t \in {NewTemplate(c)} :
       /\ StoreTemplate(t)
       /\ CacheTemplate(c.sess, t)
       /\ SendJob(c.sess, t, TRUE, Kept(t, jobs))
    /\ calls' = calls \ {c}
    /\ UNCHANGED <<node, session, submissionHashes, shares>>

-----------------------------------------------------------------------------
(* Work without a template call, and shares. *)

\* refreshLocalMiningWork: a job from the cached template.
LocalRefresh(s) ==
    /\ s \in connected
    /\ \E t \in currentJobTemplate[s] : SendJob(s, t, FALSE, jobs)
    /\ UNCHANGED <<node, session, latestJobTemplateId, blocks, lastTemplateHeight,
                   currentJobTemplate, submissionHashes, calls, shares>>

\* checkDifficulty with a new target and a cached template.
RetargetFromCache(s) ==
    /\ s \in connected
    /\ \E t \in currentJobTemplate[s] : SendJob(s, t, TRUE, jobs)
    /\ UNCHANGED <<node, session, latestJobTemplateId, blocks, lastTemplateHeight,
                   currentJobTemplate, submissionHashes, calls, shares>>

\* checkDifficulty with a new target and no cached template.
RetargetByCall(s) ==
    /\ s \in connected
    /\ currentJobTemplate[s] = {}
    /\ Send({Request(s, authorized[s], "vardiff")})
    /\ UNCHANGED <<node, registry, session, currentJobTemplate,
                   submissionHashes, notified, shares>>

\* The job a submission names, if it and its template are both live.
LiveJob(id) == \E j \in jobs : j.id = id /\ \E t \in blocks : t.id = j.tmpl

\* The accepting reply.
Accepted(s, share) ==
    /\ acceptedCount[s] < MaxShares
    /\ accepted' = [accepted EXCEPT ![s] = @ \cup {share}]
    /\ acceptedCount' = [acceptedCount EXCEPT ![s] = @ + 1]

\* handleMiningSubmission for a submission whose job and template are found and
\* that the session has not sent before in this spelling. It is recorded as seen
\* before its difficulty is looked at; good is the outcome of that comparison.
Submit(s, share, good) ==
    /\ s \in connected
    /\ LiveJob(share[1])
    /\ share \notin submissionHashes[s]
    /\ submissionHashes' = [submissionHashes EXCEPT ![s] = @ \cup {share}]
    /\ IF good THEN Accepted(s, share) ELSE UNCHANGED shares
    /\ UNCHANGED <<node, registry, session, currentJobTemplate, calls, notified>>

-----------------------------------------------------------------------------
SessionStep(s) ==
    \/ \E a \in Address : Open(s, a) \/ AuthorizeAgain(s, a)
    \/ Disconnect(s)
    \/ TimerRefresh(s)
    \/ LocalRefresh(s)
    \/ RetargetFromCache(s)
    \/ RetargetByCall(s)
    \/ \E id \in 1 .. latestJobId - 1, n \in Nonce, p \in Spelling, good \in BOOLEAN :
          Submit(s, <<id, n, p>>, good)

CallStep(c) ==
    \/ NodeAnswers(c)
    \/ BlockCallFails(c)
    \/ TimerCallFails(c)
    \/ VardiffCallFails(c)
    \/ ResumeRefresh(c)
    \/ ResumeVardiff(c)

Next ==
    \/ NodeAdvances
    \/ Tick
    \/ PollNewBlock
    \/ \E s \in Session : SessionStep(s)
    \/ \E c \in calls : CallStep(c)

Spec == Init /\ [][Next]_vars

-----------------------------------------------------------------------------
(* Safety. *)

\* Whatever order template answers arrive in, the templates a share can be
\* checked against are all of the height last fetched for their address: the
\* comparison with lastTemplateHeightByAddress in buildTemplateFor never lets
\* a template outlive a change of its address's height.
LiveTemplatesOneHeight ==
    \A t \in blocks : Height[t.tip] = lastTemplateHeight[t.addr]

\* A job pays the address its UTXO attestation was computed for, although the
\* address is read once for the getblocktemplate call and again when the job is
\* built, from a template that may have been cached in between. Sessions that
\* authorize once have this.
AttestationBound == \A j \in jobs : j.payout = j.attested

\* What was accepted once is not accepted again when the same submission is sent
\* again, though the set of submissions seen is emptied in refreshMiningJob: when it
\* is, the jobs they were for are gone from the registry. This is about submissions
\* as sent: the key compared is made of the strings, so the same solution in another
\* spelling is another submission to handleMiningSubmission, and accepted as well.
AcceptedOnce == \A s \in Session : acceptedCount[s] = Cardinality(accepted[s])

\* No other session has the address of s, or ever had.
Lone(s) == \A r \in Session \ {s} : authorized[r] # authorized[s]

\* A miner alone on its address is told to drop its old jobs (clean_jobs of
\* mining.notify) whenever the height it is given work for changes, on every
\* path that sends work.
CleanOnNewHeight ==
    [][\A s \in Session :
          (notified'[s].height # notified[s].height /\ Lone(s)')
              => notified'[s].clean]_vars

\* What the registry promises to those who look jobs up by id (JobLedger): an
\* id names one job for ever and a removed job does not return, though removal
\* and issue happen in one step and ids are read before they are consumed.
Ledger == INSTANCE JobLedger WITH issued <- 1 .. latestJobId - 1, live <- jobs
ImplementsLedger == Ledger!Spec

-----------------------------------------------------------------------------
(* What the documentation says of the program and the code does not do. *)

\* The greatest height a template has been fetched for.
PoolHeight == IF \A a \in Address : lastTemplateHeight[a] = 0 THEN 0
              ELSE CHOOSE h \in {lastTemplateHeight[a] : a \in Address} :
                      \A a \in Address : lastTemplateHeight[a] <= h

\* .env.example: "clearJobs is only set on height changes, so a faster cadence
\* does not invalidate in-flight work". A job of the newest height fetched
\* leaves the registry by age only.
RefreshKeepsWork ==
    [][\A j \in jobs : (j.height = PoolHeight' /\ clock - j.creation <= Lifetime)
           => j \in jobs']_vars
=============================================================================
