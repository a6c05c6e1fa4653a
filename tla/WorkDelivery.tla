--------------------------- MODULE WorkDelivery ---------------------------
(* Whether miners keep, or get back, work that the pool will accept shares  *)
(* for, and whether the pool learns of new blocks. The same code as in      *)
(* StratumJobs (buildTemplateFor and the session's refreshes), without ids, *)
(* clocks and shares: of each session only the template it has cached and   *)
(* the job it was last sent are kept, so that the state space is finite     *)
(* without a bound on the refreshes and the runs can ask what happens in    *)
(* the long run. With it BitcoinRpcService's two ways to look for blocks: a *)
(* poll every 500 ms, whether or not the one before has been answered, or   *)
(* one poll at the start and one for each ZMQ message.                      *)
(*                                                                          *)
(* The five minutes a template is kept are left out: the refresh timer      *)
(* replaces a session's template every thirty seconds. So is the call the   *)
(* difficulty timer makes for a session that has no template yet.           *)
EXTENDS Integers, FiniteSets

CONSTANTS
    Session,        \* the TCP connections
    Address,        \* the payout addresses
    MaxTip,         \* bound: how many chain tips the node goes through
    MaxCalls,       \* bound on the template calls of a session in flight
    MaxFailures     \* bound on the template calls that fail

Tip == 1 .. MaxTip
NoTip == 0

ASSUME DeliveryAssumption ==
    /\ MaxTip \in Nat \ {0}
    /\ MaxCalls \in Nat \ {0}
    /\ MaxFailures \in Nat

VARIABLES
    tip,                \* the node's chain tip
    Height,             \* the height of each tip the node will go through
    zmq,                \* is a ZMQ host configured?
    starting,           \* is the poll of onModuleInit unanswered?
    messages,           \* ZMQ messages not handled yet
    missed,             \* was the last of them lost, or has its poll failed?
    polls,              \* answers to getmininginfo that have not been handled
    blockHeight,        \* the last height polled
    lastTemplateHeight, \* lastTemplateHeightByAddress; 0 is "no entry"
    connected,          \* sessions whose socket is open
    closed,             \* sessions whose socket has been closed
    authorized,         \* the payout address each session has or will have
    calls,              \* template calls in flight
    work,               \* the template each session has cached and was sent
    failures            \* how many calls failed

poller == <<zmq, starting, messages, missed, polls>>

vars == <<tip, Height, poller, blockHeight, lastTemplateHeight, connected, closed,
          authorized, calls, work, failures>>

\* A call of the refresh timer is seen from its answer on, since nothing depends on when
\* it was made; one of the new-block subscription from the notice on.
Call == [sess : Session, answer : Tip \cup {NoTip}]

Poll == [by : {"timer", "start", "message"}, blocks : Tip]

\* tip is the tip of the cached template; template and job say whether it, and
\* the last job made from it for this session, are in the registry. The job a
\* miner works on is always one of the cached template.
Work == [tip : Tip \cup {NoTip}, template : BOOLEAN, job : BOOLEAN]
NoWork == [tip |-> NoTip, template |-> FALSE, job |-> FALSE]

TypeOK ==
    /\ tip \in Tip
    /\ Height \in [Tip -> Nat \ {0}]
    /\ zmq \in BOOLEAN /\ starting \in BOOLEAN /\ missed \in BOOLEAN
    /\ messages \in Nat
    /\ polls \subseteq Poll
    /\ blockHeight \in Nat
    /\ lastTemplateHeight \in [Address -> Nat]
    /\ connected \subseteq Session
    /\ closed \subseteq Session
    /\ authorized \in [Session -> Address]
    /\ calls \subseteq Call
    /\ work \in [Session -> Work]
    /\ failures \in Nat

Init ==
    /\ tip = 1
    /\ Height \in {h \in [Tip -> Tip] : /\ h[1] = 1
                                     /\ \A n \in Tip \ {1} : h[n] - h[n - 1] \in {0, 1}}
    /\ zmq \in BOOLEAN
    /\ starting = zmq
    /\ messages = 0
    /\ missed = FALSE
    /\ polls = {}
    /\ blockHeight = 0
    /\ lastTemplateHeight = [a \in Address |-> 0]
    /\ connected = {}
    /\ closed = {}
    /\ authorized \in [Session -> Address]
    /\ calls = {}
    /\ work = [s \in Session |-> NoWork]
    /\ failures = 0

-----------------------------------------------------------------------------
(* The node. *)

\* The best chain changes: by a block on top, or by another block of the same
\* height in place of the tip. The node publishes a message, which is lost if
\* the connection is not there yet or broken.
NodeAdvances ==
    /\ tip < MaxTip
    /\ tip' = tip + 1
    /\ missed' \in IF zmq THEN BOOLEAN ELSE {FALSE}
    /\ messages' = IF zmq /\ ~missed' THEN messages + 1 ELSE messages
    /\ UNCHANGED <<Height, zmq, starting, polls, blockHeight, lastTemplateHeight,
                   connected, closed, authorized, calls, work, failures>>

NodeAnswers(c) ==
    /\ c.answer = NoTip
    /\ calls' = (calls \ {c}) \cup {[c EXCEPT !.answer = tip]}
    /\ UNCHANGED <<tip, Height, poller, blockHeight, lastTemplateHeight, connected,
                   closed, authorized, work, failures>>

-----------------------------------------------------------------------------
(* Sessions. *)

Request(s, answer) == [sess |-> s, answer |-> answer]

\* Two calls of one session that got the same are one.
Send(new) ==
    /\ calls' = calls \cup new
    /\ \A s \in Session : Cardinality({c \in calls' : c.sess = s}) <= MaxCalls

Open(s) ==
    /\ s \notin connected \cup closed
    /\ connected' = connected \cup {s}
    /\ Send(IF blockHeight > 0 THEN {Request(s, NoTip)} ELSE {})
    /\ UNCHANGED <<tip, Height, poller, blockHeight, lastTemplateHeight, closed, authorized,
                   work, failures>>

Hangup(s) ==
    /\ connected' = connected \ {s}
    /\ closed' = closed \cup {s}
    /\ work' = [work EXCEPT ![s] = NoWork]

Disconnect(s) ==
    /\ s \in connected
    /\ Hangup(s)
    /\ UNCHANGED <<tip, Height, poller, blockHeight, lastTemplateHeight, authorized,
                   calls, failures>>

\* A call of the timer that fails is logged and leaves everything as it was.
TimerRefresh(s) ==
    /\ s \in connected
    /\ Send({Request(s, tip)})
    /\ UNCHANGED <<tip, Height, poller, blockHeight, lastTemplateHeight, connected,
                   closed, authorized, work, failures>>

\* A failed call of the new-block subscription ends the socket.
CallFails(c) ==
    /\ c.answer = NoTip
    /\ failures < MaxFailures
    /\ failures' = failures + 1
    /\ calls' = calls \ {c}
    /\ Hangup(c.sess)
    /\ UNCHANGED <<tip, Height, poller, blockHeight, lastTemplateHeight, authorized>>

-----------------------------------------------------------------------------
(* Looking for blocks. *)

Answered(by) == polls' = polls \cup {[by |-> by, blocks |-> Height[tip]]}

sessions == <<connected, closed, authorized, work, failures>>

\* The timer does not wait for the poll before. A poll that fails is logged.
PollTimer ==
    /\ ~zmq
    /\ Answered("timer")
    /\ UNCHANGED <<tip, Height, zmq, starting, messages, missed, blockHeight,
                   lastTemplateHeight, calls, sessions>>

\* The poll of onModuleInit is made while messages already come in.
StartPoll ==
    /\ starting
    /\ starting' = FALSE
    /\ \/ Answered("start") /\ UNCHANGED missed
       \/ missed' = (missed \/ messages = 0) /\ UNCHANGED polls
    /\ UNCHANGED <<tip, Height, zmq, messages, blockHeight, lastTemplateHeight, calls,
                   sessions>>

\* listenForNewBlocks takes a message when the poll for the one before is done.
MessagePoll ==
    /\ messages > 0
    /\ \A p \in polls : p.by # "message"
    /\ messages' = messages - 1
    /\ \/ Answered("message") /\ UNCHANGED missed
       \/ missed' = (missed \/ messages' = 0) /\ UNCHANGED polls
    /\ UNCHANGED <<tip, Height, zmq, starting, blockHeight, lastTemplateHeight, calls,
                   sessions>>

\* Mutant: a height that is only different is taken for a new one.
Different(p) == p.blocks # blockHeight

\* blockHeight is read after the await.
Higher(p) == p.blocks > blockHeight

\* pollMiningInfo after its await: newBlock$ makes every open session ask for a template.
Polled(p) ==
    /\ polls' = polls \ {p}
    /\ IF Higher(p)
       THEN /\ blockHeight' = p.blocks
            /\ Send({Request(s, NoTip) : s \in connected})
       ELSE UNCHANGED <<blockHeight, calls>>
    /\ UNCHANGED <<tip, Height, zmq, starting, messages, missed, lastTemplateHeight,
                   sessions>>

-----------------------------------------------------------------------------
(* Templates and jobs. *)

\* Mutant: the height of an address is recorded when it is first seen only.
RecordFirst(a, h) ==
    lastTemplateHeight' =
        [lastTemplateHeight EXCEPT ![a] = IF @ = 0 THEN h ELSE @]

RecordHeight(a, h) == lastTemplateHeight' = [lastTemplateHeight EXCEPT ![a] = h]

\* Mutant: the entries themselves are dropped.
NothingLeft == [s \in {} |-> NoWork]

\* What a template at another height than the last of its address leaves of the
\* templates and jobs of all sessions.
Cleared == [s \in Session |-> [work[s] EXCEPT !.template = FALSE, !.job = FALSE]]

\* The answer of c arrives: a template is stored and cached, and unless the
\* socket has closed meanwhile a job is made of it and sent.
Resume(c) ==
    /\ c.answer # NoTip
    /\ LET a == authorized[c.sess]
           kept == IF lastTemplateHeight[a] # Height[c.answer] THEN Cleared ELSE work
       IN /\ RecordHeight(a, Height[c.answer])
          /\ work' = IF c.sess \in connected
                     THEN [kept EXCEPT ![c.sess] =
                             [tip |-> c.answer, template |-> TRUE, job |-> TRUE]]
                     ELSE kept
    /\ calls' = calls \ {c}
    /\ UNCHANGED <<tip, Height, poller, blockHeight, connected, closed, authorized,
                   failures>>

\* refreshLocalMiningWork, and checkDifficulty with a new target: a job from the
\* cached template, whether or not the registry still has that template.
JobFromCache(s) ==
    /\ s \in connected
    /\ work[s].tip # NoTip
    /\ work' = [work EXCEPT ![s].job = TRUE]
    /\ UNCHANGED <<tip, Height, poller, blockHeight, lastTemplateHeight, connected,
                   closed, authorized, calls, failures>>

-----------------------------------------------------------------------------
Next ==
    \/ NodeAdvances
    \/ PollTimer
    \/ StartPoll
    \/ MessagePoll
    \/ \E p \in polls : Polled(p)
    \/ \E s \in Session : \/ Open(s)
                          \/ Disconnect(s)
                          \/ TimerRefresh(s)
                          \/ JobFromCache(s)
    \/ \E c \in calls : NodeAnswers(c) \/ CallFails(c) \/ Resume(c)

\* The timers fire, messages are handled, the node answers every call or lets it
\* fail, and not every poll of the timer; an answer that has arrived is handled.
\* Nothing makes miners come or go, blocks be found or calls fail.
Fairness ==
    /\ WF_vars(PollTimer)
    /\ WF_vars(StartPoll)
    /\ WF_vars(MessagePoll)
    /\ \A p \in Poll : WF_vars(p \in polls /\ Polled(p))
    /\ \A s \in Session : WF_vars(TimerRefresh(s))
    /\ \A c \in Call : /\ WF_vars(c \in calls /\ NodeAnswers(c))
                      /\ WF_vars(c \in calls /\ Resume(c))

Spec == Init /\ [][Next]_vars

FairSpec == Spec /\ Fairness

-----------------------------------------------------------------------------
(* Safety and liveness. *)

\* A share the miner finds for the job it was last sent would be looked up and
\* checked: the job and its template are live and of the node's tip.
HasWork(s) == work[s].tip = tip /\ work[s].template /\ work[s].job

\* A template of one address removes the live work of all others, and answers
\* may arrive late and in any order; but once the chain rests, the wiping ends
\* and every open session has live work on the node's tip from then on. That
\* takes the height buildTemplateFor records for the address of every answer.
WorkSettles == \A s \in Session : <>[](s \in connected => HasWork(s))

\* The pool learns the height of the chain, though polls overlap and are answered in any
\* order: always in the end if it polls by the timer, and with ZMQ unless the last message
\* was lost or its poll failed, which nothing repeats before the next block.
BlocksAreNoticed == <>[](missed \/ blockHeight = Height[tip])
=============================================================================
