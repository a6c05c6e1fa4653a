--------------------------- MODULE StratumSession ---------------------------
(* One session of StratumV1Client from its connection to its end: the       *)
(* handshake, the start of its timers, and the difficulty its shares are    *)
(* compared with against the one the miner has been told.                   *)
(*                                                                          *)
(* A message is handled up to the write of its response and goes on when    *)
(* that is done; messages that come in another chunk of the socket may be   *)
(* handled in between. The timers' template calls are in StratumJobs: here   *)
(* a job is only the difficulty the miner works on it for.                  *)
EXTENDS DifficultyTarget

CONSTANTS
    UserAgent,          \* subset of the kinds of miner: "normal", "hobby", "cpuminer"
    InitialDifficulty,  \* what a session starts with
    HobbyDifficulty,    \* HOBBY_MINER_DIFFICULTY
    CpuDifficulty,      \* what cpuminer gets
    StartingDiff,       \* the difficulties asked for in mining.authorize, 0
                        \* standing for none
    Suggestion,         \* the difficulties asked for in mining.suggest_difficulty
    Measured            \* what getSuggestedDifficulty may find

ASSUME SessionAssumption ==
    /\ UserAgent \subseteq {"normal", "hobby", "cpuminer"}
    /\ {InitialDifficulty, HobbyDifficulty, CpuDifficulty} \subseteq 0 .. MaxTarget
    /\ StartingDiff \subseteq 0 .. MaxTarget
    /\ Suggestion \subseteq 0 .. MaxTarget
    /\ Measured \subseteq 0 .. MaxTarget

VARIABLES
    socket,             \* "open"; "ending" when nothing can be written any
                        \* more; "closed" when destroy() has run
    userAgent,          \* clientSubscription.userAgent
    hobby,              \* isHobbyMinerSession
    authorized,         \* clientAuthorization # null
    suggested,          \* clientSuggestedDifficulty # null
    used,               \* usedSuggestedDifficulty
    initialized,        \* stratumInitialized
    sessionDifficulty,
    writes,             \* whose writes are under way
    told,               \* the last set_difficulty written
    untold,             \* has sessionDifficulty changed since without one,
                        \* and by what
    mining,             \* the difficulty the miner works on its last job for
    newer,              \* what has set a difficulty since that job
    cached,             \* currentJobTemplate # null
    retargeting,        \* does checkDifficulty wait for a template?
    timers,             \* are the timers and the subscription there?
    starts              \* how often they have been started

handshake == <<userAgent, hobby, authorized, suggested, used, initialized>>
work == <<mining, newer, cached, retargeting>>
background == <<timers, starts>>
vars == <<socket, userAgent, hobby, authorized, suggested, used, initialized,
          sessionDifficulty, writes, told, untold, mining, newer, cached,
          retargeting, timers, starts>>

Message == {"subscribe", "authorize", "suggest", "other"}

TypeOK ==
    /\ socket \in {"open", "ending", "closed"}
    /\ userAgent \in UserAgent \cup {"none"}
    /\ \A b \in {hobby, authorized, suggested, used, initialized, cached,
                 retargeting, timers} : b \in BOOLEAN
    /\ sessionDifficulty \in Nat
    /\ writes \subseteq Message \cup {"init"}
    /\ told \in Nat \cup {Null}
    /\ untold \subseteq {"override", "raise"}
    /\ mining \in Nat \cup {Null}
    /\ newer \subseteq {"suggest", "retarget"}
    /\ starts \in Nat

Init ==
    /\ socket = "open"
    /\ userAgent = "none"
    /\ hobby = FALSE
    /\ authorized = FALSE
    /\ suggested = FALSE
    /\ used = FALSE
    /\ initialized = FALSE
    /\ sessionDifficulty = InitialDifficulty
    /\ writes = {}
    /\ told = Null
    /\ untold = {}
    /\ mining = Null
    /\ newer = {}
    /\ cached = FALSE
    /\ retargeting = FALSE
    /\ timers = FALSE
    /\ starts = 0

-----------------------------------------------------------------------------
(* Messages, up to the write of the response. *)

\* The response of a message of this kind is written.
Respond(message) == writes' = writes \cup {message}

\* d is put into force and written to the miner.
Tell(d) ==
    /\ sessionDifficulty' = d
    /\ told' = d
    /\ untold' = {}

\* What kind of miner it is is decided by its first subscription.
Subscribe(agent) ==
    /\ socket = "open"
    /\ userAgent' = agent
    /\ hobby' = IF userAgent = "none" THEN agent = "hobby" ELSE hobby
    /\ Respond("subscribe")
    /\ UNCHANGED <<socket, authorized, suggested, used, initialized,
                   sessionDifficulty, told, untold, work, background>>

\* Mutant: a suggested difficulty is not respected.
RaisesAnyway(d) == d > sessionDifficulty

\* The difficulty in the password of mining.authorize counts if it is higher
\* and none has been suggested.
Raises(d) == ~suggested /\ d > sessionDifficulty

Authorize(d) ==
    /\ socket = "open"
    /\ authorized' = TRUE
    /\ IF Raises(d)
       THEN /\ sessionDifficulty' = d
            /\ untold' = IF initialized THEN untold \cup {"raise"} ELSE untold
       ELSE UNCHANGED <<sessionDifficulty, untold>>
    /\ Respond("authorize")
    /\ UNCHANGED <<socket, userAgent, hobby, suggested, used, initialized, told,
                   work, background>>

\* A suggestion is taken unless the response to an earlier one has been written.
Suggest(d) ==
    /\ socket = "open"
    /\ ~used
    /\ suggested' = TRUE
    /\ Tell(d)
    /\ newer' = newer \cup {"suggest"}
    /\ Respond("suggest")
    /\ UNCHANGED <<socket, userAgent, hobby, authorized, used, initialized,
                   mining, cached, retargeting, background>>

\* mining.configure, and messages that are answered by a validation error.
OtherMessage ==
    /\ socket = "open"
    /\ Respond("other")
    /\ UNCHANGED <<socket, handshake, sessionDifficulty, told, untold, work,
                   background>>

\* A share sent before the handshake is over, or a message that is not JSON,
\* ends the connection; so does the miner.
Ends ==
    /\ socket = "open"
    /\ socket' = "ending"
    /\ UNCHANGED <<handshake, sessionDifficulty, writes, told, untold, work,
                   background>>

\* destroy(): on the close event, on a failed write, and by closeSocket.
Destroy ==
    /\ socket # "closed"
    /\ socket' = "closed"
    /\ timers' = FALSE
    /\ cached' = FALSE
    /\ UNCHANGED <<handshake, sessionDifficulty, writes, told, untold, mining,
                   newer, retargeting, starts>>

-----------------------------------------------------------------------------
(* Messages after the write of the response, and initStratum. *)

\* Mutant: what write() returns does not depend on the socket.
WriteAlwaysSucceeds == TRUE

WriteSucceeds == socket = "open"

\* The end of initStratum: it subscribes to new blocks and starts the timers.
StartWork ==
    /\ timers' = TRUE
    /\ starts' = starts + 1

\* Mutant: the flag is not set before the write of the difficulty.
MarkLater == UNCHANGED initialized

MarkInitialized == initialized' = TRUE

StartingDifficulty ==
    IF hobby THEN HobbyDifficulty
    ELSE IF userAgent = "cpuminer" THEN CpuDifficulty
    ELSE sessionDifficulty

\* initStratum. To a miner that has suggested a difficulty none is written,
\* whatever it gets.
InitStratum(rest) ==
    /\ MarkInitialized
    /\ IF suggested
       THEN /\ sessionDifficulty' = StartingDifficulty
            /\ untold' = IF StartingDifficulty = sessionDifficulty THEN untold
                         ELSE untold \cup {"override"}
            /\ UNCHANGED told
            /\ writes' = rest
            /\ StartWork
       ELSE /\ Tell(StartingDifficulty)
            /\ writes' = rest \cup {"init"}
            /\ UNCHANGED background

\* The response has been written. Every message, whatever it was, then starts
\* the session if it is the first to find it subscribed and authorized.
Responded(message) ==
    /\ message \in writes
    /\ WriteSucceeds
    /\ used' = (used \/ message = "suggest")
    /\ IF userAgent # "none" /\ authorized /\ ~initialized
       THEN InitStratum(writes \ {message})
       ELSE /\ writes' = writes \ {message}
            /\ UNCHANGED <<initialized, sessionDifficulty, told, untold, background>>
    /\ UNCHANGED <<socket, userAgent, hobby, authorized, suggested, work>>

\* The difficulty has been written by initStratum.
DifficultyWritten ==
    /\ "init" \in writes
    /\ WriteSucceeds
    /\ writes' = writes \ {"init"}
    /\ StartWork
    /\ UNCHANGED <<socket, handshake, sessionDifficulty, told, untold, work>>

\* The socket has closed: the handler returns.
WriteFails(message) ==
    /\ message \in writes
    /\ socket # "open"
    /\ writes' = writes \ {message}
    /\ UNCHANGED <<socket, handshake, sessionDifficulty, told, untold, work,
                   background>>

-----------------------------------------------------------------------------
(* Jobs and retargets. *)

\* A job is written to the miner, who works on it for difficulty d.
JobFor(d) == mining' = d /\ newer' = {}

\* refreshMiningJob and refreshLocalMiningWork, when they send a job.
SendJob ==
    /\ timers
    /\ socket = "open"
    /\ JobFor(told)
    /\ cached' = TRUE
    /\ UNCHANGED <<socket, handshake, sessionDifficulty, writes, told, untold,
                   retargeting, background>>

\* Mutant: a retarget is written to the miner without new work.
NoWork(d) == newer' = newer \cup {"retarget"} /\ UNCHANGED mining

\* checkDifficulty sends a job from the cached template.
RetargetedWork(d) == JobFor(d)

\* checkDifficulty with a new target, up to its call if no template is cached.
CheckDifficulty(measured) ==
    LET wanted == Wanted(sessionDifficulty, measured)
        d == NearestPowerOfTwo[wanted]
    IN /\ timers
       /\ wanted # Null
       /\ d \notin {Diverged, sessionDifficulty}
       /\ IF socket = "open"
          THEN Tell(d)
          ELSE sessionDifficulty' = d /\ UNCHANGED <<told, untold>>
       /\ IF socket = "open" /\ cached
          THEN RetargetedWork(d)
          ELSE newer' = newer \cup {"retarget"} /\ UNCHANGED mining
       /\ retargeting' = (retargeting \/ ~cached)
       /\ UNCHANGED <<socket, handshake, writes, cached, background>>

\* The template has come: a job is made of it.
RetargetResumes ==
    /\ retargeting
    /\ retargeting' = FALSE
    /\ cached' = TRUE
    /\ IF socket = "open" THEN JobFor(told) ELSE UNCHANGED <<mining, newer>>
    /\ UNCHANGED <<socket, handshake, sessionDifficulty, writes, told, untold,
                   background>>

\* Nothing catches what checkDifficulty throws, be it a stack overflow or a
\* failed template call: Node.js ends the process.
ProcessDies ==
    /\ \/ retargeting
       \/ /\ timers
          /\ \E m \in Measured : LET wanted == Wanted(sessionDifficulty, m)
                                 IN /\ wanted # Null
                                    /\ NearestPowerOfTwo[wanted] = Diverged
    /\ socket' = "closed"
    /\ writes' = {}
    /\ timers' = FALSE
    /\ retargeting' = FALSE
    /\ UNCHANGED <<handshake, sessionDifficulty, told, untold, mining, newer,
                   cached, starts>>

-----------------------------------------------------------------------------
Next ==
    \/ \E agent \in UserAgent : Subscribe(agent)
    \/ \E d \in StartingDiff : Authorize(d)
    \/ \E d \in Suggestion : Suggest(d)
    \/ OtherMessage
    \/ Ends
    \/ Destroy
    \/ \E message \in Message : Responded(message)
    \/ DifficultyWritten
    \/ \E message \in Message \cup {"init"} : WriteFails(message)
    \/ SendJob
    \/ \E m \in Measured : CheckDifficulty(m)
    \/ RetargetResumes
    \/ ProcessDies

Spec == Init /\ [][Next]_vars

-----------------------------------------------------------------------------
(* Safety. *)

\* The difficulty shares are compared with is the last one the miner was told,
\* from initStratum on and through suggestions, retargets and template calls that
\* overlap. Two paths of the code are excepted, until the next set_difficulty:
\* initStratum replacing a suggested difficulty, and a mining.authorize that
\* raises the difficulty of a session already started.
ToldIsChecked ==
    socket = "open" /\ initialized /\ untold = {} => told = sessionDifficulty

\* A share the miner finds for its last job is compared with the difficulty it was
\* told to work on that job for, unless the miner has suggested a difficulty since, or
\* the job of a retarget waits for its template.
CurrentWorkCounts ==
    socket = "open" /\ initialized /\ untold = {}
        => mining \in {Null, sessionDifficulty} \/ "suggest" \in newer \/ retargeting

\* The timers of a session are started once, however many messages wait for the
\* write of their response when it becomes complete.
StartedOnce == starts <= 1

\* "Stop all work associated with this miner as soon as the TCP connection
\* disappears, however it disappears": no timer is started by a handler that was
\* waiting when destroy() ran.
NoWorkAfterClose == socket = "closed" => ~timers

\* p is the power of two the difficulty t asks for: between half of t and t, and
\* a whole power of two if t is at least one.
Fits(p, t) ==
    /\ p <= t
    /\ t < 2 * p
    /\ t >= Scale => \E k \in Bits : p = Two[k] * Scale

\* The difficulties whose whole part is a positive word.
Representable(t) == t \div Scale < Two[WordBits - 1]

\* A session whose difficulty is out of proportion to its shares gets the one they
\* ask for, provided nearestPowerOfTwo can represent it.
RetargetFits ==
    [][\A m \in Measured \ {Few} :
          m >= MinDifficulty /\ Representable(m) /\ CheckDifficulty(m)
              => Fits(sessionDifficulty', m)]_vars
=============================================================================
