------------------------ MODULE StratumSessionProofs ------------------------
(* Theorems about StratumSession, for any kinds of miner and difficulties:   *)
(* first those that need nothing of how a target becomes a power of two,    *)
(* then what nearestPowerOfTwo computes, for words of up to 64 bits.        *)
EXTENDS StratumSession, WellFoundedInduction, TLAPS

\* Where the start of the timers stands. While initStratum waits for the write of
\* the difficulty they have not been started, and nothing else will start them.
StartInv ==
    /\ starts \in {0, 1}
    /\ starts = 1 => initialized
    /\ "init" \in writes => initialized /\ starts = 0

\* A suggested difficulty is told at once, so that before initStratum, too, the
\* two differ only if no difficulty has been written at all.
ToldInv ==
    socket = "open" /\ (initialized \/ suggested) /\ untold = {}
        => told = sessionDifficulty

Inv == StartInv /\ NoWorkAfterClose /\ ToldInv

\* Before initStratum there is no work; afterwards the last job is for the difficulty
\* the miner was told last, but for a suggestion and a retarget that waits.
WorkInv ==
    /\ ~initialized => ~timers /\ ~retargeting /\ mining = Null
    /\ socket = "open" => mining \in {Null, told} \/ "suggest" \in newer \/ retargeting

-----------------------------------------------------------------------------
\* A new connection has no timers and has been told nothing.
LEMMA InvInit == Init => Inv
BY DEF Init, Inv, StartInv, NoWorkAfterClose, ToldInv

\* The step of each message that initStratum may follow.
LEMMA InitStratumKeepsInv ==
    ASSUME Inv, ~initialized, socket = "open", socket' = socket,
           suggested' = suggested, NEW rest, "init" \notin rest, InitStratum(rest)
    PROVE  Inv'
<1>1. starts = 0 /\ initialized'
  BY DEF Inv, StartInv, InitStratum, MarkInitialized
<1>2. CASE suggested
  <2>1. StartInv'
    BY <1>1, <1>2 DEF InitStratum, StartWork, StartInv
  <2>2. ToldInv'
    BY <1>2 DEF Inv, ToldInv, InitStratum
  <2> QED
    BY <2>1, <2>2 DEF Inv, NoWorkAfterClose
<1>3. CASE ~suggested
  <2>1. StartInv'
    BY <1>1, <1>3 DEF InitStratum, background, StartInv
  <2>2. ToldInv'
    BY <1>3 DEF InitStratum, Tell, ToldInv
  <2> QED
    BY <2>1, <2>2 DEF Inv, NoWorkAfterClose
<1> QED
  BY <1>2, <1>3

\* Every step of a session keeps the invariant.
LEMMA InvStep == Inv /\ [Next]_vars => Inv'
<1> SUFFICES ASSUME Inv, [Next]_vars PROVE Inv'
  OBVIOUS
<1> USE DEF Inv, StartInv, NoWorkAfterClose, ToldInv, handshake, work, background
<1>1. ASSUME NEW agent \in UserAgent, Subscribe(agent) PROVE Inv'
  BY <1>1 DEF Subscribe, Respond
<1>2. ASSUME NEW d \in StartingDiff, Authorize(d) PROVE Inv'
  <2>1. CASE Raises(d)
    BY <1>2, <2>1 DEF Authorize, Raises, Respond
  <2>2. CASE ~Raises(d)
    BY <1>2, <2>2 DEF Authorize, Respond
  <2> QED
    BY <2>1, <2>2
<1>3. ASSUME NEW d \in Suggestion, Suggest(d) PROVE Inv'
  BY <1>3 DEF Suggest, Tell, Respond
<1>4. CASE OtherMessage
  BY <1>4 DEF OtherMessage, Respond
<1>5. CASE Ends
  BY <1>5 DEF Ends
<1>6. CASE Destroy
  BY <1>6 DEF Destroy
<1>7. ASSUME NEW message \in Message, Responded(message) PROVE Inv'
  <2>1. socket = "open" /\ socket' = socket /\ suggested' = suggested
    BY <1>7 DEF Responded, WriteSucceeds
  <2>2. CASE userAgent # "none" /\ authorized /\ ~initialized
    <3>1. "init" \notin writes \ {message}
      BY <2>2
    <3>2. InitStratum(writes \ {message})
      BY <1>7, <2>2 DEF Responded
    <3> QED
      BY <2>1, <2>2, <3>1, <3>2, InitStratumKeepsInv
  <2>3. CASE ~(userAgent # "none" /\ authorized /\ ~initialized)
    BY <1>7, <2>3 DEF Responded
  <2> QED
    BY <2>2, <2>3
<1>8. CASE DifficultyWritten
  BY <1>8 DEF DifficultyWritten, WriteSucceeds, StartWork
<1>9. ASSUME NEW message \in Message \cup {"init"}, WriteFails(message) PROVE Inv'
  BY <1>9 DEF WriteFails
<1>10. CASE SendJob
  BY <1>10 DEF SendJob
<1>11. ASSUME NEW m \in Measured, CheckDifficulty(m) PROVE Inv'
  <2>1. CASE socket = "open"
    <3>1. told' = sessionDifficulty'
      BY <1>11, <2>1 DEF CheckDifficulty, Tell
    <3> QED
      BY <1>11, <2>1, <3>1 DEF CheckDifficulty
  <2>2. CASE socket # "open"
    BY <1>11, <2>2 DEF CheckDifficulty
  <2> QED
    BY <2>1, <2>2
<1>12. CASE RetargetResumes
  BY <1>12 DEF RetargetResumes
<1>13. CASE ProcessDies
  BY <1>13 DEF ProcessDies
<1>14. CASE UNCHANGED vars
  BY <1>14 DEF vars
<1> QED
  BY <1>1, <1>2, <1>3, <1>4, <1>5, <1>6, <1>7, <1>8, <1>9, <1>10, <1>11, <1>12,
     <1>13, <1>14 DEF Next

\* The invariant holds in every state.
LEMMA Invariance == Spec => []Inv
BY InvInit, InvStep, PTL DEF Spec

-----------------------------------------------------------------------------
\* However many messages wait for their write when a session becomes complete,
\* and whatever its socket does meanwhile, initStratum starts the timers once.
THEOREM TimersStartOnce == Spec => []StartedOnce
<1>1. Inv => StartedOnce
  BY DEF Inv, StartInv, StartedOnce
<1> QED
  BY <1>1, Invariance, PTL

\* A handler that resumes after destroy() starts no timer: write() has failed.
THEOREM ClosedSessionsRest == Spec => []NoWorkAfterClose
<1>1. Inv => NoWorkAfterClose
  BY DEF Inv
<1> QED
  BY <1>1, Invariance, PTL

\* But for the two paths that change the difficulty without a set_difficulty, the
\* pool checks shares against the difficulty the miner was told last, for any
\* order of messages, retargets and template calls.
THEOREM DifficultyIsTold == Spec => []ToldIsChecked
<1>1. Inv => ToldIsChecked
  BY DEF Inv, ToldInv, ToldIsChecked
<1> QED
  BY <1>1, Invariance, PTL

-----------------------------------------------------------------------------
(* The work a miner has and the difficulty it was told. *)

\* A new connection has no work.
LEMMA WorkInvInit == Init => WorkInv
BY DEF Init, WorkInv

\* The step of each message that initStratum may follow.
LEMMA InitStratumKeepsWork ==
    ASSUME WorkInv, ~initialized, NEW rest, InitStratum(rest), UNCHANGED work
    PROVE  WorkInv'
<1>1. initialized' /\ UNCHANGED <<mining, newer, retargeting>> /\ mining = Null
  BY DEF InitStratum, MarkInitialized, WorkInv, work
<1> QED
  BY <1>1 DEF WorkInv

\* Every step of a session keeps what is known of its work.
LEMMA WorkInvStep == Inv /\ WorkInv /\ [Next]_vars => WorkInv'
<1> SUFFICES ASSUME Inv, WorkInv, [Next]_vars PROVE WorkInv'
  OBVIOUS
<1> USE DEF WorkInv, handshake, work, background
<1>1. ASSUME NEW agent \in UserAgent, Subscribe(agent) PROVE WorkInv'
  BY <1>1 DEF Subscribe
<1>2. ASSUME NEW d \in StartingDiff, Authorize(d) PROVE WorkInv'
  BY <1>2 DEF Authorize
<1>3. ASSUME NEW d \in Suggestion, Suggest(d) PROVE WorkInv'
  <2>1. "suggest" \in newer' /\ UNCHANGED <<initialized, timers, retargeting, mining>>
    BY <1>3 DEF Suggest
  <2> QED
    BY <2>1
<1>4. CASE OtherMessage \/ Ends \/ Destroy \/ DifficultyWritten
  <2>1. UNCHANGED <<initialized, retargeting, mining, newer, told>>
    BY <1>4 DEF OtherMessage, Ends, Destroy, DifficultyWritten
  <2>2. ~initialized' => ~timers'
    BY <1>4 DEF OtherMessage, Ends, Destroy, DifficultyWritten, Inv, StartInv
  <2>3. socket' = "open" => socket = "open"
    BY <1>4 DEF OtherMessage, Ends, Destroy, DifficultyWritten
  <2> QED
    BY <2>1, <2>2, <2>3
<1>5. ASSUME NEW message \in Message, Responded(message) PROVE WorkInv'
  <2>1. CASE userAgent # "none" /\ authorized /\ ~initialized
    <3>1. InitStratum(writes \ {message}) /\ UNCHANGED work
      BY <1>5, <2>1 DEF Responded
    <3> QED
      BY <2>1, <3>1, InitStratumKeepsWork
  <2>2. CASE ~(userAgent # "none" /\ authorized /\ ~initialized)
    BY <1>5, <2>2 DEF Responded
  <2> QED
    BY <2>1, <2>2
<1>6. ASSUME NEW message \in Message \cup {"init"}, WriteFails(message) PROVE WorkInv'
  BY <1>6 DEF WriteFails
<1>7. CASE SendJob
  BY <1>7 DEF SendJob, JobFor
<1>8. ASSUME NEW m \in Measured, CheckDifficulty(m) PROVE WorkInv'
  <2>1. initialized' = initialized /\ initialized
    BY <1>8 DEF CheckDifficulty
  <2>2. CASE socket = "open" /\ cached
    <3>1. mining' = told'
      BY <1>8, <2>2 DEF CheckDifficulty, Tell, RetargetedWork, JobFor
    <3> QED
      BY <2>1, <3>1
  <2>3. CASE socket = "open" /\ ~cached
    <3>1. retargeting' = (retargeting \/ ~cached)
      BY <1>8 DEF CheckDifficulty
    <3>2. retargeting'
      BY <2>3, <3>1
    <3> QED
      BY <2>1, <3>2
  <2>4. CASE socket # "open"
    BY <1>8, <2>1, <2>4 DEF CheckDifficulty
  <2> QED
    BY <2>2, <2>3, <2>4
<1>9. CASE RetargetResumes
  BY <1>9 DEF RetargetResumes, JobFor
<1>10. CASE ProcessDies
  BY <1>10 DEF ProcessDies
<1>11. CASE UNCHANGED vars
  BY <1>11 DEF vars
<1> QED
  BY <1>1, <1>2, <1>3, <1>4, <1>5, <1>6, <1>7, <1>8, <1>9, <1>10, <1>11 DEF Next

\* What the miner works on counts: its last job is for the difficulty its shares are
\* compared with, through retargets, suggestions and template calls that overlap.
THEOREM WorkCounts == Spec => []CurrentWorkCounts
<1>1. Inv /\ WorkInv => CurrentWorkCounts
  BY DEF Inv, ToldInv, WorkInv, CurrentWorkCounts
<1>2. Spec => []WorkInv
  BY Invariance, WorkInvInit, WorkInvStep, PTL DEF Spec
<1> QED
  BY <1>1, <1>2, Invariance, PTL

-----------------------------------------------------------------------------
(* Induction and recursion over the numbers. *)

\* Every set of natural numbers has a least member.
LEMMA Least ==
    ASSUME NEW T, T \subseteq Nat, T # {}
    PROVE  \E n \in T : \A k \in T : n <= k
<1> DEFINE R == OpToRel(<, Nat)
<1>1. PICK n \in T : \A k \in T : ~(<<k, n>> \in R)
  <2>1. IsWellFoundedOn(R, Nat)
    BY NatLessThanWellFounded
  <2> HIDE DEF R
  <2> QED
    BY <2>1, WFMin
<1>2. ASSUME NEW k \in T PROVE n <= k
  <2>1. k \in Nat /\ n \in Nat
    OBVIOUS
  <2>2. <<k, n>> \in Nat \X Nat /\ <<k, n>>[1] = k /\ <<k, n>>[2] = n
    BY <2>1
  <2>3. ASSUME k < n PROVE <<k, n>> \in R
    BY <2>2, <2>3, Zenon DEF OpToRel
  <2> HIDE DEF R
  <2> QED
    BY <1>1, <2>1, <2>3
<1> QED
  BY <1>2

\* Induction: a set with 0 and with the successor of each of its members has all numbers.
LEMMA AllNumbers ==
    ASSUME NEW T, 0 \in T, \A n \in Nat : n \in T => n + 1 \in T
    PROVE  Nat \subseteq T
<1> SUFFICES ASSUME Nat \ T # {} PROVE FALSE
  OBVIOUS
<1>1. PICK n \in Nat \ T : \A k \in Nat \ T : n <= k
  BY Least
<1>2. n # 0 /\ n - 1 \in Nat
  OBVIOUS
<1>3. n - 1 \in T
  BY <1>1, <1>2
<1>4. (n - 1) + 1 \in T
  BY <1>2, <1>3
<1> QED
  BY <1>4

\* The same up to a number.
LEMMA UpTo ==
    ASSUME NEW n \in Nat, NEW T, 0 \in T, \A k \in 0 .. n - 1 : k \in T => k + 1 \in T
    PROVE  \A k \in 0 .. n : k \in T
<1> DEFINE U == {k \in Nat : k <= n => k \in T}
<1>1. 0 \in U
  OBVIOUS
<1>2. ASSUME NEW k \in Nat, k \in U PROVE k + 1 \in U
  <2>1. CASE k + 1 <= n
    <3>1. k \in 0 .. n - 1 /\ k \in T
      BY <1>2, <2>1
    <3> QED
      BY <3>1
  <2>2. CASE ~(k + 1 <= n)
    BY <2>2
  <2> QED
    BY <2>1, <2>2
<1> HIDE DEF U
<1>3. Nat \subseteq U
  BY <1>1, <1>2, AllNumbers
<1> QED
  BY <1>3 DEF U

\* f is the function defined by recursion on the numbers up to n.
Unrolls(f, first, step, n) ==
    \A k \in 0 .. n : f[k] = IF k = 0 THEN first ELSE step[<<k, f[k - 1]>>]

\* It exists.
LEMMA Recursion ==
    ASSUME NEW S, NEW first \in S, NEW step \in [Nat \X S -> S], NEW n \in Nat
    PROVE  \E f \in [0 .. n -> S] : Unrolls(f, first, step, n)
<1> DEFINE Good(f, m) == Unrolls(f, first, step, m)
           T == {m \in Nat : \E f \in [0 .. m -> S] : Good(f, m)}
<1> USE DEF Unrolls
<1>1. 0 \in T
  <2> DEFINE f == [k \in 0 .. 0 |-> first]
  <2>1. f \in [0 .. 0 -> S] /\ Good(f, 0)
    OBVIOUS
  <2> QED
    BY <2>1
<1>2. ASSUME NEW m \in Nat, m \in T PROVE m + 1 \in T
  <2>1. PICK f \in [0 .. m -> S] : Good(f, m)
    BY <1>2
  <2> DEFINE last == step[<<m + 1, f[m]>>]
             g == [k \in 0 .. m + 1 |-> IF k = m + 1 THEN last ELSE f[k]]
  <2>2. last \in S
    OBVIOUS
  <2>3. g \in [0 .. m + 1 -> S]
    BY <2>2
  <2>4. ASSUME NEW k \in 0 .. m + 1
        PROVE  g[k] = IF k = 0 THEN first ELSE step[<<k, g[k - 1]>>]
    <3>1. CASE k = m + 1
      <4>1. k # 0 /\ k - 1 = m /\ m \in 0 .. m + 1 /\ m # m + 1
        BY <3>1
      <4>2. g[k - 1] = f[m] /\ g[k] = last
        BY <3>1, <4>1
      <4> QED
        BY <3>1, <4>1, <4>2
    <3>2. CASE k # m + 1
      <4>1. k \in 0 .. m /\ g[k] = f[k]
        BY <3>2
      <4>2. CASE k = 0
        BY <2>1, <4>1, <4>2
      <4>3. CASE k # 0
        <5>1. k - 1 \in 0 .. m + 1 /\ k - 1 # m + 1
          BY <4>1, <4>3
        <5>2. g[k - 1] = f[k - 1]
          BY <5>1
        <5> QED
          BY <2>1, <4>1, <4>3, <5>2
      <4> QED
        BY <4>2, <4>3
    <3> QED
      BY <3>1, <3>2
  <2> HIDE DEF g
  <2> QED
    BY <2>3, <2>4
<1> HIDE DEF T, Unrolls
<1>3. n \in T
  BY <1>1, <1>2, AllNumbers
<1> QED
  BY <1>3 DEF T

-----------------------------------------------------------------------------
(* Powers, and sums of powers of two. *)

\* The recursion of Powers.
LEMMA PowersAre ==
    ASSUME NEW b \in Nat, NEW n \in Nat
    PROVE  /\ Powers(b, n) \in [0 .. n -> Nat]
           /\ Powers(b, n)[0] = 1
           /\ \A k \in 1 .. n : Powers(b, n)[k] = b * Powers(b, n)[k - 1]
<1> DEFINE value(f, k) == IF k = 0 THEN 1 ELSE b * f[k - 1]
           is(f) == f = [k \in 0 .. n |-> value(f, k)]
           step == [p \in Nat \X Nat |-> b * p[2]]
           power == CHOOSE f : is(f)
<1>1. \E f : is(f)
  <2>1. step \in [Nat \X Nat -> Nat]
    OBVIOUS
  <2>2. PICK f \in [0 .. n -> Nat] : Unrolls(f, 1, step, n)
    <3>1. 1 \in Nat
      OBVIOUS
    <3> HIDE DEF step
    <3> QED
      BY <2>1, <3>1, Recursion, Zenon
  <2>3. ASSUME NEW k \in 0 .. n PROVE f[k] = IF k = 0 THEN 1 ELSE b * f[k - 1]
    <3>1. CASE k = 0
      BY <2>2, <3>1 DEF Unrolls
    <3>2. CASE k # 0
      <4>1. k \in Nat /\ f[k - 1] \in Nat
        BY <3>2
      <4>2. step[<<k, f[k - 1]>>] = b * f[k - 1]
        BY <4>1
      <4>3. f[k] = step[<<k, f[k - 1]>>]
        BY <2>2, <3>2 DEF Unrolls
      <4> QED
        BY <3>2, <4>2, <4>3
    <3> QED
      BY <3>1, <3>2
  <2>4. f = [k \in 0 .. n |-> f[k]]
    OBVIOUS
  <2>5. is(f)
    <3>1. \A k \in 0 .. n : f[k] = value(f, k)
      BY <2>3
    <3> HIDE DEF value
    <3> QED
      BY <2>4, <3>1
  <2> HIDE DEF is
  <2> QED
    BY <2>5
<1>2. is(power)
  <2> HIDE DEF is
  <2> QED
    BY <1>1
<1>3. Powers(b, n) = power
  BY DEF Powers
<1> HIDE DEF power
<1>4. DOMAIN power = 0 .. n /\ power = [k \in 0 .. n |-> power[k]]
  BY <1>2
<1>5. power[0] = 1
  BY <1>2
<1>6. ASSUME NEW k \in 1 .. n PROVE power[k] = b * power[k - 1]
  <2>1. k \in 0 .. n /\ k # 0
    OBVIOUS
  <2> QED
    BY <1>2, <2>1
<1>7. \A k \in 0 .. n : power[k] \in Nat
  <2> DEFINE T == {k \in 0 .. n : power[k] \in Nat}
  <2>1. 0 \in T
    BY <1>5
  <2>2. ASSUME NEW k \in 0 .. n - 1, k \in T PROVE k + 1 \in T
    <3>1. k + 1 \in 1 .. n /\ (k + 1) - 1 = k
      OBVIOUS
    <3>2. power[k + 1] = b * power[k]
      BY <1>6, <3>1
    <3> QED
      BY <2>2, <3>1, <3>2
  <2> HIDE DEF T
  <2>3. \A k \in 0 .. n : k \in T
    BY <2>1, <2>2, UpTo
  <2> QED
    BY <2>3 DEF T
<1> HIDE DEF is
<1> QED
  BY <1>3, <1>4, <1>5, <1>6, <1>7

\* The recursion of Sum.
LEMMA SumIs ==
    ASSUME NEW w, NEW n \in 0 .. WordBits, WordBits \in Nat, Two \in [0 .. WordBits -> Nat]
    PROVE  \E sum : /\ Sum(w, n) = sum[n]
                    /\ sum[0] = 0
                    /\ \A k \in 1 .. n :
                          sum[k] = sum[k - 1] + IF k - 1 \in w THEN Two[k - 1] ELSE 0
<1> DEFINE more(k) == IF k - 1 \in w THEN Two[k - 1] ELSE 0
           value(f, k) == IF k = 0 THEN 0 ELSE f[k - 1] + more(k)
           is(f) == f = [k \in 0 .. n |-> value(f, k)]
           step == [p \in Nat \X Nat |-> IF p[1] \in 1 .. n THEN p[2] + more(p[1]) ELSE 0]
           sum == CHOOSE f : is(f)
<1>1. \E f : is(f)
  <2>1. \A k \in 1 .. n : more(k) \in Nat
    OBVIOUS
  <2> HIDE DEF more
  <2>2. step \in [Nat \X Nat -> Nat]
    BY <2>1
  <2>3. PICK f \in [0 .. n -> Nat] : Unrolls(f, 0, step, n)
    <3>1. 0 \in Nat /\ n \in Nat
      OBVIOUS
    <3> HIDE DEF step
    <3> QED
      BY <2>2, <3>1, Recursion, Zenon
  <2>4. ASSUME NEW k \in 0 .. n PROVE f[k] = IF k = 0 THEN 0 ELSE f[k - 1] + more(k)
    <3>1. CASE k = 0
      BY <2>3, <3>1 DEF Unrolls
    <3>2. CASE k # 0
      <4>1. k \in Nat /\ k \in 1 .. n /\ f[k - 1] \in Nat
        BY <3>2
      <4>2. step[<<k, f[k - 1]>>] = f[k - 1] + more(k)
        BY <4>1
      <4>3. f[k] = step[<<k, f[k - 1]>>]
        BY <2>3, <3>2 DEF Unrolls
      <4> QED
        BY <3>2, <4>2, <4>3
    <3> QED
      BY <3>1, <3>2
  <2>5. f = [k \in 0 .. n |-> f[k]]
    OBVIOUS
  <2>6. is(f)
    <3>1. \A k \in 0 .. n : f[k] = value(f, k)
      BY <2>4
    <3> HIDE DEF value
    <3> QED
      BY <2>5, <3>1
  <2> HIDE DEF is
  <2> QED
    BY <2>6
<1>2. is(sum)
  <2> HIDE DEF is
  <2> QED
    BY <1>1
<1>3. Sum(w, n) = sum[n]
  BY DEF Sum
<1> HIDE DEF sum
<1>4. sum[0] = 0
  <2> HIDE DEF more
  <2> QED
    BY <1>2
<1>5. ASSUME NEW k \in 1 .. n PROVE sum[k] = sum[k - 1] + more(k)
  <2>1. k \in 0 .. n /\ k # 0
    OBVIOUS
  <2> HIDE DEF more
  <2> QED
    BY <1>2, <2>1
<1> HIDE DEF is
<1> QED
  BY <1>3, <1>4, <1>5

\* The powers of two: positive, and each is twice the one before.
LEMMA TwoIs ==
    /\ WordBits \in 2 .. 64
    /\ \A k \in 0 .. WordBits : Two[k] \in Nat /\ Two[k] >= 1
    /\ Two \in [0 .. WordBits -> Nat]
    /\ Two[0] = 1
    /\ \A k \in 1 .. WordBits : Two[k] = 2 * Two[k - 1]
    /\ \A k \in 0 .. WordBits - 1 : Two[k + 1] = 2 * Two[k]
<1>1. WordBits \in 2 .. 64 /\ WordBits \in Nat
  BY TargetAssumption
<1>2. /\ Two \in [0 .. WordBits -> Nat] /\ Two[0] = 1
      /\ \A k \in 1 .. WordBits : Two[k] = 2 * Two[k - 1]
  BY <1>1, PowersAre, 2 \in Nat, Zenon DEF Two
<1> HIDE DEF Two
<1>3. \A k \in 0 .. WordBits - 1 : Two[k + 1] = 2 * Two[k]
  <2> SUFFICES ASSUME NEW k \in 0 .. WordBits - 1 PROVE Two[k + 1] = 2 * Two[k]
    OBVIOUS
  <2>1. k + 1 \in 1 .. WordBits /\ (k + 1) - 1 = k
    BY <1>1
  <2> QED
    BY <1>2, <2>1
<1>4. \A k \in 0 .. WordBits : Two[k] >= 1
  <2> DEFINE T == {k \in 0 .. WordBits : Two[k] >= 1}
  <2>1. 0 \in T
    BY <1>1, <1>2
  <2>2. ASSUME NEW k \in 0 .. WordBits - 1, k \in T PROVE k + 1 \in T
    BY <1>1, <1>2, <1>3, <2>2
  <2> HIDE DEF T
  <2>3. \A k \in 0 .. WordBits : k \in T
    BY <1>1, <2>1, <2>2, UpTo
  <2> QED
    BY <2>3 DEF T
<1> QED
  BY <1>1, <1>2, <1>3, <1>4

\* They grow.
LEMMA TwoGrows ==
    ASSUME NEW i \in 0 .. WordBits, NEW j \in 0 .. WordBits, i <= j
    PROVE  Two[i] <= Two[j]
<1> HIDE DEF Two
<1> DEFINE T == {k \in 0 .. WordBits : i <= k => Two[i] <= Two[k]}
<1>1. 0 \in T
  BY TwoIs
<1>2. ASSUME NEW k \in 0 .. WordBits - 1, k \in T PROVE k + 1 \in T
  <2>1. /\ Two[k + 1] = 2 * Two[k] /\ k + 1 \in 0 .. WordBits
        /\ Two[k] \in Nat /\ Two[k + 1] \in Nat /\ Two[i] \in Nat
    BY TwoIs
  <2>2. CASE i <= k
    BY <1>2, <2>1, <2>2
  <2>3. CASE i = k + 1
    BY <2>1, <2>3
  <2>4. CASE i > k + 1
    BY <2>1, <2>4
  <2> QED
    BY <2>2, <2>3, <2>4
<1> HIDE DEF T
<1>3. WordBits \in Nat
  BY TwoIs
<1>4. \A k \in 0 .. WordBits : k \in T
  BY <1>1, <1>2, <1>3, UpTo
<1> QED
  BY <1>4 DEF T

\* A word with ones at the positions below h only stands for one less than a power.
LEMMA SumOfOnes ==
    ASSUME NEW w, NEW n \in 0 .. WordBits, NEW h \in 0 .. n,
           \A k \in 0 .. n - 1 : k \in w <=> k < h
    PROVE  Sum(w, n) = Two[h] - 1
<1> HIDE DEF Two, Sum
<1>1. PICK sum : /\ Sum(w, n) = sum[n]
                 /\ sum[0] = 0
                 /\ \A k \in 1 .. n :
                       sum[k] = sum[k - 1] + IF k - 1 \in w THEN Two[k - 1] ELSE 0
  <2>1. WordBits \in Nat /\ Two \in [0 .. WordBits -> Nat]
    BY TwoIs
  <2> QED
    BY <2>1, SumIs, Zenon
<1> DEFINE T == {k \in 0 .. n : sum[k] = Two[IF k <= h THEN k ELSE h] - 1}
<1>2. 0 \in T
  BY <1>1, TwoIs
<1>3. ASSUME NEW k \in 0 .. n - 1, k \in T PROVE k + 1 \in T
  <2>1. /\ k + 1 \in 1 .. n /\ (k + 1) - 1 = k /\ k \in 0 .. WordBits - 1
        /\ k \in 0 .. WordBits /\ h \in 0 .. WordBits
    BY TwoIs
  <2>2. sum[k + 1] = sum[k] + IF k \in w THEN Two[k] ELSE 0
    BY <1>1, <2>1
  <2>3. Two[k + 1] = 2 * Two[k] /\ Two[k] \in Nat /\ Two[h] \in Nat
    BY <2>1, TwoIs
  <2>4. CASE k < h
    <3>1. sum[k] = Two[k] - 1 /\ k \in w
      BY <1>3, <2>1, <2>4
    <3>2. sum[k + 1] = Two[k + 1] - 1
      BY <2>2, <2>3, <3>1
    <3> QED
      BY <2>1, <2>4, <3>2
  <2>5. CASE k >= h
    <3>1. sum[k] = Two[h] - 1 /\ k \notin w
      BY <1>3, <2>1, <2>5
    <3>2. sum[k + 1] = Two[h] - 1
      BY <2>2, <2>3, <3>1
    <3> QED
      BY <2>1, <2>5, <3>2
  <2> QED
    BY <2>1, <2>4, <2>5
<1> HIDE DEF T
<1>4. \A k \in 0 .. n : k \in T
  BY <1>2, <1>3, UpTo
<1>5. n \in T
  BY <1>4
<1>6. sum[n] = Two[h] - 1
  BY <1>5 DEF T
<1> QED
  BY <1>1, <1>6

-----------------------------------------------------------------------------
(* Words. *)

\* h is the highest position of w, and the k positions from h down are ones.
Covers(w, h, k) ==
    /\ w \subseteq 0 .. h
    /\ \A i \in 0 .. h : i > h - k => i \in w

\* A shift by k doubles the ones at the top.
LEMMA SpreadCovers ==
    ASSUME NEW w, NEW h \in Bits, NEW k \in Nat \ {0}, Covers(w, h, k)
    PROVE  Covers(Spread(w, k), h, 2 * k)
<1>1. WordBits \in Nat \ {0} /\ h \in Nat /\ h < WordBits
  BY TwoIs DEF Bits
<1>2. k % WordBits \in Nat /\ (k < WordBits => k % WordBits = k)
  BY <1>1
<1> DEFINE m == k % WordBits
<1> HIDE DEF m
<1>3. ASSUME NEW i \in ShiftRight(w, k) PROVE i \in 0 .. h
  <2>1. i \in Bits /\ IF i + m < WordBits THEN i + m \in w ELSE WordBits - 1 \in w
    BY DEF ShiftRight, m
  <2>2. CASE i + m < WordBits
    BY <1>1, <1>2, <2>1, <2>2 DEF Covers, Bits, m
  <2>3. CASE ~(i + m < WordBits)
    BY <1>1, <2>1, <2>3 DEF Covers, Bits
  <2> QED
    BY <2>2, <2>3
<1>4. ASSUME NEW i \in 0 .. h, i > h - 2 * k PROVE i \in Spread(w, k)
  <2>1. CASE i > h - k
    BY <2>1 DEF Covers, Spread
  <2>2. CASE ~(i > h - k)
    <3>1. m = k /\ i + k < WordBits /\ i + k \in 0 .. h /\ i + k > h - k /\ i \in Bits
      BY <1>1, <1>2, <1>4, <2>2 DEF Bits, m
    <3>2. i + k \in w
      BY <3>1 DEF Covers
    <3>3. i \in ShiftRight(w, k)
      BY <3>1, <3>2 DEF ShiftRight, m
    <3> QED
      BY <3>3 DEF Spread
  <2> QED
    BY <2>1, <2>2
<1> QED
  BY <1>3, <1>4 DEF Covers, Spread

\* The shifts of nearestPowerOfTwo turn everything below the highest one into ones.
LEMMA SmearedIs ==
    ASSUME NEW n, NEW h \in Word(n), \A i \in Word(n) : i <= h
    PROVE  Smeared(n) = 0 .. h
<1>1. h \in Bits /\ h \in 0 .. 63
  <2>1. WordBits \in 2 .. 64 /\ h \in Bits
    BY TwoIs, Zenon DEF Word
  <2> QED
    BY <2>1 DEF Bits
<1> DEFINE w0 == Word(n)
           w1 == Spread(w0, 1)
           w2 == Spread(w1, 2)
           w3 == Spread(w2, 4)
           w4 == Spread(w3, 8)
           w5 == Spread(w4, 16)
           w6 == Spread(w5, 32)
<1>2. Covers(w0, h, 1)
  BY <1>1 DEF Covers, Word, Bits
<1> HIDE DEF w0
<1>3. Covers(w1, h, 2)
  BY <1>1, <1>2, SpreadCovers, 2 * 1 = 2
<1> HIDE DEF w1
<1>4. Covers(w2, h, 4)
  BY <1>1, <1>3, SpreadCovers, 2 * 2 = 4
<1> HIDE DEF w2
<1>5. Covers(w3, h, 8)
  BY <1>1, <1>4, SpreadCovers, 2 * 4 = 8
<1> HIDE DEF w3
<1>6. Covers(w4, h, 16)
  BY <1>1, <1>5, SpreadCovers, 2 * 8 = 16
<1> HIDE DEF w4
<1>7. Covers(w5, h, 32)
  BY <1>1, <1>6, SpreadCovers, 2 * 16 = 32
<1> HIDE DEF w5
<1>8. Covers(w6, h, 64)
  BY <1>1, <1>7, SpreadCovers, 2 * 32 = 64
<1> HIDE DEF w6
<1>9. w6 = 0 .. h
  <2> HIDE DEF w6
  <2>1. w6 \subseteq 0 .. h /\ \A i \in 0 .. h : i > h - 64 => i \in w6
    BY <1>8 DEF Covers
  <2>2. \A i \in 0 .. h : i > h - 64
    BY <1>1
  <2> QED
    BY <2>1, <2>2
<1>10. Smeared(n) = w6
  BY DEF Smeared, w6, w5, w4, w3, w2, w1, w0
<1> QED
  BY <1>9, <1>10

\* Of a word whose highest one is the sign nothing is left, of any other that one.
LEMMA HighestOneIs ==
    ASSUME NEW n, NEW h \in Word(n), \A i \in Word(n) : i <= h
    PROVE  HighestOne(n) = IF h = WordBits - 1 THEN 0 ELSE Two[h]
<1>1. Smeared(n) = 0 .. h /\ h \in Bits /\ WordBits \in 2 .. 64 /\ h \in 0 .. WordBits - 1
  <2>1. Smeared(n) = 0 .. h /\ h \in Bits /\ WordBits \in 2 .. 64
    BY SmearedIs, TwoIs, Zenon DEF Word
  <2> QED
    BY <2>1 DEF Bits
<1>2. 1 % WordBits = 1
  BY <1>1
<1> DEFINE last == WordBits - 1
<1>3. last \in 0 .. WordBits /\ last \in Nat
  BY <1>1
<1> HIDE DEF Two
<1>4. CASE h = last
  <2>1. ShiftRight(0 .. h, 1) = 0 .. h
    BY <1>1, <1>2, <1>4 DEF ShiftRight, Bits
  <2>2. Sum(0 .. h, last) \in Int
    <3>1. Sum(0 .. h, last) = Two[last] - 1
      BY <1>1, <1>3, <1>4, SumOfOnes
    <3> QED
      BY <1>3, <3>1, TwoIs
  <2>3. Signed(0 .. h) \in Int
    <3>1. Two[last] \in Int
      BY <1>3, TwoIs
    <3> QED
      BY <2>2, <3>1 DEF Signed
  <2> QED
    BY <1>1, <1>4, <2>1, <2>3 DEF HighestOne
<1>5. CASE h # last
  <2>1. ShiftRight(0 .. h, 1) = 0 .. h - 1
    BY <1>1, <1>2, <1>5 DEF ShiftRight, Bits
  <2>2. /\ h + 1 \in 0 .. last /\ h \in 0 .. last /\ last \notin 0 .. h
        /\ last \notin 0 .. h - 1 /\ h \in 0 .. WordBits - 1
        /\ \A k \in 0 .. last - 1 : (k \in 0 .. h <=> k < h + 1) /\ (k \in 0 .. h - 1 <=> k < h)
    BY <1>1, <1>5
  <2>3. Sum(0 .. h, last) = Two[h + 1] - 1
    BY <1>3, <2>2, SumOfOnes
  <2>4. Sum(0 .. h - 1, last) = Two[h] - 1
    BY <1>3, <2>2, SumOfOnes
  <2>5. Two[h + 1] = 2 * Two[h] /\ Two[h] \in Nat
    BY <1>1, <2>2, TwoIs
  <2>6. Signed(0 .. h) = Two[h + 1] - 1 /\ Signed(0 .. h - 1) = Two[h] - 1
    BY <2>2, <2>3, <2>4, <2>5 DEF Signed
  <2> QED
    BY <1>1, <1>5, <2>1, <2>5, <2>6 DEF HighestOne
<1> QED
  BY <1>4, <1>5

\* A word without ones is zero.
LEMMA NothingLeft ==
    ASSUME NEW n, Word(n) = {}
    PROVE  HighestOne(n) = 0
<1>1. WordBits \in 2 .. 64
  BY TwoIs
<1>2. \A k : ShiftRight({}, k) = {}
  BY DEF ShiftRight
<1>3. Smeared(n) = {}
  BY <1>2 DEF Smeared, Spread
<1>4. Sum({}, WordBits - 1) = Two[0] - 1 /\ Two[0] = 1
  <2>1. /\ 0 \in 0 .. WordBits - 1 /\ WordBits - 1 \in 0 .. WordBits
        /\ \A k \in 0 .. (WordBits - 1) - 1 : k \in {} <=> k < 0
    BY <1>1
  <2> QED
    BY <2>1, SumOfOnes, TwoIs, Zenon
<1>5. Signed({}) = 0
  BY <1>4 DEF Signed
<1> QED
  BY <1>2, <1>3, <1>5 DEF HighestOne

\* A word that has ones has a highest one.
LEMMA WordHasTop ==
    ASSUME NEW n, Word(n) # {}
    PROVE  \E h \in Word(n) : \A i \in Word(n) : i <= h
<1>1. WordBits \in Nat /\ Word(n) \subseteq 0 .. WordBits - 1
  <2>1. WordBits \in Nat
    BY TwoIs
  <2> QED
    BY <2>1 DEF Word, Bits
<1> DEFINE w == Word(n)
           T == {k \in Nat : WordBits - 1 - k \in w}
<1>2. PICK h : h \in w
  OBVIOUS
<1> HIDE DEF w
<1>3. WordBits - 1 - h \in T
  BY <1>1, <1>2 DEF w
<1>4. PICK m \in T : \A k \in T : m <= k
  <2>1. T \subseteq Nat /\ T # {}
    BY <1>3
  <2> HIDE DEF T
  <2> QED
    BY <2>1, Least
<1>5. ASSUME NEW i \in w PROVE i <= WordBits - 1 - m
  <2>1. i \in 0 .. WordBits - 1
    BY <1>1 DEF w
  <2>2. WordBits - 1 - i \in T
    BY <1>1, <2>1
  <2> QED
    BY <1>1, <1>4, <2>1, <2>2
<1> QED
  BY <1>4, <1>5 DEF w

\* What nearestPowerOfTwo takes from the bits is never negative, and smaller than
\* the sign.
LEMMA HighestOneType ==
    ASSUME NEW n
    PROVE  HighestOne(n) \in Nat /\ HighestOne(n) <= Two[WordBits - 1]
<1> HIDE DEF Two
<1>1. WordBits \in 2 .. 64 /\ Two[WordBits - 1] \in Nat
  <2>1. WordBits \in 2 .. 64 /\ \A k \in 0 .. WordBits : Two[k] \in Nat
    BY TwoIs
  <2>2. WordBits - 1 \in 0 .. WordBits
    BY <2>1
  <2> QED
    BY <2>1, <2>2
<1>2. CASE Word(n) = {}
  BY <1>1, <1>2, NothingLeft
<1>3. CASE Word(n) # {}
  <2>1. PICK h \in Word(n) : \A i \in Word(n) : i <= h
    BY <1>3, WordHasTop
  <2>2. HighestOne(n) = IF h = WordBits - 1 THEN 0 ELSE Two[h]
    BY <2>1, HighestOneIs
  <2>3. h \in Bits
    BY DEF Word
  <2>4. h \in 0 .. WordBits /\ WordBits - 1 \in 0 .. WordBits /\ h <= WordBits - 1
    BY <1>1, <2>3 DEF Bits
  <2>5. Two[h] \in Nat /\ Two[h] <= Two[WordBits - 1]
    BY <2>4, TwoIs, TwoGrows
  <2> QED
    BY <1>1, <2>2, <2>5
<1> QED
  BY <1>2, <1>3

\* A number with half of it below d, and d not above it, has the quotient one.
LEMMA QuotientOne ==
    ASSUME NEW n \in Nat, NEW d \in Nat, d <= n, n < 2 * d
    PROVE  n \div d = 1
OBVIOUS

\* A number smaller than its divisor leaves no quotient.
LEMMA QuotientZero ==
    ASSUME NEW n \in Nat, NEW d \in Nat, n < d
    PROVE  n \div d = 0
OBVIOUS

\* A number has a power of two between its half and itself.
LEMMA PowerBelow ==
    ASSUME NEW n \in Nat \ {0}, n < Two[WordBits - 1]
    PROVE  \E h \in 0 .. WordBits - 2 : Two[h] <= n /\ n < 2 * Two[h]
<1> HIDE DEF Two
<1> DEFINE T == {k \in 0 .. WordBits - 1 : n < Two[k]}
<1>1. WordBits \in 2 .. 64
  BY TwoIs
<1>2. WordBits - 1 \in T
  BY <1>1
<1>3. PICK k \in T : \A j \in T : k <= j
  <2>1. T \subseteq Nat /\ T # {}
    BY <1>2
  <2> HIDE DEF T
  <2> QED
    BY <2>1, Least
<1>4. k # 0
  <2>1. ~(n < 1)
    OBVIOUS
  <2> QED
    BY <2>1, TwoIs
<1>5. k - 1 \in 0 .. WordBits - 2 /\ k - 1 \notin T /\ k \in 1 .. WordBits /\ k - 1 \in 0 .. WordBits
  BY <1>1, <1>3, <1>4
<1>6. Two[k] = 2 * Two[k - 1] /\ Two[k - 1] \in Nat
  BY <1>5, TwoIs
<1>7. ~(n < Two[k - 1]) /\ n < Two[k]
  BY <1>1, <1>5
<1> QED
  BY <1>5, <1>6, <1>7

\* HighestOne is that power, for numbers that a positive word can hold.
LEMMA HighestOneFits ==
    ASSUME NEW n \in Nat \ {0}, n < Two[WordBits - 1]
    PROVE  \E h \in Bits : HighestOne(n) = Two[h] /\ Two[h] <= n /\ n < 2 * Two[h]
<1> HIDE DEF Two
<1>1. PICK h \in 0 .. WordBits - 2 : Two[h] <= n /\ n < 2 * Two[h]
  BY PowerBelow
<1>2. WordBits \in 2 .. 64
  BY TwoIs
<1>3. h \in Bits /\ h # WordBits - 1 /\ h \in 0 .. WordBits
  BY <1>2 DEF Bits
<1>4. h \in Word(n)
  <2>1. Two[h] \in Nat
    BY <1>3, TwoIs
  <2>2. n \div Two[h] = 1
    BY <1>1, <2>1, QuotientOne
  <2> QED
    BY <1>3, <2>2 DEF Word
<1>5. ASSUME NEW i \in Word(n) PROVE i <= h
  <2> SUFFICES ASSUME i > h PROVE FALSE
    BY <1>2, <1>3 DEF Word, Bits
  <2>1. i \in Bits /\ (n \div Two[i]) % 2 = 1
    BY DEF Word
  <2>2. i \in 0 .. WordBits /\ h + 1 \in 0 .. WordBits /\ h + 1 <= i /\ h \in 0 .. WordBits - 1
    BY <1>2, <1>3, <2>1 DEF Bits
  <2>3. Two[h + 1] = 2 * Two[h] /\ Two[h + 1] <= Two[i] /\ Two[i] \in Nat /\ Two[h] \in Nat
    BY <1>3, <2>2, TwoIs, TwoGrows
  <2>4. n \div Two[i] = 0
    <3>1. n < Two[i]
      BY <1>1, <2>3
    <3> QED
      BY <2>3, <3>1, QuotientZero
  <2> QED
    BY <2>1, <2>4
<1>6. HighestOne(n) = Two[h]
  BY <1>3, <1>4, <1>5, HighestOneIs
<1> QED
  BY <1>1, <1>3, <1>6

-----------------------------------------------------------------------------
(* Units. *)

\* The factors a difficulty is multiplied by.
LEMMA FactorsAre ==
    /\ MaxDepth \in Nat /\ Factor \in Nat \ {0, 1}
    /\ \A d \in 0 .. MaxDepth : Factors[d] \in Nat /\ Factors[d] >= 1
    /\ Factors[0] = 1
    /\ \A d \in 1 .. MaxDepth : Factors[d] = Factor * Factors[d - 1]
<1>1. MaxDepth \in Nat /\ Factor \in Nat \ {0, 1}
  <2>1. WordBits - 1 \in 0 .. WordBits
    BY TwoIs
  <2>2. Two[WordBits - 1] \in Nat
    BY <2>1, TwoIs
  <2> HIDE DEF Two
  <2> QED
    BY <2>2, TargetAssumption
<1>2. /\ Factors \in [0 .. MaxDepth -> Nat] /\ Factors[0] = 1
      /\ \A d \in 1 .. MaxDepth : Factors[d] = Factor * Factors[d - 1]
  BY <1>1, PowersAre, Zenon DEF Factors
<1> HIDE DEF Factors
<1>3. \A d \in 0 .. MaxDepth : Factors[d] >= 1
  <2> DEFINE T == {d \in 0 .. MaxDepth : Factors[d] >= 1}
  <2>1. 0 \in T
    BY <1>1, <1>2
  <2>2. ASSUME NEW d \in 0 .. MaxDepth - 1, d \in T PROVE d + 1 \in T
    <3>1. d + 1 \in 1 .. MaxDepth /\ (d + 1) - 1 = d /\ d \in 0 .. MaxDepth
      BY <1>1
    <3>2. Factors[d + 1] = Factor * Factors[d]
      BY <1>2, <3>1
    <3>3. Factors[d] \in Nat /\ Factors[d] >= 1
      BY <1>2, <2>2, <3>1
    <3>4. Factor * Factors[d] >= 1
      BY <1>1, <3>3
    <3> QED
      BY <3>1, <3>2, <3>4
  <2> HIDE DEF T
  <2>3. \A d \in 0 .. MaxDepth : d \in T
    BY <1>1, <2>1, <2>2, UpTo
  <2> QED
    BY <2>3 DEF T
<1> QED
  BY <1>1, <1>2, <1>3

\* The assumptions in the form the proofs need.
LEMMA Units ==
    /\ Scale \in Nat \ {0} /\ MaxTarget \in Nat /\ MinDifficulty \in 1 .. MaxTarget
    /\ WordBits \in 2 .. 64 /\ Two[WordBits - 1] \in Nat
    /\ Two[WordBits - 1] * Scale <= MaxTarget
    /\ Factor <= Two[WordBits - 1]
    /\ MinDifficulty * Factors[MaxDepth] >= Scale
    /\ \A d \in 1 .. MaxDepth : MinDifficulty * Factors[d - 1] < Scale => Scale % Factors[d] = 0
<1>1. WordBits - 1 \in 0 .. WordBits
  BY TwoIs
<1>2. Two[WordBits - 1] \in Nat
  BY <1>1, TwoIs
<1> HIDE DEF Two, Factors
<1> QED
  BY <1>2, TargetAssumption

\* A quotient times its divisor.
LEMMA Quotient ==
    ASSUME NEW a \in Nat, NEW d \in Nat \ {0}
    PROVE  a \div d \in Nat /\ (a \div d) * d <= a /\ a < (a \div d) * d + d
OBVIOUS

\* The quotient of a multiple.
LEMMA ExactQuotient ==
    ASSUME NEW q \in Nat, NEW d \in Nat \ {0}
    PROVE  (q * d) \div d = q
OBVIOUS

\* Products grow with their factors.
LEMMA ProductGrows ==
    ASSUME NEW a \in Nat, NEW b \in Nat, NEW c \in Nat, a <= b
    PROVE  a * c <= b * c
OBVIOUS

\* Factors are ordered as their products.
LEMMA ProductOrder ==
    ASSUME NEW a \in Nat, NEW b \in Nat, NEW d \in Nat \ {0}
    PROVE  /\ a * d <= b * d => a <= b
           /\ a * d < b * d => a < b
OBVIOUS

-----------------------------------------------------------------------------
(* nearestPowerOfTwo. *)

\* The depth at which the recursion ends is the first at which something is left.
LEMMA FirstEnough ==
    ASSUME NEW v, Enough(v) # {}
    PROVE  /\ Min(Enough(v)) \in 0 .. MaxDepth
           /\ HighestOne(Multiplied(v, Min(Enough(v)))) # 0
           /\ \A e \in Enough(v) : Min(Enough(v)) <= e
<1> DEFINE T == Enough(v)
<1>1. T \subseteq 0 .. MaxDepth /\ T \subseteq Nat
  BY FactorsAre DEF Enough
<1>2. \E d \in T : \A e \in T : d <= e
  <2>1. T # {}
    OBVIOUS
  <2> HIDE DEF T
  <2> QED
    BY <1>1, <2>1, Least
<1>3. Min(T) \in T /\ \A e \in T : Min(T) <= e
  <2> HIDE DEF T
  <2> QED
    BY <1>2 DEF Min
<1> QED
  BY <1>1, <1>3 DEF Enough

\* nearestPowerOfTwo returns a difficulty that is in bounds, if it returns.
LEMMA TargetType ==
    ASSUME NEW v \in 0 .. MaxTarget
    PROVE  NearestPowerOfTwo[v] \in 0 .. MaxTarget \cup {Diverged}
<1> DEFINE d == Min(Enough(v))
           h == HighestOne(Multiplied(v, d))
<1> HIDE DEF Two, Factors
<1>1. NearestPowerOfTwo[v] = IF v < MinDifficulty THEN MinDifficulty
                             ELSE IF Enough(v) = {} THEN Diverged
                             ELSE (h * Scale) \div Factors[d]
  BY DEF NearestPowerOfTwo
<1>2. ASSUME Enough(v) # {} PROVE (h * Scale) \div Factors[d] \in 0 .. MaxTarget
  <2>1. d \in 0 .. MaxDepth
    BY <1>2, FirstEnough
  <2> HIDE DEF d
  <2>2. Factors[d] \in Nat \ {0}
    BY <2>1, FactorsAre
  <2>3. h \in Nat /\ h <= Two[WordBits - 1]
    BY HighestOneType
  <2> HIDE DEF h
  <2>4. h * Scale <= Two[WordBits - 1] * Scale /\ h * Scale \in Nat
    BY <2>3, ProductGrows, Units
  <2>5. h * Scale <= MaxTarget
    <3>1. Two[WordBits - 1] * Scale \in Nat /\ Two[WordBits - 1] * Scale <= MaxTarget
      BY Units
    <3> QED
      BY <2>4, <3>1, Units
  <2> DEFINE q == (h * Scale) \div Factors[d]
  <2>6. q \in Nat /\ q * Factors[d] <= h * Scale
    BY <2>2, <2>4, Quotient
  <2>7. q <= q * Factors[d]
    BY <2>2, <2>6
  <2> QED
    <3>1. q * Factors[d] \in Nat
      BY <2>2, <2>6
    <3> HIDE DEF q
    <3>2. q \in 0 .. MaxTarget
      BY <2>4, <2>5, <2>6, <2>7, <3>1, Units
    <3> QED
      BY <3>2 DEF q
<1> HIDE DEF h
<1> QED
  BY <1>1, <1>2, Units

\* A difficulty is multiplied until something is left of it, and no further: what is
\* left then fits a positive word.
LEMMA Depth ==
    ASSUME NEW v \in Nat, v >= MinDifficulty, Representable(v)
    PROVE  \E d \in 0 .. MaxDepth :
              /\ Multiplied(v, d) \in Nat \ {0}
              /\ Multiplied(v, d) < Two[WordBits - 1]
              /\ \A e \in 0 .. d - 1 : Multiplied(v, e) = 0
              /\ d # 0 => v * Factors[d - 1] < Scale
              /\ v >= Scale => d = 0
<1> DEFINE T == {e \in 0 .. MaxDepth : v * Factors[e] >= Scale}
<1> HIDE DEF Two, Factors
<1>1. /\ MaxDepth \in Nat /\ Scale \in Nat \ {0} /\ MinDifficulty \in Nat
      /\ Two[WordBits - 1] \in Nat /\ Factor <= Two[WordBits - 1] /\ Factor \in Nat
  BY FactorsAre, Units
<1>2. \A e \in 0 .. MaxDepth : Factors[e] \in Nat \ {0} /\ v * Factors[e] \in Nat
  BY FactorsAre
<1>3. MaxDepth \in T
  <2>1. MinDifficulty * Factors[MaxDepth] <= v * Factors[MaxDepth]
    BY <1>1, <1>2, ProductGrows
  <2>2. MinDifficulty * Factors[MaxDepth] >= Scale
    BY Units
  <2>3. MinDifficulty * Factors[MaxDepth] \in Nat /\ MaxDepth \in 0 .. MaxDepth
    BY <1>1, <1>2
  <2> QED
    BY <1>1, <1>2, <2>1, <2>2, <2>3
<1>4. PICK d \in T : \A e \in T : d <= e
  <2>1. T \subseteq Nat /\ T # {}
    BY <1>1, <1>3
  <2> HIDE DEF T
  <2> QED
    BY <2>1, Least
<1>5. d \in 0 .. MaxDepth /\ d <= MaxDepth /\ v * Factors[d] >= Scale
  BY <1>1, <1>4
<1>6. ASSUME NEW e \in 0 .. d - 1 PROVE v * Factors[e] < Scale /\ Multiplied(v, e) = 0
  <2>1. e \in 0 .. MaxDepth /\ e \notin T
    BY <1>1, <1>4, <1>5
  <2>2. v * Factors[e] \in Nat /\ v * Factors[e] < Scale
    BY <1>1, <1>2, <2>1
  <2> QED
    BY <1>1, <2>2, QuotientZero DEF Multiplied
<1> DEFINE n == Multiplied(v, d)
           a == v * Factors[d]
<1>7. n \in Nat /\ n * Scale <= a /\ a < n * Scale + Scale /\ a \in Nat
  <2>1. a \in Nat
    BY <1>2, <1>5
  <2> HIDE DEF a
  <2>2. n = a \div Scale
    BY DEF Multiplied, a
  <2> QED
    BY <1>1, <2>1, <2>2, Quotient
<1>8. n # 0
  <2>1. ASSUME n = 0 PROVE FALSE
    <3>1. a < Scale
      BY <1>1, <1>7, <2>1
    <3> QED
      BY <1>1, <1>5, <1>7, <3>1
  <2> QED
    BY <2>1
<1>9. n < Two[WordBits - 1]
  <2>1. CASE d = 0
    <3>1. a = v
      BY <2>1, FactorsAre
    <3> QED
      BY <3>1 DEF Representable, Multiplied
  <2>2. CASE d # 0
    <3>1. d \in 1 .. MaxDepth /\ d - 1 \in 0 .. d - 1 /\ d - 1 \in 0 .. MaxDepth
      BY <1>1, <1>5, <2>2
    <3> DEFINE b == v * Factors[d - 1]
    <3>2. Factors[d] = Factor * Factors[d - 1] /\ Factors[d - 1] \in Nat
      BY <3>1, FactorsAre
    <3>3. a = Factor * b /\ b \in Nat
      BY <1>1, <3>2
    <3>4. b < Scale
      BY <1>6, <3>1
    <3> HIDE DEF a, b
    <3>5. Factor * b < Factor * Scale
      BY <1>1, <3>3, <3>4, FactorsAre
    <3>6. n * Scale < Factor * Scale
      <4>1. n * Scale \in Nat /\ Factor * Scale \in Nat /\ Factor * b \in Nat
        BY <1>1, <1>7, <3>3
      <4> HIDE DEF n
      <4> QED
        BY <1>7, <3>3, <3>5, <4>1
    <3>7. n < Factor
      <4> HIDE DEF n
      <4> QED
        BY <1>1, <1>7, <3>6, ProductOrder
    <3> QED
      <4> HIDE DEF n
      <4> QED
        BY <1>1, <1>7, <3>7
  <2> QED
    BY <2>1, <2>2
<1>10. d # 0 => v * Factors[d - 1] < Scale
  <2>1. d # 0 => d - 1 \in 0 .. d - 1
    BY <1>5
  <2> QED
    BY <1>6, <2>1
<1>11. v >= Scale => d = 0
  <2>1. v * Factors[0] = v /\ 0 \in 0 .. MaxDepth
    BY <1>1, FactorsAre
  <2>2. v >= Scale => d <= 0
    BY <1>4, <2>1
  <2> QED
    BY <1>5, <2>2
<1> QED
  BY <1>5, <1>6, <1>7, <1>8, <1>9, <1>10, <1>11

\* nearestPowerOfTwo returns the power of two between the difficulty asked for and its
\* half, for any difficulty from the smallest on whose whole part is a positive word.
LEMMA TargetFits ==
    ASSUME NEW v \in 0 .. MaxTarget, v >= MinDifficulty, Representable(v)
    PROVE  NearestPowerOfTwo[v] \in Nat /\ Fits(NearestPowerOfTwo[v], v)
<1> HIDE DEF Two, Factors
<1>1. PICK d \in 0 .. MaxDepth :
              /\ Multiplied(v, d) \in Nat \ {0}
              /\ Multiplied(v, d) < Two[WordBits - 1]
              /\ \A e \in 0 .. d - 1 : Multiplied(v, e) = 0
              /\ d # 0 => v * Factors[d - 1] < Scale
              /\ v >= Scale => d = 0
  BY Depth
<1> DEFINE n == Multiplied(v, d)
<1>2. PICK h \in Bits : HighestOne(n) = Two[h] /\ Two[h] <= n /\ n < 2 * Two[h]
  BY <1>1, HighestOneFits
<1>3. Two[h] \in Nat /\ Two[h] # 0
  <2>1. h \in 0 .. WordBits
    BY TwoIs DEF Bits
  <2> QED
    BY <2>1, TwoIs
<1>4. d \in Enough(v)
  BY <1>2, <1>3 DEF Enough
<1>5. ASSUME NEW e \in 0 .. d - 1 PROVE e \notin Enough(v)
  <2>1. Word(0) = {}
    <3> SUFFICES ASSUME NEW i \in Bits PROVE (0 \div Two[i]) % 2 # 1
      BY DEF Word
    <3>1. i \in 0 .. WordBits
      BY TwoIs DEF Bits
    <3>2. Two[i] \in Nat /\ 0 < Two[i]
      BY <3>1, TwoIs
    <3>3. 0 \div Two[i] = 0
      BY <3>2, QuotientZero
    <3> QED
      BY <3>3
  <2>2. HighestOne(Multiplied(v, e)) = 0
    BY <1>1, <2>1, NothingLeft
  <2> QED
    BY <2>2 DEF Enough
<1>6. Min(Enough(v)) = d
  <2> DEFINE m == Min(Enough(v))
  <2>1. m \in 0 .. MaxDepth /\ m <= d
    BY <1>4, FirstEnough
  <2>2. m \in Enough(v)
    BY <1>4, <2>1, FirstEnough DEF Enough
  <2> HIDE DEF m
  <2>3. m \notin 0 .. d - 1
    BY <1>5, <2>2
  <2>4. m = d
    BY <1>1, <2>1, <2>3
  <2> QED
    BY <2>4 DEF m
<1> DEFINE p == (Two[h] * Scale) \div Factors[d]
<1>7. NearestPowerOfTwo[v] = p
  <2>1. ~(v < MinDifficulty)
    BY Units
  <2>2. NearestPowerOfTwo[v] = (HighestOne(Multiplied(v, d)) * Scale) \div Factors[d]
    BY <1>4, <1>6, <2>1 DEF NearestPowerOfTwo
  <2> QED
    BY <1>2, <2>2
<1>8. /\ Scale \in Nat \ {0} /\ Factors[d] \in Nat \ {0} /\ MinDifficulty \in Nat
      /\ d \in Nat /\ MaxDepth \in Nat
  BY FactorsAre, Units
<1>9. Scale % Factors[d] = 0
  <2>1. CASE d = 0
    BY <1>8, <2>1, FactorsAre
  <2>2. CASE d # 0
    <3>1. d \in 1 .. MaxDepth /\ d - 1 \in 0 .. MaxDepth
      BY <1>8, <2>2
    <3>2. Factors[d - 1] \in Nat
      BY <3>1, FactorsAre
    <3>3. MinDifficulty * Factors[d - 1] <= v * Factors[d - 1]
      BY <1>8, <3>2, ProductGrows
    <3>4. MinDifficulty * Factors[d - 1] \in Nat /\ v * Factors[d - 1] \in Nat
      BY <1>8, <3>2
    <3>5. MinDifficulty * Factors[d - 1] < Scale
      BY <1>1, <1>8, <2>2, <3>3, <3>4
    <3> QED
      BY <3>1, <3>5, Units
  <2> QED
    BY <2>1, <2>2
<1>10. PICK q \in Nat : Scale = q * Factors[d]
  <2>1. (Scale \div Factors[d]) * Factors[d] = Scale /\ Scale \div Factors[d] \in Nat
    BY <1>8, <1>9
  <2> QED
    BY <2>1
<1>11. p \in Nat /\ p * Factors[d] = Two[h] * Scale
  <2>1. Two[h] * Scale = (Two[h] * q) * Factors[d] /\ Two[h] * q \in Nat
    BY <1>3, <1>8, <1>10
  <2>2. p = Two[h] * q
    BY <1>8, <2>1, ExactQuotient
  <2> QED
    BY <2>1, <2>2
<1> DEFINE a == v * Factors[d]
<1>12. n \in Nat /\ n * Scale <= a /\ a < n * Scale + Scale /\ a \in Nat
  <2>1. a \in Nat
    BY <1>8
  <2> HIDE DEF a
  <2>2. n = a \div Scale
    BY DEF Multiplied, a
  <2> QED
    BY <1>8, <2>1, <2>2, Quotient
<1>13. p <= v
  <2>1. Two[h] * Scale <= n * Scale
    <3> HIDE DEF n
    <3> QED
      BY <1>2, <1>3, <1>8, <1>12, ProductGrows
  <2>2. p * Factors[d] <= v * Factors[d]
    <3>1. n * Scale \in Nat /\ Two[h] * Scale \in Nat
      BY <1>3, <1>8, <1>12
    <3> HIDE DEF n, p
    <3> QED
      BY <1>11, <1>12, <2>1, <3>1
  <2> HIDE DEF p
  <2> QED
    BY <1>8, <1>11, <2>2, ProductOrder
<1>14. v < 2 * p
  <2>1. n + 1 <= 2 * Two[h] /\ n + 1 \in Nat /\ 2 * Two[h] \in Nat
    <3> HIDE DEF n
    <3> QED
      BY <1>2, <1>3, <1>12
  <2>2. (n + 1) * Scale <= (2 * Two[h]) * Scale
    <3> HIDE DEF n
    <3> QED
      BY <1>8, <2>1, ProductGrows
  <2>3. (n + 1) * Scale = n * Scale + Scale /\ (2 * Two[h]) * Scale = 2 * (Two[h] * Scale)
    <3> HIDE DEF n
    <3> QED
      BY <1>3, <1>8, <1>12
  <2>4. 2 * (p * Factors[d]) = (2 * p) * Factors[d] /\ 2 * p \in Nat
    <3> HIDE DEF p
    <3> QED
      BY <1>8, <1>11
  <2>5. v * Factors[d] < (2 * p) * Factors[d]
    <3>1. n * Scale \in Nat /\ Two[h] * Scale \in Nat /\ p * Factors[d] \in Nat
      BY <1>3, <1>8, <1>11, <1>12
    <3> HIDE DEF n, p
    <3> QED
      BY <1>8, <1>11, <1>12, <2>2, <2>3, <2>4, <3>1
  <2> HIDE DEF p
  <2> QED
    BY <1>8, <1>11, <2>4, <2>5, ProductOrder
<1>15. v >= Scale => p = Two[h] * Scale
  <2>1. v >= Scale => Factors[d] = 1
    BY <1>1, FactorsAre
  <2> HIDE DEF p
  <2> QED
    BY <1>11, <2>1
<1> HIDE DEF p
<1> QED
  BY <1>7, <1>11, <1>13, <1>14, <1>15 DEF Fits

-----------------------------------------------------------------------------
(* Types, and the difficulty of a retarget. *)

\* The types, and the bound of the difficulties on which nearestPowerOfTwo is defined.
TypeInv == TypeOK /\ sessionDifficulty <= MaxTarget

\* A new connection has the difficulty of the configuration.
LEMMA TypeInit == Init => TypeInv
<1>1. InitialDifficulty \in 0 .. MaxTarget /\ MaxTarget \in Nat
  BY SessionAssumption, Units
<1>2. 0 \in Nat /\ InitialDifficulty \in Nat /\ InitialDifficulty <= MaxTarget
  BY <1>1
<1> QED
  BY <1>2 DEF Init, TypeInv, TypeOK

\* A difficulty that is asked for is one nearestPowerOfTwo is defined on.
LEMMA WantedType ==
    ASSUME TypeInv, NEW m \in Measured, Wanted(sessionDifficulty, m) # Null
    PROVE  Wanted(sessionDifficulty, m) \in 0 .. MaxTarget
<1>1. sessionDifficulty \in 0 .. MaxTarget /\ m \in 0 .. MaxTarget /\ MaxTarget \in Nat
  BY SessionAssumption, Units DEF TypeInv, TypeOK
<1>2. sessionDifficulty \div 6 \in 0 .. MaxTarget
  BY <1>1
<1> QED
  BY <1>1, <1>2 DEF Wanted

\* initStratum gives each kind of miner a difficulty in bounds.
LEMMA StartingType ==
    ASSUME TypeInv
    PROVE  StartingDifficulty \in 0 .. MaxTarget
BY SessionAssumption, Units DEF TypeInv, TypeOK, StartingDifficulty

\* Every step of a session keeps the types.
LEMMA TypeStep == TypeInv /\ [Next]_vars => TypeInv'
<1> SUFFICES ASSUME TypeInv, [Next]_vars PROVE TypeInv'
  OBVIOUS
<1> USE DEF TypeInv, TypeOK, handshake, work, background
<1>0. MaxTarget \in Nat
  BY Units
<1>1. ASSUME NEW agent \in UserAgent, Subscribe(agent) PROVE TypeInv'
  BY <1>1 DEF Subscribe, Respond, Message
<1>2. ASSUME NEW d \in StartingDiff, Authorize(d) PROVE TypeInv'
  <2>1. d \in 0 .. MaxTarget
    BY SessionAssumption
  <2>2. sessionDifficulty' \in 0 .. MaxTarget /\ untold' \subseteq {"override", "raise"}
    <3>1. CASE Raises(d)
      <4>1. sessionDifficulty' = d /\ untold' \in {untold, untold \cup {"raise"}}
        BY <1>2, <3>1 DEF Authorize
      <4> QED
        BY <1>0, <2>1, <4>1
    <3>2. CASE ~Raises(d)
      <4>1. sessionDifficulty' = sessionDifficulty /\ untold' = untold
        BY <1>2, <3>2 DEF Authorize
      <4> QED
        BY <1>0, <4>1
    <3> QED
      BY <3>1, <3>2
  <2> QED
    BY <1>2, <2>2 DEF Authorize, Respond, Message
<1>3. ASSUME NEW d \in Suggestion, Suggest(d) PROVE TypeInv'
  <2>1. d \in 0 .. MaxTarget
    BY SessionAssumption
  <2> QED
    BY <1>0, <1>3, <2>1 DEF Suggest, Tell, Respond, Message
<1>4. CASE OtherMessage
  BY <1>4 DEF OtherMessage, Respond, Message
<1>5. CASE Ends
  BY <1>5 DEF Ends
<1>6. CASE Destroy
  BY <1>6 DEF Destroy
<1>7. ASSUME NEW message \in Message, Responded(message) PROVE TypeInv'
  <2>1. CASE userAgent # "none" /\ authorized /\ ~initialized
    <3>1. InitStratum(writes \ {message})
      BY <1>7, <2>1 DEF Responded
    <3>2. StartingDifficulty \in 0 .. MaxTarget
      BY StartingType
    <3>3. CASE suggested
      <4>1. /\ sessionDifficulty' = StartingDifficulty /\ told' = told
            /\ untold' \in {untold, untold \cup {"override"}}
            /\ writes' = writes \ {message} /\ initialized' = TRUE
            /\ timers' = TRUE /\ starts' = starts + 1
        BY <3>1, <3>3 DEF InitStratum, MarkInitialized, StartWork
      <4> QED
        BY <1>0, <1>7, <3>2, <4>1 DEF Responded
    <3>4. CASE ~suggested
      <4>1. /\ sessionDifficulty' = StartingDifficulty /\ told' = StartingDifficulty
            /\ untold' = {} /\ writes' = (writes \ {message}) \cup {"init"}
            /\ initialized' = TRUE /\ timers' = timers /\ starts' = starts
        BY <3>1, <3>4 DEF InitStratum, MarkInitialized, Tell
      <4> QED
        BY <1>0, <1>7, <3>2, <4>1 DEF Responded
    <3> QED
      BY <3>3, <3>4
  <2>2. CASE ~(userAgent # "none" /\ authorized /\ ~initialized)
    BY <1>7, <2>2 DEF Responded
  <2> QED
    BY <2>1, <2>2
<1>8. CASE DifficultyWritten
  BY <1>8 DEF DifficultyWritten, StartWork
<1>9. ASSUME NEW message \in Message \cup {"init"}, WriteFails(message) PROVE TypeInv'
  BY <1>9 DEF WriteFails
<1>10. CASE SendJob
  BY <1>10 DEF SendJob, JobFor
<1>11. ASSUME NEW m \in Measured, CheckDifficulty(m) PROVE TypeInv'
  <2> DEFINE wanted == Wanted(sessionDifficulty, m)
             d == NearestPowerOfTwo[wanted]
  <2>1. wanted # Null /\ d # Diverged
    BY <1>11 DEF CheckDifficulty
  <2>2. wanted \in 0 .. MaxTarget
    BY <2>1, WantedType
  <2>3. d \in 0 .. MaxTarget
    <3> HIDE DEF wanted
    <3> QED
      BY <2>1, <2>2, TargetType
  <2>4. /\ sessionDifficulty' = d /\ retargeting' = (retargeting \/ ~cached)
        /\ UNCHANGED <<socket, handshake, writes, cached, background>>
    BY <1>11 DEF CheckDifficulty, Tell
  <2>5. told' \in {d, told} /\ untold' \in {{}, untold}
    <3>1. CASE socket = "open"
      BY <1>11, <3>1 DEF CheckDifficulty, Tell
    <3>2. CASE socket # "open"
      BY <1>11, <3>2 DEF CheckDifficulty
    <3> QED
      BY <3>1, <3>2
  <2>6. mining' \in {d, mining} /\ newer' \in {{}, newer \cup {"retarget"}}
    <3>1. CASE socket = "open" /\ cached
      BY <1>11, <3>1 DEF CheckDifficulty, RetargetedWork, JobFor
    <3>2. CASE ~(socket = "open" /\ cached)
      BY <1>11, <3>2 DEF CheckDifficulty
    <3> QED
      BY <3>1, <3>2
  <2> HIDE DEF d
  <2>7. /\ sessionDifficulty' \in Nat /\ sessionDifficulty' <= MaxTarget
        /\ told' \in Nat \cup {Null} /\ mining' \in Nat \cup {Null}
    BY <1>0, <2>3, <2>4, <2>5, <2>6
  <2>8. untold' \subseteq {"override", "raise"} /\ newer' \subseteq {"suggest", "retarget"}
    BY <2>5, <2>6
  <2> QED
    BY <2>4, <2>7, <2>8
<1>12. CASE RetargetResumes
  BY <1>12 DEF RetargetResumes, JobFor
<1>13. CASE ProcessDies
  BY <1>13 DEF ProcessDies
<1>14. CASE UNCHANGED vars
  BY <1>14 DEF vars
<1> QED
  BY <1>1, <1>2, <1>3, <1>4, <1>5, <1>6, <1>7, <1>8, <1>9, <1>10, <1>11, <1>12,
     <1>13, <1>14 DEF Next

\* Every difficulty of a session is a number in bounds, whatever is measured: what
\* nearestPowerOfTwo makes of the bits of a word is never negative.
THEOREM TypeCorrect == Spec => []TypeOK
<1>1. TypeInv => TypeOK
  BY DEF TypeInv
<1> QED
  BY <1>1, TypeInit, TypeStep, PTL DEF Spec

\* A session whose difficulty is out of proportion to its shares gets the power of two
\* between what they ask for and half of it, for words of up to 64 bits, whatever the
\* smallest difficulty, and through the recursion for difficulties below one.
THEOREM RetargetsFit == Spec => RetargetFits
<1>1. ASSUME NEW m \in Measured \ {Few}, m >= MinDifficulty, Representable(m),
             CheckDifficulty(m)
      PROVE  Fits(sessionDifficulty', m)
  <2>1. Wanted(sessionDifficulty, m) = m
    BY <1>1 DEF CheckDifficulty, Wanted
  <2>2. sessionDifficulty' = NearestPowerOfTwo[m]
    BY <1>1, <2>1 DEF CheckDifficulty, Tell
  <2>3. m \in 0 .. MaxTarget
    BY SessionAssumption
  <2> QED
    BY <1>1, <2>2, <2>3, TargetFits
<1>2. [\A m \in Measured \ {Few} :
          m >= MinDifficulty /\ Representable(m) /\ CheckDifficulty(m)
              => Fits(sessionDifficulty', m)]_vars
  BY <1>1
<1> QED
  BY <1>2, PTL DEF RetargetFits
=============================================================================
