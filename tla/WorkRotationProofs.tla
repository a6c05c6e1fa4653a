------------------------- MODULE WorkRotationProofs -------------------------
(* Theorems about WorkRotation, for any periods of the timers that          *)
(* getTunedIntervalMs lets through, any bits the pool rotates, and any       *)
(* number of tips, transactions, writes and calls in flight.                *)
EXTENDS WorkRotation, FiniteSetTheorems, WellFoundedInduction, TLAPS

-----------------------------------------------------------------------------
(* The rotation. *)

\* How many of the pool's bits are below bit b.
Below(b) == Cardinality({c \in PoolBits : c < b})

\* The bits one by one.
LEMMA PoolBitsAre == PoolBits \subseteq {13, 14, 15, 16}
<1>1. 13 .. 16 = {13, 14, 15, 16}
  OBVIOUS
<1> QED
  BY <1>1, RotationAssumption

\* They can be compared with any number.
LEMMA PoolBitsAreNumbers ==
    \A b \in PoolBits : b \in Int /\ ~(b < 13) /\ b < 17
BY PoolBitsAre

\* Counted from the lowest bit, each bit that is the pool's adds one.
LEMMA Bits ==
    /\ Below(13) = 0 /\ Below(17) = Cardinality(PoolBits)
    /\ \A b \in 13 .. 16 : Below(b + 1) = Below(b) + IF b \in PoolBits THEN 1 ELSE 0
<1>1. Below(13) = 0
  <2>1. {c \in PoolBits : c < 13} = {}
    BY PoolBitsAreNumbers, Zenon
  <2> QED
    BY <2>1, FS_EmptySet, Zenon DEF Below
<1>2. Below(17) = Cardinality(PoolBits)
  <2>1. {c \in PoolBits : c < 17} = PoolBits
    BY PoolBitsAreNumbers, Zenon
  <2> QED
    BY <2>1, Zenon DEF Below
<1>3. IsFiniteSet(PoolBits)
  <2>1. IsFiniteSet({13, 14, 15, 16})
    <3>1. 13 \in Int /\ 16 \in Int /\ 13 .. 16 = {13, 14, 15, 16}
      OBVIOUS
    <3> QED
      BY <3>1, FS_Interval, Zenon
  <2> QED
    BY <2>1, PoolBitsAre, FS_Subset
<1>4. ASSUME NEW b \in 13 .. 16
      PROVE  Below(b + 1) = Below(b) + IF b \in PoolBits THEN 1 ELSE 0
  <2> DEFINE S == {c \in PoolBits : c < b}
             T == {c \in PoolBits : c < b + 1}
  <2>1. IsFiniteSet(S)
    BY <1>3, FS_Subset
  <2>2. b \notin S /\ T = IF b \in PoolBits THEN S \cup {b} ELSE S
    <3>1. \A c \in PoolBits : c < b + 1 <=> (c < b \/ c = b)
      BY PoolBitsAreNumbers
    <3>2. ~(b < b)
      OBVIOUS
    <3>3. \A c : c \in T <=> c \in (IF b \in PoolBits THEN S \cup {b} ELSE S)
      BY <3>1, Zenon
    <3> QED
      BY <3>2, <3>3, Zenon
  <2>3. Cardinality(S \cup {b}) = Cardinality(S) + 1
    BY <2>1, <2>2, FS_AddElement
  <2>4. Cardinality(T) = Cardinality(S) + IF b \in PoolBits THEN 1 ELSE 0
    <3>1. Cardinality(S) \in Nat
      BY <2>1, FS_CardinalityType
    <3> QED
      BY <2>2, <2>3, <3>1
  <2> QED
    BY <2>4, Zenon DEF Below
<1> QED
  BY <1>1, <1>2, <1>4 DEF Below

\* The bits take the places from zero up, without a gap, and there are at most four.
LEMMA Places ==
    /\ Below(17) \in 0 .. 4
    /\ Rotations = 2 ^ Below(17)
    /\ \A i \in 0 .. Below(17) - 1 : \E b \in PoolBits : Below(b) = i
<1>1. /\ Below(14) = Below(13) + IF 13 \in PoolBits THEN 1 ELSE 0
      /\ Below(15) = Below(14) + IF 14 \in PoolBits THEN 1 ELSE 0
      /\ Below(16) = Below(15) + IF 15 \in PoolBits THEN 1 ELSE 0
      /\ Below(17) = Below(16) + IF 16 \in PoolBits THEN 1 ELSE 0
  BY Bits
<1> QED
  BY <1>1, Bits DEF Rotations

\* As many rotations as four bits and fewer can give.
LEMMA RotationsAre == Rotations \in {1, 2, 4, 8, 16}
<1> DEFINE k == Below(17)
<1>1. k \in 0 .. 4 /\ Rotations = 2 ^ k
  BY Places
<1> HIDE DEF k
<1>2. CASE k = 0
  BY <1>1, <1>2
<1>3. CASE k = 1
  BY <1>1, <1>3
<1>4. CASE k = 2
  BY <1>1, <1>4
<1>5. CASE k = 3
  BY <1>1, <1>5
<1>6. CASE k = 4
  BY <1>1, <1>6
<1> QED
  BY <1>1, <1>2, <1>3, <1>4, <1>5, <1>6

\* No two rotations have the same bits.
LEMMA Distinct ==
    ASSUME NEW n \in 0 .. Rotations - 1, NEW m \in 0 .. Rotations - 1,
           \A b \in PoolBits : b \in RotationBits(n) <=> b \in RotationBits(m)
    PROVE  n = m
<1> DEFINE k == Below(17)
<1>1. k \in 0 .. 4 /\ Rotations = 2 ^ k
  BY Places
<1>2. \A i \in 0 .. k - 1 : (n \div 2 ^ i) % 2 = 1 <=> (m \div 2 ^ i) % 2 = 1
  BY Places DEF RotationBits, Below
<1> HIDE DEF k
<1>3. n \in Nat /\ m \in Nat
  BY RotationsAre
<1>4. CASE k = 0
  <2>1. Rotations = 1
    BY <1>1, <1>4
  <2> QED
    BY <2>1
<1>5. CASE k = 1
  BY <1>1, <1>2, <1>3, <1>5
<1>6. CASE k = 2
  BY <1>1, <1>2, <1>3, <1>6
<1>7. CASE k = 3
  BY <1>1, <1>2, <1>3, <1>7
<1>8. CASE k = 4
  BY <1>1, <1>2, <1>3, <1>8
<1> QED
  BY <1>1, <1>4, <1>5, <1>6, <1>7, <1>8

\* A number up to twice the rotations, as the counter shows it.
Round(n) == IF n < Rotations THEN n ELSE n - Rotations

\* Advanced, without the modulus.
LEMMA AdvancedIs == \A n \in 0 .. Rotations - 1 : Advanced(n) = Round(n + 1)
BY RotationsAre DEF Advanced, Round

\* When two jobs repeat each other: the tip and the time are the same, and some bits of
\* the miner bring the versions together.
LEMMA RepeatsMeans ==
    ASSUME NEW j, NEW i
    PROVE  Repeats(j, i) <=>
              /\ j.template.tip = i.template.tip /\ j.ntime = i.ntime
              /\ \E p, q \in SUBSET MinerBits : Rolled(j.version, p) = Rolled(i.version, q)
<1>1. ASSUME NEW p, NEW q
      PROVE  MinedHeader(j, p, 1) = MinedHeader(i, q, 1) <=>
              /\ j.template.tip = i.template.tip /\ j.ntime = i.ntime
              /\ Rolled(j.version, p) = Rolled(i.version, q)
  BY DEF MinedHeader, Header
<1> QED
  BY <1>1 DEF Repeats, SearchSpace

\* The miner's bits are not the pool's.
LEMMA RolledApart ==
    ASSUME NEW v, NEW w, NEW p \in SUBSET MinerBits, NEW q \in SUBSET MinerBits,
           Rolled(v, p) = Rolled(w, q)
    PROVE  \A b \in PoolBits : b \in v <=> b \in w
<1> TAKE b \in PoolBits
<1>1. b \notin p /\ b \notin q
  BY RotationAssumption DEF MinerBits
<1> QED
  BY <1>1 DEF Rolled

-----------------------------------------------------------------------------
(* Types. *)

\* The cached template and the last job are sets of at most one.
TypeInv ==
    /\ TypeOK
    /\ wait \in [Timer -> Nat]
    /\ current = {} \/ \E t \in Template : current = {t}
    /\ last = {} \/ \E l \in LastJob : last = {l}

\* The job SendJob makes.
JobSent(t, ntime, clear, retarget) ==
    [template |-> t, ntime |-> ntime,
     version |-> (t.version \ PoolBits) \cup RotationBits(IF clear THEN 0 ELSE versionCounter),
     ahead |-> ntime > IF retarget THEN 1 ELSE 0, restarted |-> FALSE, turns |-> 0]

\* What becomes of a job when another is sent.
Overtaken(j, clear) ==
    [j EXCEPT !.restarted = @ \/ clear,
              !.turns = IF j.ahead /\ @ < Rotations THEN @ + 1 ELSE @]

\* The jobs that the next one must not repeat.
Before == jobs \cup {l.job : l \in last}

\* SendJob in these terms.
LEMMA SendEffect ==
    ASSUME NEW t, NEW ntime, NEW clear, NEW retarget, SendJob(t, ntime, clear, retarget)
    PROVE  /\ Len(writing) < MaxWrites
           /\ writing' = Append(writing, ntime)
           /\ versionCounter' = Advanced(IF clear THEN 0 ELSE versionCounter)
           /\ last' = {[job |-> JobSent(t, ntime, clear, retarget), retarget |-> retarget,
                        hasty |-> writing # <<>>]}
           /\ jobs' = {Overtaken(j, clear) : j \in Before}
BY DEF SendJob, JobSent, Overtaken, Before

\* What sending another job does to one that was sent.
LEMMA OvertakenIs ==
    ASSUME NEW j \in Job, NEW clear \in BOOLEAN
    PROVE  /\ Overtaken(j, clear) \in Job
           /\ Overtaken(j, clear).template = j.template
           /\ Overtaken(j, clear).ntime = j.ntime
           /\ Overtaken(j, clear).version = j.version
           /\ Overtaken(j, clear).ahead = j.ahead
           /\ Overtaken(j, clear).restarted = (j.restarted \/ clear)
           /\ Overtaken(j, clear).turns =
                 IF j.ahead /\ j.turns < Rotations THEN j.turns + 1 ELSE j.turns
<1> DEFINE r == j.restarted \/ clear
           k == IF j.ahead /\ j.turns < Rotations THEN j.turns + 1 ELSE j.turns
<1>1. j.turns \in Nat /\ j.turns <= Rotations
  BY RotationsAre DEF Job
<1>2. r \in BOOLEAN /\ k \in 0 .. Rotations
  BY <1>1, RotationsAre DEF Job
<1>3. Overtaken(j, clear) = [j EXCEPT !.restarted = r, !.turns = k]
  BY DEF Overtaken
<1> HIDE DEF r, k
<1>4. [j EXCEPT !.restarted = r, !.turns = k] \in Job
  BY <1>2 DEF Job
<1>5. /\ Overtaken(j, clear).template = j.template
      /\ Overtaken(j, clear).ntime = j.ntime
      /\ Overtaken(j, clear).version = j.version
      /\ Overtaken(j, clear).ahead = j.ahead
      /\ Overtaken(j, clear).restarted = r
      /\ Overtaken(j, clear).turns = k
  BY <1>3 DEF Job
<1> QED
  BY <1>3, <1>4, <1>5 DEF r, k

\* A template that grows older stays a template.
LEMMA AgedType ==
    \A t \in Template : /\ AgedTemplate(t) \in Template
                        /\ AgedTemplate(t).tip = t.tip
                        /\ AgedTemplate(t).version = t.version
<1> SUFFICES ASSUME NEW t \in Template
             PROVE  /\ AgedTemplate(t) \in Template
                    /\ AgedTemplate(t).tip = t.tip
                    /\ AgedTemplate(t).version = t.version
  OBVIOUS
<1> DEFINE time == Later(t.timestamp - 1, 0)
<1>1. time \in Nat
  BY DEF Template, Later
<1>2. AgedTemplate(t) = [t EXCEPT !.timestamp = time]
  BY DEF AgedTemplate
<1> HIDE DEF time
<1> QED
  BY <1>1, <1>2 DEF Template

\* What a second does to a job whose time is not past.
LEMMA OlderIs ==
    ASSUME NEW j \in Job, j.ntime > 0
    PROVE  /\ Older(j) \in Job
           /\ Older(j).template.tip = j.template.tip
           /\ Older(j).ntime = j.ntime - 1
           /\ Older(j).version = j.version
           /\ Older(j).ahead = j.ahead
           /\ Older(j).restarted = j.restarted
           /\ Older(j).turns = j.turns
<1> DEFINE n == j.ntime - 1
           t == AgedTemplate(j.template)
<1>1. n \in Nat /\ t \in Template /\ t.tip = j.template.tip
  BY AgedType DEF Job
<1>2. Older(j) = [j EXCEPT !.ntime = n, !.template = t]
  BY DEF Older
<1> HIDE DEF n, t
<1>3. [j EXCEPT !.ntime = n, !.template = t] \in Job
  BY <1>1 DEF Job
<1>4. /\ Older(j).template = t
      /\ Older(j).ntime = n
      /\ Older(j).version = j.version
      /\ Older(j).ahead = j.ahead
      /\ Older(j).restarted = j.restarted
      /\ Older(j).turns = j.turns
  BY <1>2 DEF Job
<1> QED
  BY <1>1, <1>2, <1>3, <1>4 DEF n

\* All jobs sent so far are jobs.
LEMMA BeforeAreJobs == TypeInv => Before \subseteq Job
BY DEF TypeInv, TypeOK, Before, LastJob

\* A set of which all members are equal has at most one.
LEMMA AtMostOne ==
    /\ Cardinality({}) <= 1
    /\ \A x : Cardinality({x}) <= 1
BY FS_EmptySet, FS_Singleton

\* SendJob keeps the types of what it changes.
LEMMA SendType ==
    ASSUME TypeInv, NEW t \in Template, NEW ntime \in Nat, NEW clear \in BOOLEAN,
           NEW retarget \in BOOLEAN, SendJob(t, ntime, clear, retarget)
    PROVE  /\ versionCounter' \in 0 .. Rotations - 1
           /\ writing' \in Seq(Time) /\ Len(writing') <= MaxWrites
           /\ jobs' \subseteq Job
           /\ last' \subseteq LastJob /\ Cardinality(last') <= 1
           /\ \E l \in LastJob : last' = {l}
<1> DEFINE job == JobSent(t, ntime, clear, retarget)
           new == [job |-> job, retarget |-> retarget, hasty |-> writing # <<>>]
<1>1. versionCounter' \in 0 .. Rotations - 1
  <2>1. versionCounter \in 0 .. Rotations - 1 /\ 0 \in 0 .. Rotations - 1
    BY RotationsAre DEF TypeInv, TypeOK
  <2>2. \A n \in 0 .. Rotations - 1 : Advanced(n) \in 0 .. Rotations - 1
    BY RotationsAre, AdvancedIs DEF Round
  <2> QED
    BY <2>1, <2>2, SendEffect
<1>2. writing' \in Seq(Time) /\ Len(writing') <= MaxWrites
  <2>1. writing \in Seq(Time) /\ ntime \in Time /\ Len(writing) < MaxWrites
    BY SendEffect DEF TypeInv, TypeOK, Time
  <2> QED
    BY <2>1, SendEffect, RotationAssumption
<1>3. jobs' \subseteq Job
  <2>1. ASSUME NEW j \in Job PROVE Overtaken(j, clear) \in Job
    BY OvertakenIs
  <2> QED
    BY <2>1, BeforeAreJobs, SendEffect
<1>4. new \in LastJob
  <2>1. \A n : RotationBits(n) \subseteq Nat
    <3>1. PoolBits \subseteq Nat
      BY PoolBitsAre
    <3> QED
      BY <3>1, Zenon DEF RotationBits
  <2>2. job.version \in SUBSET Nat
    BY <2>1 DEF JobSent, Template
  <2>3. job \in Job
    BY <2>2, RotationsAre DEF JobSent, Job
  <2> QED
    BY <2>3 DEF LastJob
<1>5. last' = {new}
  BY SendEffect
<1> QED
  BY <1>1, <1>2, <1>3, <1>4, <1>5, AtMostOne

\* The types hold at the start.
LEMMA Starting == Init => TypeInv
<1> SUFFICES ASSUME Init PROVE TypeInv
  OBVIOUS
<1>1. TypeOK
  BY RotationAssumption, RotationsAre, AtMostOne DEF Init, TypeOK, Time, Tip
<1>2. Period \in [Timer -> Nat]
  BY RotationAssumption DEF Timer, Period
<1> QED
  BY <1>1, <1>2 DEF TypeInv, Init

\* They hold for the timers when a tick passes.
LEMMA WearType ==
    ASSUME TypeInv, Wear
    PROVE  /\ sinceSent' \in 0 .. MinGap
           /\ wait' \in [Timer -> Nat]
           /\ \A t \in Timer : wait'[t] \in 0 .. Period[t]
           /\ UNCHANGED <<tip, calls, lastTemplateHeight, versionCounter>>
<1>1. sinceSent' \in 0 .. MinGap
  BY RotationAssumption DEF TypeInv, TypeOK, Wear
<1>2. wait' \in [Timer -> Nat]
  BY DEF TypeInv, TypeOK, Wear, Later
<1>3. ASSUME NEW t \in Timer PROVE wait'[t] \in 0 .. Period[t]
  BY RotationAssumption DEF TypeInv, TypeOK, Wear, Later
<1> QED
  BY <1>1, <1>2, <1>3 DEF Wear

\* Every step keeps the types.
LEMMA TypeStep == TypeInv /\ [Next]_vars => TypeInv'
<1> SUFFICES ASSUME TypeInv, [Next]_vars PROVE TypeInv'
  OBVIOUS
<1> DEFINE CurrentOK == current = {} \/ \E t \in Template : current = {t}
           LastOK == last = {} \/ \E l \in LastJob : last = {l}
           WaitOK == wait \in [Timer -> Nat] /\ \A t \in Timer : wait[t] \in 0 .. Period[t]
<1>0. /\ phase \in 0 .. TicksPerSecond - 1 /\ lead \in 0 .. MaxLead /\ tip \in Tip
      /\ calls \in 0 .. MaxCalls /\ lastTemplateHeight \in 0 .. tip
      /\ current \subseteq Template /\ Cardinality(current) <= 1 /\ CurrentOK
      /\ versionCounter \in 0 .. Rotations - 1
      /\ writing \in Seq(Time) /\ Len(writing) <= MaxWrites /\ lastSent \in Time
      /\ sinceSent \in 0 .. MinGap /\ WaitOK
      /\ jobs \subseteq Job
      /\ last \subseteq LastJob /\ Cardinality(last) <= 1 /\ LastOK
  BY DEF TypeInv, TypeOK
<1>a. tip \in Nat /\ 1 <= tip /\ tip <= MaxTip
  BY <1>0, RotationAssumption DEF Tip
<1>b. ASSUME NEW timer \in Timer, Due(timer) PROVE WaitOK'
  BY <1>0, <1>b, RotationAssumption DEF Due
<1>1. CASE Tick
  <2>1. phase' \in 0 .. TicksPerSecond - 1
    BY <1>0, <1>1, RotationAssumption DEF Tick
  <2> QED
    BY <1>0, <1>1, <2>1, WearType DEF Tick, TypeInv, TypeOK
<1>2. CASE NextSecond
  <2>1. phase' \in 0 .. TicksPerSecond - 1 /\ lead' \in 0 .. MaxLead
    BY <1>0, <1>2, RotationAssumption DEF NextSecond, Later
  <2>2. WaitOK' /\ sinceSent' \in 0 .. MinGap
        /\ UNCHANGED <<tip, calls, lastTemplateHeight, versionCounter>>
    BY <1>2, WearType DEF NextSecond
  <2>3. current' \subseteq Template /\ Cardinality(current') <= 1 /\ CurrentOK'
    <3>1. current' = {AgedTemplate(t) : t \in current}
      BY <1>2 DEF NextSecond
    <3>2. CASE current = {}
      BY <3>1, <3>2, AtMostOne
    <3>3. CASE \E t \in Template : current = {t}
      <4>1. PICK t \in Template : current = {t}
        BY <3>3
      <4>2. current' = {AgedTemplate(t)} /\ AgedTemplate(t) \in Template
        BY <3>1, <4>1, AgedType
      <4> QED
        BY <4>2, AtMostOne
    <3> QED
      BY <1>0, <3>2, <3>3
  <2>4. \A time \in Time : Passed(time) \in Time
    BY DEF Time, Passed, Later
  <2>5. writing' \in Seq(Time) /\ Len(writing') <= MaxWrites /\ lastSent' \in Time
    <3>1. writing' = [i \in 1 .. Len(writing) |-> Passed(writing[i])]
      BY <1>0, <1>2 DEF NextSecond
    <3>2. \A i \in 1 .. Len(writing) : Passed(writing[i]) \in Time
      BY <1>0, <2>4
    <3> QED
      BY <1>0, <1>2, <2>4, <3>1, <3>2 DEF NextSecond
  <2>6. jobs' \subseteq Job
    BY <1>0, <1>2, OlderIs DEF NextSecond
  <2>7. last' \subseteq LastJob /\ Cardinality(last') <= 1 /\ LastOK'
    <3>1. last' = {[l EXCEPT !.job = Older(l.job)] : l \in {k \in last : k.job.ntime > 0}}
      BY <1>2 DEF NextSecond
    <3>2. CASE \E l \in LastJob : last = {l} /\ l.job.ntime > 0
      <4>1. PICK l \in LastJob : last = {l} /\ l.job.ntime > 0
        BY <3>2
      <4>2. Older(l.job) \in Job
        BY <4>1, OlderIs DEF LastJob
      <4> DEFINE new == [l EXCEPT !.job = Older(l.job)]
      <4>3. new \in LastJob
        BY <4>2 DEF LastJob
      <4>4. last' = {new}
        BY <3>1, <4>1
      <4> QED
        BY <4>3, <4>4, AtMostOne
    <3>3. CASE ~ \E l \in LastJob : last = {l} /\ l.job.ntime > 0
      <4>1. last' = {}
        BY <1>0, <3>1, <3>3
      <4> QED
        BY <4>1, AtMostOne
    <3> QED
      BY <3>2, <3>3
  <2> QED
    BY <1>0, <1>a, <2>1, <2>2, <2>3, <2>5, <2>6, <2>7 DEF TypeInv, TypeOK
<1>3. CASE NewBlock
  <2>1. tip' \in Tip /\ lastTemplateHeight' \in 0 .. tip' /\ calls' \in 0 .. MaxCalls
        /\ lead' \in 0 .. MaxLead
    BY <1>0, <1>3, <1>a, RotationAssumption DEF NewBlock, Ask, Tip
  <2> QED
    BY <1>0, <1>3, <2>1 DEF NewBlock, TypeInv, TypeOK
<1>4. CASE OtherSession
  BY <1>0, <1>4, <1>a DEF OtherSession, TypeInv, TypeOK
<1>5. CASE Resume
  <2> DEFINE t == [tip |-> tip, timestamp |-> lead, version |-> BaseVersion]
             clear == lastTemplateHeight # tip
  <2>1. t \in Template /\ t.timestamp \in Nat
    BY <1>0, RotationAssumption DEF Template, BaseVersion
  <2>2. current' = {t} /\ SendJob(t, t.timestamp, clear, FALSE)
    BY <1>5 DEF Resume
  <2>3. lastTemplateHeight' \in 0 .. tip' /\ calls' \in 0 .. MaxCalls
        /\ UNCHANGED <<phase, lead, tip, lastSent, sinceSent, wait>>
    BY <1>0, <1>a, <1>5, RotationAssumption DEF Resume
  <2>4. clear \in BOOLEAN
    OBVIOUS
  <2> HIDE DEF t, clear
  <2>5. /\ versionCounter' \in 0 .. Rotations - 1
        /\ writing' \in Seq(Time) /\ Len(writing') <= MaxWrites
        /\ jobs' \subseteq Job
        /\ last' \subseteq LastJob /\ Cardinality(last') <= 1
        /\ \E l \in LastJob : last' = {l}
    BY <2>1, <2>2, <2>4, SendType
  <2>6. current' \subseteq Template /\ Cardinality(current') <= 1 /\ CurrentOK'
    BY <2>1, <2>2, AtMostOne
  <2> QED
    BY <1>0, <2>3, <2>5, <2>6 DEF TypeInv, TypeOK
<1>6. CASE Written
  <2>1. writing # <<>> /\ lastSent' = Head(writing) /\ writing' = Tail(writing) /\ sinceSent' = 0
    BY <1>6 DEF Written
  <2>2. writing' \in Seq(Time) /\ Len(writing') <= MaxWrites /\ lastSent' \in Time
    BY <1>0, <2>1, RotationAssumption
  <2>3. sinceSent' \in 0 .. MinGap
    BY <2>1, RotationAssumption
  <2> QED
    BY <1>0, <1>6, <2>2, <2>3 DEF Written, TypeInv, TypeOK
<1>7. CASE RefreshTimer
  <2>1. calls' \in 0 .. MaxCalls /\ WaitOK'
    BY <1>0, <1>7, <1>b, RotationAssumption DEF RefreshTimer, Ask, Timer
  <2> QED
    BY <1>0, <1>7, <2>1 DEF RefreshTimer, TypeInv, TypeOK
<1>8. CASE WorkTimer
  <2>1. WaitOK' /\ UNCHANGED <<phase, lead, tip, calls, lastTemplateHeight, current,
                              lastSent, sinceSent>>
    BY <1>8, <1>b DEF WorkTimer, Timer
  <2>2. CASE UNCHANGED <<versionCounter, writing, jobs, last>>
    BY <1>0, <2>1, <2>2 DEF TypeInv, TypeOK
  <2>3. CASE \E t \in current : SendJob(t, t.timestamp, FALSE, FALSE)
    <3>1. PICK t \in current : SendJob(t, t.timestamp, FALSE, FALSE)
      BY <2>3
    <3>2. t \in Template /\ t.timestamp \in Nat
      BY <1>0 DEF Template
    <3>3. /\ versionCounter' \in 0 .. Rotations - 1
          /\ writing' \in Seq(Time) /\ Len(writing') <= MaxWrites
          /\ jobs' \subseteq Job
          /\ last' \subseteq LastJob /\ Cardinality(last') <= 1
          /\ \E l \in LastJob : last' = {l}
      BY <3>1, <3>2, SendType
    <3> QED
      BY <1>0, <2>1, <3>3 DEF TypeInv, TypeOK
  <2> QED
    BY <1>8, <2>2, <2>3 DEF WorkTimer
<1>9. CASE DifficultyTimer
  <2>1. WaitOK' /\ UNCHANGED <<phase, lead, tip, calls, lastTemplateHeight, current,
                              lastSent, sinceSent>>
    BY <1>9, <1>b DEF DifficultyTimer, Timer
  <2>2. CASE UNCHANGED <<versionCounter, writing, jobs, last>>
    BY <1>0, <2>1, <2>2 DEF TypeInv, TypeOK
  <2>3. CASE \E t \in current : SendJob(t, RetargetTime(t), TRUE, TRUE)
    <3>1. PICK t \in current : SendJob(t, RetargetTime(t), TRUE, TRUE)
      BY <2>3
    <3>2. t \in Template /\ RetargetTime(t) \in Nat
      BY <1>0 DEF Template, RetargetTime, Later, Time
    <3>3. /\ versionCounter' \in 0 .. Rotations - 1
          /\ writing' \in Seq(Time) /\ Len(writing') <= MaxWrites
          /\ jobs' \subseteq Job
          /\ last' \subseteq LastJob /\ Cardinality(last') <= 1
          /\ \E l \in LastJob : last' = {l}
      BY <3>1, <3>2, SendType
    <3> QED
      BY <1>0, <2>1, <3>3 DEF TypeInv, TypeOK
  <2> QED
    BY <1>9, <2>2, <2>3 DEF DifficultyTimer
<1>10. CASE UNCHANGED vars
  BY <1>0, <1>10 DEF vars, TypeInv, TypeOK
<1> QED
  BY <1>1, <1>2, <1>3, <1>4, <1>5, <1>6, <1>7, <1>8, <1>9, <1>10 DEF Next

\* The counter stays below the number of rotations, at most one template is cached
\* and the numbers stay within their bounds.
THEOREM TypeCorrect == Spec => []TypeOK
<1>1. TypeInv => TypeOK
  BY DEF TypeInv
<1> QED
  BY <1>1, Starting, TypeStep, PTL DEF Spec

-----------------------------------------------------------------------------
(* Why the rotations suffice: the timers and the calls in flight bound how  *)
(* many jobs can still be sent before the time of a job is past.            *)

\* The version of the n-th job since the rotation started.
Version(n) == (BaseVersion \ PoolBits) \cup RotationBits(n)

\* k jobs have been sent since j, none of which started the rotation again.
SentAgo(j, k) ==
    \E n \in 0 .. Rotations - 1 : j.version = Version(n) /\ versionCounter = Round(n + 1 + k)

\* Ticks until j is older than now, for a time that is now or a second ahead.
Left(j) == (IF j.ntime = 0 THEN 0 ELSE TicksPerSecond) + TicksPerSecond - 1 - phase

\* How often a timer can fire within n ticks, up to four times.
Fires(timer, n) ==
    IF n < wait[timer] THEN 0
    ELSE IF n < wait[timer] + Period[timer] THEN 1
    ELSE IF n < wait[timer] + 2 * Period[timer] THEN 2
    ELSE IF n < wait[timer] + 3 * Period[timer] THEN 3
    ELSE 4

\* How many more jobs of the template of j can be sent until j is older than now: by the
\* work timer, by calls in flight and by calls of the refresh timer.
Budget(j) ==
    Fires("work", Left(j))
    + IF j.template.tip = tip THEN calls + Fires("refresh", Left(j)) ELSE 0

Current(j) == \E t \in current : t.tip = j.template.tip

\* The jobs sent since j, of which there were some at least, and those that can still
\* be sent are fewer than the rotations.
InTime(j, least) ==
    \E k \in least .. Rotations - 1 : SentAgo(j, k) /\ k + Budget(j) <= Rotations - 1

\* The rotation started again, or it is known how many jobs were sent since j: turns says
\* so when the time is ahead; otherwise it matters while the template is in use.
InTurn(j, least) ==
    ~j.restarted =>
        IF j.ahead
        THEN least <= j.turns /\ (j.turns < Rotations => SentAgo(j, j.turns))
        ELSE Current(j) => InTime(j, least)

\* No job is for a later tip than the cached template, nor that for a later one than
\* the node's.
TipsInv ==
    /\ \A t \in current : t.tip <= tip /\ t.version = BaseVersion
    /\ \A j \in Before : \E t \in current : j.template.tip <= t.tip
    /\ \A l \in last : Current(l.job)

NearInv == \A j \in Before : j.ahead \/ j.ntime \in {0, 1}

LastInv ==
    \A l \in last : ~l.job.restarted /\ SentAgo(l.job, 0) /\ InTurn(l.job, 0)

RotationInv ==
    /\ TipsInv
    /\ NearInv
    /\ LastInv
    /\ \A j \in jobs : InTurn(j, 1)

\* A job has at most two seconds: four turns of the work timer, two of the refresh timer.
RotationsSuffice == MaxCalls + 6 < Rotations

\* The assumptions on the periods, timer by timer.
LEMMA Rates ==
    /\ TicksPerSecond \in Nat \ {0} /\ MaxCalls \in Nat
    /\ \A timer \in Timer : Period[timer] \in Nat \ {0}
    /\ 2 * Period["work"] >= TicksPerSecond
    /\ Period["refresh"] >= TicksPerSecond
    /\ Period["difficulty"] >= 2 * TicksPerSecond
BY RotationAssumption, PeriodsAssumption DEF Timer, Period

\* What is known of the numbers in a state.
LEMMA Numbers ==
    ASSUME TypeInv
    PROVE  /\ phase \in Nat /\ phase < TicksPerSecond
           /\ tip \in Nat /\ tip <= MaxTip /\ lead \in Nat
           /\ calls \in Nat /\ calls <= MaxCalls
           /\ \A timer \in Timer : wait[timer] \in Nat
BY RotationAssumption DEF TypeInv, TypeOK, Tip

\* The same in the next state.
LEMMA NumbersThen ==
    (TypeInv => /\ tip \in Nat /\ calls \in Nat /\ \A timer \in Timer : wait[timer] \in Nat)'
<1>1. TypeInv => /\ tip \in Nat /\ calls \in Nat /\ \A timer \in Timer : wait[timer] \in Nat
  BY Numbers
<1> QED
  BY <1>1, PTL

\* Tips can be compared.
LEMMA TipsAreNumbers ==
    /\ \A t \in Template : t.tip \in Nat
    /\ \A j \in Job : j.template.tip \in Nat
<1>1. Tip \subseteq Nat
  BY RotationAssumption DEF Tip
<1>2. \A t \in Template : t.tip \in Nat
  BY <1>1 DEF Template
<1> QED
  BY <1>2 DEF Job

\* Fires counts from none to four.
LEMMA FiresType == \A timer, n : Fires(timer, n) \in 0 .. 4
BY DEF Fires

\* The same in the next state.
LEMMA FiresThenType == \A timer, n : Fires(timer, n)' \in 0 .. 4
BY DEF Fires

\* The ticks until the time of a job is past are a number.
LEMMA LeftType ==
    ASSUME TypeInv, NEW j
    PROVE  Left(j) \in Nat /\ Left(j) < 2 * TicksPerSecond
BY Rates DEF TypeInv, TypeOK, Left

\* A budget is a number.
LEMMA BudgetType == ASSUME TypeInv, NEW j PROVE Budget(j) \in Nat
<1>1. calls \in Nat
  BY RotationAssumption DEF TypeInv, TypeOK
<1> QED
  BY <1>1, FiresType DEF Budget

\* No budget is more than the calls and six more jobs.
LEMMA FullBudget ==
    ASSUME TypeInv, NEW j PROVE Budget(j) <= MaxCalls + 6
<1>1. calls \in Nat /\ calls <= MaxCalls
  BY RotationAssumption DEF TypeInv, TypeOK
<1>2. Fires("refresh", Left(j)) <= 2
  <2>1. wait["refresh"] \in Nat
    BY DEF TypeInv, Timer
  <2>2. Period["refresh"] \in Nat
    BY Rates DEF Timer
  <2> QED
    BY <2>1, <2>2, LeftType, Rates DEF Fires
<1>3. Fires("work", Left(j)) \in 0 .. 4 /\ Fires("refresh", Left(j)) \in 0 .. 4
  BY FiresType
<1> QED
  BY <1>1, <1>2, <1>3, Rates DEF Budget

\* Both facts about budgets, for all jobs at once.
LEMMA BudgetNat == TypeInv => \A j : Budget(j) \in Nat /\ Budget(j) <= MaxCalls + 6
BY BudgetType, FullBudget

\* The same in the next state.
LEMMA BudgetThen == (TypeInv => \A j : Budget(j) \in Nat /\ Budget(j) <= MaxCalls + 6)'
BY BudgetNat, PTL

\* The two cases of a budget, now and in the next state.
LEMMA BudgetIs ==
    ASSUME NEW j
    PROVE  /\ j.template.tip = tip =>
                Budget(j) = Fires("work", Left(j)) + (calls + Fires("refresh", Left(j)))
           /\ j.template.tip # tip => Budget(j) = Fires("work", Left(j)) + 0
BY DEF Budget

\* The same in the next state.
LEMMA BudgetThenIs ==
    ASSUME NEW j
    PROVE  /\ j.template.tip = tip' =>
                Budget(j)' = Fires("work", Left(j))' + (calls' + Fires("refresh", Left(j))')
           /\ j.template.tip # tip' => Budget(j)' = Fires("work", Left(j))' + 0
BY DEF Budget

\* When a tick passes, fewer ticks are left, and the timer does not fire more often.
LEMMA FiresTick ==
    ASSUME TypeInv, NEW timer \in Timer, NEW n \in Nat, n > 0, Wear
    PROVE  Fires(timer, n - 1)' <= Fires(timer, n)
<1>1. wait[timer] \in Nat /\ Period[timer] \in Nat
  BY Rates DEF TypeInv
<1>2. wait'[timer] = IF wait[timer] > 0 THEN wait[timer] - 1 ELSE 0
  BY <1>1 DEF Wear, Later
<1>3. Fires(timer, n - 1)' =
        IF n - 1 < wait'[timer] THEN 0
        ELSE IF n - 1 < wait'[timer] + Period[timer] THEN 1
        ELSE IF n - 1 < wait'[timer] + 2 * Period[timer] THEN 2
        ELSE IF n - 1 < wait'[timer] + 3 * Period[timer] THEN 3
        ELSE 4
  BY DEF Fires, Period
<1> QED
  BY <1>1, <1>2, <1>3 DEF Fires

\* A timer that is due fires once less in the time that is left.
LEMMA FiresDue ==
    ASSUME TypeInv, NEW timer \in {"work", "refresh"}, NEW n \in Nat, n < 2 * TicksPerSecond,
           Due(timer)
    PROVE  Fires(timer, n)' = Fires(timer, n) - 1
<1>1. wait[timer] = 0 /\ wait'[timer] = Period[timer]
  BY DEF Due, TypeInv, Timer
<1>2. Period[timer] \in Nat /\ 2 * Period[timer] >= TicksPerSecond
  BY Rates DEF Timer
<1>3. Fires(timer, n)' =
        IF n < wait'[timer] THEN 0
        ELSE IF n < wait'[timer] + Period[timer] THEN 1
        ELSE IF n < wait'[timer] + 2 * Period[timer] THEN 2
        ELSE IF n < wait'[timer] + 3 * Period[timer] THEN 3
        ELSE 4
  BY DEF Fires, Period
<1> QED
  BY <1>1, <1>2, <1>3, Rates DEF Fires

\* The other timers do not notice.
LEMMA FiresOther ==
    ASSUME TypeInv, NEW timer \in Timer, Due(timer), NEW other \in Timer, other # timer, NEW n
    PROVE  Fires(other, n)' = Fires(other, n)
<1>1. wait'[other] = wait[other]
  BY DEF Due, TypeInv
<1> QED
  BY <1>1 DEF Fires, Period

\* InTurn in the next state.
LEMMA InTurnThen ==
    ASSUME NEW i, NEW least
    PROVE  InTurn(i, least)' <=>
             (~i.restarted =>
                IF i.ahead
                THEN least <= i.turns /\ (i.turns < Rotations => SentAgo(i, i.turns)')
                ELSE Current(i)' => \E k \in least .. Rotations - 1 :
                        SentAgo(i, k)' /\ k + Budget(i)' <= Rotations - 1)
<1> USE DEF Rotations
<1>1. InTime(i, least)' <=> \E k \in least .. Rotations - 1 :
                        SentAgo(i, k)' /\ k + Budget(i)' <= Rotations - 1
  BY DEF InTime
<1>2. InTurn(i, least)' <=>
             (~i.restarted =>
                IF i.ahead
                THEN least <= i.turns /\ (i.turns < Rotations => SentAgo(i, i.turns)')
                ELSE Current(i)' => InTime(i, least)')
  BY DEF InTurn
<1> QED
  BY <1>1, <1>2

\* The counter after one more job that does not start the rotation again.
LEMMA OneMore ==
    ASSUME NEW j, NEW i, NEW k \in Nat, k + 1 < Rotations, SentAgo(j, k), i.version = j.version,
           versionCounter' = Advanced(versionCounter)
    PROVE  SentAgo(i, k + 1)'
<1>1. PICK n \in 0 .. Rotations - 1 : j.version = Version(n) /\ versionCounter = Round(n + 1 + k)
  BY DEF SentAgo
<1>2. Rotations \in Nat /\ n \in Nat
  BY RotationsAre
<1>3. versionCounter \in 0 .. Rotations - 1
  BY <1>1, <1>2 DEF Round
<1>4. versionCounter' = Round(Round(n + 1 + k) + 1)
  BY <1>1, <1>3, AdvancedIs
<1>5. versionCounter' = Round(n + 1 + (k + 1))
  BY <1>1, <1>2, <1>4 DEF Round
<1>6. i.version = Version(n)
  BY <1>1
<1> QED
  BY <1>5, <1>6 DEF SentAgo, Version, RotationBits, Round, Rotations, BaseVersion

\* Another job is sent: a job that was in turn stays so if its budget pays for it.
LEMMA TurnAfterSend ==
    ASSUME TypeInv, TypeInv', NEW t \in Template, NEW ntime \in Nat, NEW retarget \in BOOLEAN,
           SendJob(t, ntime, FALSE, retarget), NEW j \in Before, InTurn(j, 0),
           NEW i, i = Overtaken(j, FALSE),
           ~j.ahead => (Current(j)' => Current(j)) /\ (Current(j)' => Budget(j)' + 1 <= Budget(j))
    PROVE  InTurn(i, 1)'
<1>1. j \in Job
  BY BeforeAreJobs
<1>2. /\ i.template = j.template /\ i.ntime = j.ntime /\ i.version = j.version
      /\ i.ahead = j.ahead /\ i.restarted = j.restarted
  BY <1>1, OvertakenIs DEF Job
<1>2a. i.turns = IF j.ahead /\ j.turns < Rotations THEN j.turns + 1 ELSE j.turns
  BY <1>1, OvertakenIs DEF Job
<1>3. versionCounter' = Advanced(versionCounter)
  BY SendEffect
<1>4. j.turns \in Nat /\ j.turns <= Rotations /\ Rotations \in Nat
      /\ j.ahead \in BOOLEAN /\ j.restarted \in BOOLEAN
  BY <1>1, RotationsAre DEF Job
<1>5. CASE j.restarted
  BY <1>2, <1>5, InTurnThen
<1>6. CASE ~j.restarted /\ j.ahead
  <2>1. 1 <= i.turns
    <3>1. 1 <= Rotations
      BY RotationsAre
    <3>2. i.turns = IF j.turns < Rotations THEN j.turns + 1 ELSE j.turns
      BY <1>2a, <1>6
    <3>3. j.turns \in Nat /\ j.turns <= Rotations /\ Rotations \in Nat
      BY <1>4
    <3>4. \A a, b \in Nat : a <= b /\ 1 <= b => 1 <= IF a < b THEN a + 1 ELSE a
      OBVIOUS
    <3> QED
      BY <3>1, <3>2, <3>3, <3>4, Zenon
  <2>2. ASSUME i.turns < Rotations PROVE SentAgo(i, i.turns)'
    <3>1. j.turns + 1 < Rotations /\ i.turns = j.turns + 1
      BY <1>2a, <1>4, <1>6, <2>2
    <3>2. SentAgo(j, j.turns)
      BY <1>4, <1>6, <3>1 DEF InTurn
    <3> QED
      BY <1>2, <1>3, <1>4, <3>1, <3>2, OneMore
  <2> QED
    BY <1>2, <1>6, <2>1, <2>2, InTurnThen
<1>7. CASE ~j.restarted /\ ~j.ahead
  <2> SUFFICES ASSUME Current(i)'
               PROVE  \E k \in 1 .. Rotations - 1 :
                        SentAgo(i, k)' /\ k + Budget(i)' <= Rotations - 1
    BY <1>2, <1>7, InTurnThen
  <2>1. Current(j)' /\ Budget(i)' = Budget(j)'
    BY <1>2 DEF Current, Budget, Left
  <2>2. PICK k \in 0 .. Rotations - 1 : SentAgo(j, k) /\ k + Budget(j) <= Rotations - 1
    BY <1>7, <2>1 DEF InTurn, InTime
  <2>3. /\ Budget(i)' + 1 <= Budget(j) /\ Budget(j) \in Nat
        /\ Budget(j)' \in Nat /\ Budget(i)' \in Nat
    BY <1>7, <2>1, BudgetNat, BudgetThen
  <2> DEFINE q == k + 1
  <2>4. k \in Nat /\ k + 1 < Rotations /\ q \in 1 .. Rotations - 1
    <3>1. Budget(j) >= 1
      <4>1. \A a, b \in Nat : a + 1 <= b => b >= 1
        OBVIOUS
      <4> QED
        BY <2>3, <4>1, Zenon
    <3>2. k \in Nat /\ k + 1 < Rotations
      BY <1>4, <2>2, <2>3, <3>1
    <3> QED
      BY <1>4, <3>2
  <2>5. SentAgo(i, q)'
    BY <1>2, <1>3, <2>2, <2>4, OneMore
  <2>6. q + Budget(i)' <= Rotations - 1
    <3>1. \A a, b \in Nat : a + 1 <= b /\ k + b <= Rotations - 1 => q + a <= Rotations - 1
      BY <1>4, <2>4
    <3> QED
      BY <2>2, <2>3, <3>1, Zenon
  <2> QED
    BY <2>4, <2>5, <2>6
<1> QED
  BY <1>4, <1>5, <1>6, <1>7

\* The new job is in turn from the beginning.
LEMMA TurnOfNew ==
    ASSUME TypeInv, TypeInv', RotationsSuffice, NEW t \in Template, t.version = BaseVersion,
           NEW ntime \in Nat, NEW clear \in BOOLEAN, NEW retarget \in BOOLEAN,
           SendJob(t, ntime, clear, retarget), NEW j, j = JobSent(t, ntime, clear, retarget)
    PROVE  /\ ~j.restarted /\ j.template = t /\ j.ntime = ntime
           /\ j.ahead <=> ntime > IF retarget THEN 1 ELSE 0
           /\ SentAgo(j, 0)' /\ InTurn(j, 0)'
<1>1. /\ ~j.restarted /\ j.template = t /\ j.ntime = ntime /\ j.turns = 0
      /\ j.ahead <=> ntime > IF retarget THEN 1 ELSE 0
  BY DEF JobSent
<1>2. SentAgo(j, 0)'
  <2> DEFINE n == IF clear THEN 0 ELSE versionCounter
  <2>1. n \in 0 .. Rotations - 1
    BY RotationsAre DEF TypeInv, TypeOK
  <2>2. j.version = Version(n)
    BY DEF JobSent, Version
  <2>3. versionCounter' = Round(n + 1 + 0)
    <3>1. versionCounter' = Advanced(n)
      BY SendEffect
    <3>2. n \in Nat
      BY <2>1, RotationsAre
    <3> HIDE DEF n
    <3>3. n + 1 + 0 = n + 1
      BY <3>2
    <3> QED
      BY <2>1, <3>1, <3>3, AdvancedIs
  <2> HIDE DEF n
  <2>4. \E m \in 0 .. Rotations - 1 : j.version = Version(m) /\ versionCounter' = Round(m + 1 + 0)
    BY <2>1, <2>2, <2>3
  <2> QED
    BY <2>4 DEF SentAgo, Version, RotationBits, Round, Rotations, BaseVersion
<1>3. Budget(j)' <= MaxCalls + 6 /\ Budget(j)' \in Nat
  BY BudgetThen
<1> QED
  BY <1>1, <1>2, <1>3, RotationsAre, Rates, InTurnThen DEF RotationsSuffice

\* A job after which nothing is sent stays in turn while its budget does not grow.
LEMMA TurnKept ==
    ASSUME TypeInv, TypeInv', NEW j \in Job, NEW i, NEW least \in Nat, InTurn(j, least),
           i.version = j.version, i.ahead = j.ahead, i.restarted = j.restarted,
           i.turns = j.turns, versionCounter' = versionCounter,
           ~j.ahead => (Current(i)' => Current(j) /\ Budget(i)' <= Budget(j))
    PROVE  InTurn(i, least)'
<1>1. ASSUME NEW k, SentAgo(j, k) PROVE SentAgo(i, k)'
  BY <1>1 DEF SentAgo, Version, RotationBits, Round, Rotations, BaseVersion
<1>2. ASSUME ~j.restarted, j.ahead
      PROVE  least <= i.turns /\ (i.turns < Rotations => SentAgo(i, i.turns)')
  BY <1>1, <1>2 DEF InTurn
<1>3. ASSUME ~j.restarted, ~j.ahead, Current(i)'
      PROVE  \E k \in least .. Rotations - 1 :
                SentAgo(i, k)' /\ k + Budget(i)' <= Rotations - 1
  <2>1. PICK k \in least .. Rotations - 1 : SentAgo(j, k) /\ k + Budget(j) <= Rotations - 1
    BY <1>3 DEF InTurn, InTime
  <2>2. SentAgo(i, k)'
    BY <1>1, <2>1
  <2>3. k + Budget(i)' <= Rotations - 1
    <3>1. Budget(i)' \in Nat /\ Budget(j) \in Nat /\ Budget(i)' <= Budget(j)
      BY <1>3, BudgetNat, BudgetThen
    <3>2. Rotations \in Nat
      BY RotationsAre
    <3>3. \A a, b \in Nat : a <= b /\ k + b <= Rotations - 1 => k + a <= Rotations - 1
      BY <3>2
    <3> QED
      BY <2>1, <3>1, <3>3, Zenon
  <2> QED
    BY <2>1, <2>2, <2>3
<1> QED
  BY <1>2, <1>3, InTurnThen

\* Steps that send nothing and leave the jobs alone.
LEMMA QuietStep ==
    ASSUME TypeInv, TypeInv', RotationInv,
           UNCHANGED <<jobs, last, versionCounter, current>>, tip <= tip',
           \A j \in Before : Budget(j)' <= Budget(j)
    PROVE  RotationInv'
<1>1. Before' = Before
  BY DEF Before
<1>2. \A j : Current(j)' <=> Current(j)
  BY DEF Current
<1>3. TipsInv'
  <2>1. tip \in Nat /\ tip' \in Nat /\ \A t \in current : t.tip \in Nat
    BY Numbers, NumbersThen, TipsAreNumbers DEF TypeInv, TypeOK
  <2>2. \A t \in current' : t.tip <= tip' /\ t.version = BaseVersion
    BY <2>1 DEF RotationInv, TipsInv
  <2>3. \A j \in Before' : \E t \in current' : j.template.tip <= t.tip
    BY <1>1 DEF RotationInv, TipsInv
  <2>4. \A l \in last' : Current(l.job)'
    BY <1>2 DEF RotationInv, TipsInv
  <2> QED
    BY <2>2, <2>3, <2>4 DEF TipsInv, BaseVersion
<1>4. NearInv'
  BY <1>1 DEF RotationInv, NearInv
<1>5. ASSUME NEW j \in Before, NEW least \in Nat, InTurn(j, least)
      PROVE  InTurn(j, least)'
  <2>1. j \in Job
    BY BeforeAreJobs
  <2> QED
    BY <1>2, <1>5, <2>1, TurnKept
<1>6. LastInv'
  <2> SUFFICES ASSUME NEW l \in last
               PROVE  ~l.job.restarted /\ SentAgo(l.job, 0)' /\ InTurn(l.job, 0)'
    BY DEF LastInv
  <2>1. l.job \in Before
    BY DEF Before
  <2>2. ~l.job.restarted /\ SentAgo(l.job, 0) /\ InTurn(l.job, 0)
    BY DEF RotationInv, LastInv
  <2>3. SentAgo(l.job, 0)'
    BY <2>2 DEF SentAgo, Version, RotationBits, Round, Rotations, BaseVersion
  <2> QED
    BY <1>5, <2>1, <2>2, <2>3
<1>7. \A j \in jobs' : InTurn(j, 1)'
  BY <1>5 DEF Before, RotationInv
<1> QED
  BY <1>3, <1>4, <1>6, <1>7 DEF RotationInv

\* Steps that send a job.
LEMMA SendStep ==
    ASSUME TypeInv, TypeInv', RotationInv, RotationsSuffice,
           NEW t \in Template, NEW ntime \in Nat, NEW clear \in BOOLEAN, NEW retarget \in BOOLEAN,
           SendJob(t, ntime, clear, retarget), t \in current',
           \A c \in current' : c.tip <= tip' /\ c.version = BaseVersion,
           \A j \in Before : \E c \in current' : j.template.tip <= c.tip,
           ~clear => \A j \in Before :
              ~j.ahead => /\ Current(j)' => Current(j)
                          /\ Current(j)' => Budget(j)' + 1 <= Budget(j)
    PROVE  RotationInv'
<1>1. PICK job : job = JobSent(t, ntime, clear, retarget)
  OBVIOUS
<1>2. /\ last' = {[job |-> job, retarget |-> retarget, hasty |-> writing # <<>>]}
      /\ jobs' = {Overtaken(j, clear) : j \in Before}
  BY <1>1, SendEffect
<1>3. Before' = jobs' \cup {job}
  BY <1>2 DEF Before
<1>4. t.version = BaseVersion
  OBVIOUS
<1>5. /\ ~job.restarted /\ job.template = t /\ job.ntime = ntime
      /\ job.ahead <=> ntime > IF retarget THEN 1 ELSE 0
      /\ SentAgo(job, 0)' /\ InTurn(job, 0)'
  BY <1>1, <1>4, TurnOfNew
<1>6. ASSUME NEW j \in Before
      PROVE  /\ j \in Job
             /\ Overtaken(j, clear).template = j.template
             /\ Overtaken(j, clear).ntime = j.ntime
             /\ Overtaken(j, clear).ahead = j.ahead
             /\ Overtaken(j, clear).restarted = (j.restarted \/ clear)
  BY BeforeAreJobs, OvertakenIs
<1>7. TipsInv'
  <2>1. \A j \in Before' : \E c \in current' : j.template.tip <= c.tip
    <3> SUFFICES ASSUME NEW i \in Before' PROVE \E c \in current' : i.template.tip <= c.tip
      OBVIOUS
    <3>1. CASE i = job
      <4>1. t.tip <= t.tip
        BY DEF Template, Tip
      <4> QED
        BY <1>5, <3>1, <4>1
    <3>2. CASE \E j \in Before : i = Overtaken(j, clear)
      BY <1>6, <3>2
    <3> QED
      BY <1>2, <1>3, <3>1, <3>2
  <2>2. Current(job)'
    BY <1>5 DEF Current
  <2>3. \A l \in last' : Current(l.job)'
    BY <1>2, <2>2
  <2> QED
    BY <2>1, <2>3 DEF TipsInv, BaseVersion
<1>8. NearInv'
  <2> SUFFICES ASSUME NEW i \in Before' PROVE i.ahead \/ i.ntime \in {0, 1}
    BY DEF NearInv
  <2>1. CASE i = job
    BY <1>5, <2>1
  <2>2. CASE \E j \in Before : i = Overtaken(j, clear)
    BY <1>6, <2>2 DEF RotationInv, NearInv
  <2> QED
    BY <1>2, <1>3, <2>1, <2>2
<1>9. LastInv'
  BY <1>2, <1>5 DEF LastInv
<1>10. ASSUME NEW i \in jobs' PROVE InTurn(i, 1)'
  <2>1. PICK j \in Before : i = Overtaken(j, clear)
    BY <1>2
  <2>2. CASE clear
    <3>1. i.restarted
      BY <1>6, <2>1, <2>2
    <3> QED
      BY <3>1, InTurnThen
  <2>3. CASE ~clear
    <3>1. InTurn(j, 0)
      <4>1. j \in jobs \/ \E l \in last : j = l.job
        BY DEF Before
      <4>2. InTurn(j, 1) => InTurn(j, 0)
        BY <1>6, RotationsAre DEF InTurn, InTime, Job
      <4> QED
        BY <4>1, <4>2 DEF RotationInv, LastInv
    <3>2. clear = FALSE
      BY <2>3
    <3>3. SendJob(t, ntime, FALSE, retarget) /\ i = Overtaken(j, FALSE)
      BY <2>1, <3>2
    <3> QED
      BY <2>3, <3>1, <3>3, TurnAfterSend
  <2> QED
    BY <2>2, <2>3
<1> QED
  BY <1>7, <1>8, <1>9, <1>10 DEF RotationInv

\* The rotation is in order at the start.
LEMMA RotationStarts == Init => RotationInv
BY DEF Init, RotationInv, TipsInv, NearInv, LastInv, Before

\* A tick is taken from what is left, and the budget does not grow.
LEMMA BudgetTick ==
    ASSUME TypeInv, Wear, NEW j, NEW i, i.template.tip = j.template.tip,
           Left(j) > 0, Left(i)' = Left(j) - 1
    PROVE  Budget(i)' <= Budget(j)
<1>1. PICK n \in Nat : n = Left(j)
  BY LeftType
<1>2. n > 0 /\ Left(i)' = n - 1
  BY <1>1
<1>3. /\ Fires("work", n - 1)' <= Fires("work", n)
      /\ Fires("refresh", n - 1)' <= Fires("refresh", n)
  BY <1>2, FiresTick DEF Timer
<1>4. /\ Fires("work", Left(i))' = Fires("work", n - 1)'
      /\ Fires("refresh", Left(i))' = Fires("refresh", n - 1)'
  BY <1>2 DEF Fires
<1>5. tip' = tip /\ calls' = calls
  BY DEF Wear
<1>6. /\ Fires("work", n) \in 0 .. 4 /\ Fires("refresh", n) \in 0 .. 4
      /\ Fires("work", n - 1)' \in 0 .. 4 /\ Fires("refresh", n - 1)' \in 0 .. 4
  BY FiresType, FiresThenType
<1>7. CASE j.template.tip = tip
  <2>1. Budget(j) = Fires("work", n) + (calls + Fires("refresh", n))
    BY <1>1, <1>7, BudgetIs
  <2>2. Budget(i)' = Fires("work", n - 1)' + (calls + Fires("refresh", n - 1)')
    BY <1>4, <1>5, <1>7, BudgetThenIs
  <2> QED
    BY <1>3, <1>6, <2>1, <2>2, Numbers
<1>8. CASE j.template.tip # tip
  <2>1. Budget(j) = Fires("work", n) + 0
    BY <1>1, <1>8, BudgetIs
  <2>2. Budget(i)' = Fires("work", n - 1)' + 0
    BY <1>4, <1>5, <1>8, BudgetThenIs
  <2> QED
    BY <1>3, <1>6, <2>1, <2>2
<1> QED
  BY <1>7, <1>8

\* A tick keeps the rotation in order.
LEMMA TickTurns == ASSUME TypeInv, TypeInv', RotationInv, Tick PROVE RotationInv'
<1>1. ASSUME NEW j \in Before PROVE Budget(j)' <= Budget(j)
  <2>1. Left(j) > 0 /\ Left(j)' = Left(j) - 1
    BY Rates, Numbers DEF Tick, Left
  <2> QED
    BY <2>1, BudgetTick DEF Tick
<1>2. tip <= tip' /\ UNCHANGED <<jobs, last, versionCounter, current>>
  BY Numbers DEF Tick, Wear
<1> QED
  BY <1>1, <1>2, QuietStep

\* So does the turn of a second, after which all jobs are older.
LEMMA SecondTurns == ASSUME TypeInv, TypeInv', RotationInv, NextSecond PROVE RotationInv'
<1>1. versionCounter' = versionCounter /\ tip' = tip /\ Wear
  BY DEF NextSecond, Wear
<1>2. ASSUME NEW j \in Before, j.ntime > 0
      PROVE  /\ j \in Job
             /\ Older(j).template.tip = j.template.tip
             /\ Older(j).ntime = j.ntime - 1
             /\ Older(j).version = j.version
             /\ Older(j).ahead = j.ahead
             /\ Older(j).restarted = j.restarted
             /\ Older(j).turns = j.turns
  BY <1>2, BeforeAreJobs, OlderIs
<1>3. /\ jobs' = {Older(j) : j \in {k \in jobs : k.ntime > 0}}
      /\ last' = {[l EXCEPT !.job = Older(l.job)] : l \in {k \in last : k.job.ntime > 0}}
      /\ current' = {AgedTemplate(t) : t \in current}
  BY DEF NextSecond
<1>4. ASSUME NEW l \in last'
      PROVE  \E k \in last : k.job.ntime > 0 /\ k.job \in Before /\ l.job = Older(k.job)
  <2>1. PICK k \in last : k.job.ntime > 0 /\ l = [k EXCEPT !.job = Older(k.job)]
    BY <1>3, <1>4
  <2>2. k \in LastJob
    BY DEF TypeInv, TypeOK
  <2> QED
    BY <2>1, <2>2 DEF LastJob, Before
<1>5. ASSUME NEW i \in Before'
      PROVE  \E j \in Before : j.ntime > 0 /\ i = Older(j)
  BY <1>3, <1>4 DEF Before
<1>6. ASSUME NEW t \in current
      PROVE  AgedTemplate(t) \in current' /\ AgedTemplate(t).tip = t.tip
             /\ AgedTemplate(t).version = t.version
  BY <1>3, AgedType DEF TypeInv, TypeOK
<1>7. ASSUME NEW j \in Before, j.ntime > 0 PROVE Current(Older(j))' <=> Current(j)
  BY <1>2, <1>3, <1>6, <1>7 DEF Current
<1>8. TipsInv'
  <2>1. \A t \in current' : t.tip <= tip' /\ t.version = BaseVersion
    BY <1>1, <1>3, <1>6 DEF RotationInv, TipsInv
  <2>2. \A i \in Before' : \E t \in current' : i.template.tip <= t.tip
    <3> SUFFICES ASSUME NEW i \in Before' PROVE \E t \in current' : i.template.tip <= t.tip
      OBVIOUS
    <3>1. PICK j \in Before : j.ntime > 0 /\ i = Older(j)
      BY <1>5
    <3>2. PICK t \in current : j.template.tip <= t.tip
      BY DEF RotationInv, TipsInv
    <3>3. i.template.tip <= AgedTemplate(t).tip
      BY <1>2, <1>6, <3>1, <3>2
    <3> QED
      BY <1>6, <3>3
  <2>3. \A l \in last' : Current(l.job)'
    BY <1>4, <1>7 DEF RotationInv, TipsInv
  <2> QED
    BY <2>1, <2>2, <2>3 DEF TipsInv, BaseVersion
<1>9. NearInv'
  <2> SUFFICES ASSUME NEW i \in Before' PROVE i.ahead \/ i.ntime \in {0, 1}
    BY DEF NearInv
  <2>1. PICK j \in Before : j.ntime > 0 /\ i = Older(j)
    BY <1>5
  <2>2. j.ahead \/ j.ntime \in {0, 1}
    BY DEF RotationInv, NearInv
  <2> QED
    BY <1>2, <2>1, <2>2
<1>10. ASSUME NEW j \in Before, j.ntime > 0, NEW least \in Nat, InTurn(j, least)
       PROVE  InTurn(Older(j), least)'
  <2>1. PICK i : i = Older(j)
    OBVIOUS
  <2>2. ~j.ahead => (Current(i)' => Current(j))
    BY <1>7, <1>10, <2>1
  <2>3. ~j.ahead => Budget(i)' <= Budget(j)
    <3> SUFFICES ASSUME ~j.ahead PROVE Budget(i)' <= Budget(j)
      OBVIOUS
    <3>1. j.ntime = 1 /\ i.ntime = 0
      <4>1. j.ntime \in {0, 1}
        BY DEF RotationInv, NearInv
      <4> QED
        BY <1>2, <1>10, <2>1, <4>1
    <3>2. Left(j) > 0 /\ Left(i)' = Left(j) - 1
      BY <3>1, Rates, Numbers DEF NextSecond, Left
    <3> QED
      BY <1>1, <1>2, <1>10, <2>1, <3>2, BudgetTick
  <2>4. j \in Job /\ i.version = j.version /\ i.ahead = j.ahead /\ i.restarted = j.restarted
        /\ i.turns = j.turns
    BY <1>2, <1>10, <2>1
  <2>5. InTurn(i, least)'
    BY <1>1, <1>10, <2>2, <2>3, <2>4, TurnKept
  <2> QED
    BY <2>1, <2>5
<1>11. LastInv'
  <2> SUFFICES ASSUME NEW l \in last'
               PROVE  ~l.job.restarted /\ SentAgo(l.job, 0)' /\ InTurn(l.job, 0)'
    BY DEF LastInv
  <2>1. PICK k \in last : k.job.ntime > 0 /\ k.job \in Before /\ l.job = Older(k.job)
    BY <1>4
  <2>2. ~k.job.restarted /\ SentAgo(k.job, 0) /\ InTurn(k.job, 0)
    BY DEF RotationInv, LastInv
  <2>3. SentAgo(l.job, 0)'
    BY <1>1, <1>2, <2>1, <2>2
       DEF SentAgo, Version, RotationBits, Round, Rotations, BaseVersion
  <2>4. InTurn(l.job, 0)'
    BY <1>10, <2>1, <2>2
  <2> QED
    BY <1>2, <2>1, <2>2, <2>3, <2>4
<1>12. \A i \in jobs' : InTurn(i, 1)'
  BY <1>3, <1>10 DEF Before, RotationInv
<1> QED
  BY <1>8, <1>9, <1>11, <1>12 DEF RotationInv

\* After a block no answer is for the template of a job that has been sent.
LEMMA BlockTurns == ASSUME TypeInv, TypeInv', RotationInv, NewBlock PROVE RotationInv'
<1>1. ASSUME NEW j \in Before PROVE Budget(j)' <= Budget(j)
  <2>1. j.template.tip # tip'
    <3>1. PICK t \in current : j.template.tip <= t.tip /\ t.tip <= tip
      BY DEF RotationInv, TipsInv
    <3>2. t \in Template /\ j \in Job
      BY BeforeAreJobs DEF TypeInv, TypeOK
    <3>3. t.tip \in Nat /\ j.template.tip \in Nat /\ tip \in Nat /\ tip' = tip + 1
      BY <3>2, Numbers, TipsAreNumbers DEF NewBlock
    <3> QED
      BY <3>1, <3>3
  <2>2. Fires("work", Left(j))' = Fires("work", Left(j))
    BY DEF NewBlock, Fires, Left, Period
  <2>3. Budget(j)' = Fires("work", Left(j)) + 0
    BY <2>1, <2>2, BudgetThenIs
  <2>4. Fires("work", Left(j)) \in 0 .. 4 /\ Fires("refresh", Left(j)) \in 0 .. 4
    BY FiresType
  <2>5. CASE j.template.tip = tip
    <3>1. Budget(j) = Fires("work", Left(j)) + (calls + Fires("refresh", Left(j)))
      BY <2>5, BudgetIs
    <3> QED
      BY <2>3, <2>4, <3>1, Numbers
  <2>6. CASE j.template.tip # tip
    <3>1. Budget(j) = Fires("work", Left(j)) + 0
      BY <2>6, BudgetIs
    <3> QED
      BY <2>3, <2>4, <3>1
  <2> QED
    BY <2>5, <2>6
<1>2. tip <= tip' /\ UNCHANGED <<jobs, last, versionCounter, current>>
  BY Numbers DEF NewBlock
<1> QED
  BY <1>1, <1>2, QuietStep

\* Steps that change nothing a budget depends on.
LEMMA IdleTurns ==
    ASSUME TypeInv, TypeInv', RotationInv,
           UNCHANGED <<phase, tip, calls, wait, current, versionCounter, jobs, last>>
    PROVE  RotationInv'
<1>1. ASSUME NEW j \in Before PROVE Budget(j)' <= Budget(j)
  <2>1. Budget(j)' = Budget(j)
    BY DEF Budget, Fires, Left, Period
  <2>2. Budget(j) \in Nat
    BY BudgetNat
  <2>3. \A a \in Nat : a <= a
    OBVIOUS
  <2> QED
    BY <2>1, <2>2, <2>3, Zenon
<1>2. tip <= tip'
  BY Numbers
<1> QED
  BY <1>1, <1>2, QuietStep

\* What becomes of the two counts of a budget when a timer fires.
LEMMA CountsWhenDue ==
    ASSUME TypeInv, NEW timer \in Timer, Due(timer), phase' = phase, NEW j
    PROVE  /\ timer = "work" => Fires("work", Left(j))' = Fires("work", Left(j)) - 1
           /\ timer # "work" => Fires("work", Left(j))' = Fires("work", Left(j))
           /\ timer = "refresh" => Fires("refresh", Left(j))' = Fires("refresh", Left(j)) - 1
           /\ timer # "refresh" => Fires("refresh", Left(j))' = Fires("refresh", Left(j))
<1>1. PICK n \in Nat : n = Left(j) /\ n < 2 * TicksPerSecond
  BY LeftType
<1>2. Left(j)' = n
  BY <1>1 DEF Left
<1>3. \A other \in Timer : Fires(other, Left(j))' = Fires(other, n)'
  BY <1>2 DEF Fires
<1>4. \A other \in Timer : other # timer => Fires(other, n)' = Fires(other, n)
  BY FiresOther
<1>5. timer \in {"work", "refresh"} => Fires(timer, n)' = Fires(timer, n) - 1
  BY <1>1, FiresDue
<1> QED
  BY <1>1, <1>3, <1>4, <1>5 DEF Timer

\* The four counts of two budgets are numbers.
LEMMA Counts ==
    ASSUME TypeInv, TypeInv', NEW j
    PROVE  /\ Fires("work", Left(j)) \in Nat /\ Fires("work", Left(j))' \in Nat
           /\ Fires("refresh", Left(j)) \in Nat /\ Fires("refresh", Left(j))' \in Nat
           /\ calls \in Nat /\ calls' \in Nat
<1>1. /\ Fires("work", Left(j)) \in 0 .. 4 /\ Fires("refresh", Left(j)) \in 0 .. 4
      /\ Fires("work", Left(j))' \in 0 .. 4 /\ Fires("refresh", Left(j))' \in 0 .. 4
  BY FiresType DEF Fires
<1> QED
  BY <1>1, Numbers, NumbersThen

\* A call takes the place of a turn of the refresh timer.
LEMMA RefreshTurns == ASSUME TypeInv, TypeInv', RotationInv, RefreshTimer PROVE RotationInv'
<1>1. ASSUME NEW j \in Before PROVE Budget(j)' <= Budget(j)
  <2>1. /\ Fires("work", Left(j))' = Fires("work", Left(j))
        /\ Fires("refresh", Left(j))' = Fires("refresh", Left(j)) - 1
    <3>1. "refresh" \in Timer /\ "refresh" # "work" /\ Due("refresh") /\ phase' = phase
      BY DEF RefreshTimer, Timer
    <3> QED
      BY <3>1, CountsWhenDue
  <2>2. calls' = calls + 1 /\ tip' = tip
    BY DEF RefreshTimer, Ask
  <2>3. CASE j.template.tip = tip
    <3>1. /\ Budget(j) = Fires("work", Left(j)) + (calls + Fires("refresh", Left(j)))
          /\ Budget(j)' = Fires("work", Left(j))' + (calls' + Fires("refresh", Left(j))')
      BY <2>2, <2>3, BudgetIs, BudgetThenIs
    <3> QED
      BY <2>1, <2>2, <3>1, Counts
  <2>4. CASE j.template.tip # tip
    <3>1. /\ Budget(j) = Fires("work", Left(j)) + 0
          /\ Budget(j)' = Fires("work", Left(j))' + 0
      BY <2>2, <2>4, BudgetIs, BudgetThenIs
    <3> QED
      BY <2>1, <3>1, Counts
  <2> QED
    BY <2>3, <2>4
<1>2. tip <= tip' /\ UNCHANGED <<jobs, last, versionCounter, current>>
  BY Numbers DEF RefreshTimer
<1> QED
  BY <1>1, <1>2, QuietStep

\* An answer takes one of the calls.
LEMMA ResumeTurns ==
    ASSUME TypeInv, TypeInv', RotationInv, RotationsSuffice, Resume PROVE RotationInv'
<1>1. PICK t : t = [tip |-> tip, timestamp |-> lead, version |-> BaseVersion]
  OBVIOUS
<1>2. PICK clear \in BOOLEAN : clear = (lastTemplateHeight # tip)
  OBVIOUS
<1>3. current' = {t} /\ SendJob(t, lead, clear, FALSE)
  BY <1>1, <1>2 DEF Resume
<1>4. t \in Template /\ t.tip = tip /\ t.version = BaseVersion /\ lead \in Nat
  <2>1. tip \in Tip /\ lead \in Nat
    BY Numbers DEF TypeInv, TypeOK
  <2> QED
    BY <1>1, <2>1 DEF Template, BaseVersion
<1>5. calls' = calls - 1 /\ tip' = tip /\ UNCHANGED <<phase, wait>>
  BY DEF Resume
<1>6. tip \in Nat
  BY Numbers
<1>7. ASSUME NEW j \in Before PROVE j.template.tip <= tip /\ j.template.tip \in Nat
  <2>1. PICK c \in current : j.template.tip <= c.tip /\ c.tip <= tip
    BY DEF RotationInv, TipsInv
  <2>2. c \in Template /\ j \in Job
    BY BeforeAreJobs DEF TypeInv, TypeOK
  <2> QED
    BY <1>6, <2>1, <2>2, TipsAreNumbers
<1>8. ASSUME NEW j \in Before, Current(j)' PROVE Current(j) /\ Budget(j)' + 1 <= Budget(j)
  <2>1. j.template.tip = tip
    BY <1>3, <1>4, <1>8 DEF Current
  <2>2. Current(j)
    <3>1. PICK c \in current : j.template.tip <= c.tip /\ c.tip <= tip
      BY DEF RotationInv, TipsInv
    <3>2. c.tip \in Nat
      BY TipsAreNumbers DEF TypeInv, TypeOK
    <3>3. c.tip = j.template.tip
      BY <1>6, <2>1, <3>1, <3>2
    <3> QED
      BY <3>3 DEF Current
  <2>3. /\ Fires("work", Left(j))' = Fires("work", Left(j))
        /\ Fires("refresh", Left(j))' = Fires("refresh", Left(j))
    BY <1>5 DEF Fires, Left, Period
  <2>4. /\ Budget(j) = Fires("work", Left(j)) + (calls + Fires("refresh", Left(j)))
        /\ Budget(j)' = Fires("work", Left(j))' + (calls' + Fires("refresh", Left(j))')
    BY <1>5, <2>1, BudgetIs, BudgetThenIs
  <2>5. Budget(j)' + 1 <= Budget(j)
    BY <1>5, <2>3, <2>4, Counts
  <2> QED
    BY <2>2, <2>5
<1>9. \A c \in current' : c.tip <= tip' /\ c.version = BaseVersion
  BY <1>3, <1>4, <1>5, <1>6
<1>10. \A j \in Before : \E c \in current' : j.template.tip <= c.tip
  BY <1>3, <1>4, <1>7
<1>11. t \in current' /\ FALSE \in BOOLEAN
  BY <1>3
<1>12. ~clear => \A j \in Before :
              ~j.ahead => /\ Current(j)' => Current(j)
                          /\ Current(j)' => Budget(j)' + 1 <= Budget(j)
  BY <1>8
<1> QED
  BY <1>3, <1>4, <1>9, <1>10, <1>11, <1>12, SendStep

\* A job of the work timer takes one of its turns.
LEMMA WorkTurns ==
    ASSUME TypeInv, TypeInv', RotationInv, RotationsSuffice, WorkTimer PROVE RotationInv'
<1>1. UNCHANGED <<phase, tip, calls, current>> /\ Due("work") /\ "work" \in Timer
  BY DEF WorkTimer, Timer
<1>2. tip <= tip' /\ tip' = tip
  BY <1>1, Numbers
<1>3. ASSUME NEW j \in Before PROVE Budget(j)' + 1 <= Budget(j)
  <2>1. /\ Fires("work", Left(j))' = Fires("work", Left(j)) - 1
        /\ Fires("refresh", Left(j))' = Fires("refresh", Left(j))
    <3>1. "work" # "refresh"
      OBVIOUS
    <3> QED
      BY <1>1, <3>1, CountsWhenDue
  <2>2. CASE j.template.tip = tip
    <3>1. /\ Budget(j) = Fires("work", Left(j)) + (calls + Fires("refresh", Left(j)))
          /\ Budget(j)' = Fires("work", Left(j))' + (calls' + Fires("refresh", Left(j))')
      BY <1>2, <2>2, BudgetIs, BudgetThenIs
    <3> QED
      BY <1>1, <2>1, <3>1, Counts
  <2>3. CASE j.template.tip # tip
    <3>1. /\ Budget(j) = Fires("work", Left(j)) + 0
          /\ Budget(j)' = Fires("work", Left(j))' + 0
      BY <1>2, <2>3, BudgetIs, BudgetThenIs
    <3> QED
      BY <2>1, <3>1, Counts
  <2> QED
    BY <2>2, <2>3
<1>4. CASE UNCHANGED <<versionCounter, writing, jobs, last>>
  <2>1. ASSUME NEW j \in Before PROVE Budget(j)' <= Budget(j)
    <3>1. Budget(j)' \in Nat /\ Budget(j) \in Nat /\ Budget(j)' + 1 <= Budget(j)
      BY <1>3, BudgetNat, BudgetThen
    <3>2. \A a, b \in Nat : a + 1 <= b => a <= b
      OBVIOUS
    <3> QED
      BY <3>1, <3>2, Zenon
  <2>2. UNCHANGED <<jobs, last, versionCounter, current>>
    BY <1>1, <1>4
  <2> QED
    BY <1>2, <2>1, <2>2, QuietStep
<1>5. CASE \E t \in current : SendJob(t, t.timestamp, FALSE, FALSE)
  <2>1. PICK t \in current : SendJob(t, t.timestamp, FALSE, FALSE)
    BY <1>5
  <2>2. t \in Template /\ t.timestamp \in Nat /\ t \in current'
    BY <1>1 DEF TypeInv, TypeOK, Template
  <2>3. \A c \in current' : c.tip <= tip' /\ c.version = BaseVersion
    BY <1>1, <1>2 DEF RotationInv, TipsInv
  <2>4. \A j \in Before : \E c \in current' : j.template.tip <= c.tip
    BY <1>1 DEF RotationInv, TipsInv
  <2>5. t.version = BaseVersion /\ FALSE \in BOOLEAN
    BY DEF RotationInv, TipsInv
  <2>6. \A j \in Before :
          ~j.ahead => (Current(j)' => Current(j)) /\ (Current(j)' => Budget(j)' + 1 <= Budget(j))
    BY <1>1, <1>3 DEF Current
  <2> QED
    BY <2>1, <2>2, <2>3, <2>4, <2>5, <2>6, SendStep
<1> QED
  BY <1>4, <1>5 DEF WorkTimer

\* The time of a job with a new difficulty is a number.
LEMMA RetargetTimeType ==
    ASSUME TypeInv, NEW t \in Template
    PROVE  /\ RetargetTime(t) \in Nat
           /\ lastSent >= 0 => RetargetTime(t) >= 1
<1>1. t.timestamp \in Nat
  BY DEF Template
<1>2. lastSent \in Int /\ lastSent + 1 >= 0
  BY DEF TypeInv, TypeOK, Time
<1> QED
  BY <1>1, <1>2 DEF RetargetTime, Later

\* A new difficulty starts the rotation again.
LEMMA DifficultyTurns ==
    ASSUME TypeInv, TypeInv', RotationInv, RotationsSuffice, DifficultyTimer PROVE RotationInv'
<1>1. /\ UNCHANGED <<phase, tip, calls, current>> /\ Due("difficulty")
      /\ "difficulty" \in Timer /\ "difficulty" # "work" /\ "difficulty" # "refresh"
  BY DEF DifficultyTimer, Timer
<1>2. tip <= tip' /\ tip' = tip
  BY <1>1, Numbers
<1>3. CASE UNCHANGED <<versionCounter, writing, jobs, last>>
  <2>1. ASSUME NEW j \in Before PROVE Budget(j)' <= Budget(j)
    <3>1. /\ Fires("work", Left(j))' = Fires("work", Left(j))
          /\ Fires("refresh", Left(j))' = Fires("refresh", Left(j))
      BY <1>1, CountsWhenDue
    <3>2. Budget(j)' = Budget(j)
      BY <1>1, <3>1 DEF Budget
    <3>3. \A a \in Nat : a <= a
      OBVIOUS
    <3> QED
      BY <3>2, <3>3, BudgetNat, Zenon
  <2>2. UNCHANGED <<jobs, last, versionCounter, current>>
    BY <1>1, <1>3
  <2> QED
    BY <1>2, <2>1, <2>2, QuietStep
<1>4. CASE \E t \in current : SendJob(t, RetargetTime(t), TRUE, TRUE)
  <2>1. PICK t \in current : SendJob(t, RetargetTime(t), TRUE, TRUE)
    BY <1>4
  <2>2. t \in Template /\ t \in current'
    BY <1>1 DEF TypeInv, TypeOK
  <2>3. PICK ntime \in Nat : ntime = RetargetTime(t)
    BY <2>2, RetargetTimeType
  <2>4. \A c \in current' : c.tip <= tip' /\ c.version = BaseVersion
    BY <1>1, <1>2 DEF RotationInv, TipsInv
  <2>5. \A j \in Before : \E c \in current' : j.template.tip <= c.tip
    BY <1>1 DEF RotationInv, TipsInv
  <2>6. t.version = BaseVersion /\ TRUE \in BOOLEAN
    BY DEF RotationInv, TipsInv
  <2>7. SendJob(t, ntime, TRUE, TRUE)
    BY <2>1, <2>3
  <2> QED
    BY <2>2, <2>4, <2>5, <2>6, <2>7, SendStep
<1> QED
  BY <1>3, <1>4 DEF DifficultyTimer

\* Every step keeps the rotation in order.
LEMMA RotationStep ==
    ASSUME RotationsSuffice
    PROVE  TypeInv /\ TypeInv' /\ RotationInv /\ [Next]_vars => RotationInv'
<1> SUFFICES ASSUME TypeInv, TypeInv', RotationInv, [Next]_vars PROVE RotationInv'
  OBVIOUS
<1>1. CASE Tick
  BY <1>1, TickTurns
<1>2. CASE NextSecond
  BY <1>2, SecondTurns
<1>3. CASE NewBlock
  BY <1>3, BlockTurns
<1>4. CASE OtherSession
  BY <1>4, IdleTurns DEF OtherSession
<1>5. CASE Resume
  BY <1>5, ResumeTurns
<1>6. CASE Written
  BY <1>6, IdleTurns DEF Written
<1>7. CASE RefreshTimer
  BY <1>7, RefreshTurns
<1>8. CASE WorkTimer
  BY <1>8, WorkTurns
<1>9. CASE DifficultyTimer
  BY <1>9, DifficultyTurns
<1>10. CASE UNCHANGED vars
  BY <1>10, IdleTurns DEF vars
<1> QED
  BY <1>1, <1>2, <1>3, <1>4, <1>5, <1>6, <1>7, <1>8, <1>9, <1>10 DEF Next

\* As many jobs later, up to the number of rotations, the bits are others.
LEMMA TurnsApart ==
    ASSUME NEW n \in 0 .. Rotations - 1, NEW m \in 0 .. Rotations - 1,
           NEW k \in 1 .. Rotations - 1, Round(n + 1 + k) = Round(m + 1)
    PROVE  ~ \A b \in PoolBits : b \in Version(n) <=> b \in Version(m)
<1> SUFFICES ASSUME \A b \in PoolBits : b \in Version(n) <=> b \in Version(m)
             PROVE  FALSE
  OBVIOUS
<1>1. \A b \in PoolBits : b \in RotationBits(n) <=> b \in RotationBits(m)
  BY Zenon DEF Version
<1>2. n = m
  BY <1>1, Distinct
<1> QED
  BY <1>2, RotationsAre DEF Round

\* A rotation that is in order keeps the search spaces apart.
LEMMA RotationKeepsApart == TypeInv /\ RotationInv => SpacesApart
<1> SUFFICES ASSUME TypeInv, RotationInv, NEW l \in last, NEW i \in jobs, Repeats(l.job, i),
                    ~i.restarted, i.turns # Rotations
             PROVE  FALSE
  BY DEF SpacesApart
<1>1. l.job.template.tip = i.template.tip
  BY RepeatsMeans
<1>2. \A b \in PoolBits : b \in l.job.version <=> b \in i.version
  <2>1. PICK p \in SUBSET MinerBits, q \in SUBSET MinerBits :
            Rolled(l.job.version, p) = Rolled(i.version, q)
    BY RepeatsMeans
  <2> QED
    BY <2>1, RolledApart
<1>3. PICK m \in 0 .. Rotations - 1 :
        l.job.version = Version(m) /\ versionCounter = Round(m + 1 + 0)
  BY DEF RotationInv, LastInv, SentAgo
<1>4. \E k \in 1 .. Rotations - 1 : SentAgo(i, k)
  <2>1. InTurn(i, 1)
    BY DEF RotationInv
  <2>2. CASE i.ahead
    <3>1. i.turns \in 0 .. Rotations /\ Rotations \in Nat
      BY RotationsAre DEF TypeInv, TypeOK, Job
    <3>2. i.turns \in 1 .. Rotations - 1 /\ i.turns < Rotations
      BY <2>1, <2>2, <3>1 DEF InTurn
    <3> QED
      BY <2>1, <2>2, <3>2 DEF InTurn
  <2>3. CASE ~i.ahead
    <3>1. Current(i)
      BY <1>1 DEF Current, RotationInv, TipsInv
    <3> QED
      BY <2>1, <2>3, <3>1 DEF InTurn, InTime
  <2> QED
    BY <2>2, <2>3
<1>5. PICK k \in 1 .. Rotations - 1 : SentAgo(i, k)
  BY <1>4
<1>6. PICK n \in 0 .. Rotations - 1 : i.version = Version(n) /\ versionCounter = Round(n + 1 + k)
  BY <1>5 DEF SentAgo
<1>7. m + 1 + 0 = m + 1
  BY RotationsAre
<1> QED
  BY <1>2, <1>3, <1>6, <1>7, TurnsApart

\* As long as fewer calls are in flight than leave six rotations for the timers (nine
\* of the sixteen), no miner tries headers again under a new job, whatever the
\* order of timers, answers and writes.
THEOREM WorkIsNotRepeated == ASSUME MaxCalls + 6 < Rotations PROVE Spec => []SpacesApart
<1>1. RotationsSuffice
  BY DEF RotationsSuffice
<1>2. Init => TypeInv /\ RotationInv
  BY Starting, RotationStarts
<1>3. TypeInv /\ RotationInv /\ [Next]_vars => TypeInv' /\ RotationInv'
  BY <1>1, TypeStep, RotationStep
<1>4. TypeInv /\ RotationInv => SpacesApart
  BY RotationKeepsApart
<1> QED
  BY <1>2, <1>3, <1>4, PTL DEF Spec

-----------------------------------------------------------------------------
(* Why a retarget sends new work. *)

\* The time of the last job that was written or is being written.
LatestTime == IF writing = <<>> THEN lastSent ELSE writing[Len(writing)]

\* A retarget's time is beyond the latest, which is not before now while a job is that a
\* template gave the time of now. The time a retarget added a second to is past before
\* the difficulty is looked at again.
RetargetInv ==
    \A j \in Before :
        \/ j.ahead
        \/ j.ntime \in {0, 1} /\ wait["difficulty"] > Left(j)
        \/ j.ntime = 0 /\ LatestTime >= 0

\* Nothing has been sent at the start.
LEMMA RetargetStarts == Init => RetargetInv /\ RetargetIsNew
BY DEF Init, RetargetInv, RetargetIsNew, Before

\* Steps that leave the jobs alone.
LEMMA RetargetKept ==
    ASSUME TypeInv, TypeInv', RetargetInv, UNCHANGED <<jobs, last>>,
           LatestTime >= 0 => LatestTime' >= 0,
           \A j \in Before : wait["difficulty"] > Left(j) => wait'["difficulty"] > Left(j)'
    PROVE  RetargetInv'
<1>1. Before' = Before
  BY DEF Before
<1> QED
  BY <1>1 DEF RetargetInv

\* A step that leaves the jobs alone keeps the work of a retarget new.
LEMMA LastChangesKept ==
    ASSUME RetargetIsNew, UNCHANGED <<jobs, last>> PROVE RetargetIsNew'
<1>1. \A j, i : Repeats(j, i)' <=> Repeats(j, i)
  BY DEF Repeats, SearchSpace, MinedHeader, Header, Rolled, RootOfJob, MinerBits
<1> QED
  BY <1>1 DEF RetargetIsNew

\* A tick takes as much from the wait as from the time a job has left.
LEMMA TickRetargets ==
    ASSUME TypeInv, TypeInv', RetargetInv, Tick PROVE RetargetInv'
<1>1. UNCHANGED <<jobs, last>> /\ LatestTime' = LatestTime
  BY DEF Tick, LatestTime
<1>2. ASSUME NEW j \in Before, wait["difficulty"] > Left(j)
      PROVE  wait'["difficulty"] > Left(j)'
  <2>1. Left(j)' = Left(j) - 1 /\ Left(j) > 0 /\ Left(j) \in Nat
    BY Rates, Numbers, LeftType DEF Tick, Left
  <2>2. wait["difficulty"] \in Nat /\ wait'["difficulty"] = Later(wait["difficulty"] - 1, 0)
    BY Numbers DEF Tick, Wear, Timer
  <2>3. wait'["difficulty"] = wait["difficulty"] - 1
    BY <1>2, <2>1, <2>2 DEF Later
  <2> QED
    BY <1>2, <2>1, <2>2, <2>3
<1> QED
  BY <1>1, <1>2, RetargetKept

\* The times grow older together.
LEMMA SecondRetargets ==
    ASSUME TypeInv, TypeInv', RetargetInv, NextSecond PROVE RetargetInv'
<1> SUFFICES ASSUME NEW i \in Before'
             PROVE  \/ i.ahead
                    \/ i.ntime \in {0, 1} /\ wait'["difficulty"] > Left(i)'
  BY DEF RetargetInv
<1>1. PICK j \in Before : j.ntime > 0 /\ i = Older(j)
  <2>1. /\ jobs' = {Older(j) : j \in {k \in jobs : k.ntime > 0}}
        /\ last' = {[l EXCEPT !.job = Older(l.job)] : l \in {k \in last : k.job.ntime > 0}}
    BY DEF NextSecond
  <2>2. CASE i \in jobs'
    BY <2>1, <2>2 DEF Before
  <2>3. CASE \E l \in last' : i = l.job
    <3>1. PICK k \in last : k.job.ntime > 0 /\ i = [k EXCEPT !.job = Older(k.job)].job
      BY <2>1, <2>3
    <3>2. k \in LastJob
      BY DEF TypeInv, TypeOK
    <3> QED
      BY <3>1, <3>2 DEF LastJob, Before
  <2> QED
    BY <2>2, <2>3 DEF Before
<1>2. j \in Job /\ i.ahead = j.ahead /\ i.ntime = j.ntime - 1
  BY <1>1, BeforeAreJobs, OlderIs
<1>3. CASE j.ahead
  BY <1>2, <1>3
<1>4. CASE ~j.ahead
  <2>1. j.ntime = 1 /\ wait["difficulty"] > Left(j)
    BY <1>1, <1>4 DEF RetargetInv
  <2>2. i.ntime = 0
    BY <1>2, <2>1
  <2>3. Left(i)' = Left(j) - 1 /\ Left(j) > 0 /\ Left(j) \in Nat
    <3>1. j.ntime = 1
      BY <2>1
    <3>2. Left(i)' = Left(j) - 1 /\ Left(j) > 0
      BY <2>2, <3>1, Rates, Numbers DEF NextSecond, Left
    <3> QED
      BY <3>2, LeftType
  <2>4. wait["difficulty"] \in Nat /\ wait'["difficulty"] = Later(wait["difficulty"] - 1, 0)
    BY Numbers DEF NextSecond, Wear, Timer
  <2>5. wait'["difficulty"] = wait["difficulty"] - 1
    BY <2>1, <2>3, <2>4 DEF Later
  <2>6. wait'["difficulty"] > Left(i)'
    BY <2>1, <2>3, <2>4, <2>5
  <2> QED
    BY <2>2, <2>6
<1> QED
  BY <1>3, <1>4

\* Without its first member a sequence that is not empty then has the same last.
LEMMA LastOfTail ==
    ASSUME NEW S, NEW s \in Seq(S), s # <<>>
    PROVE  /\ Tail(s) = <<>> => Head(s) = s[Len(s)]
           /\ Tail(s) # <<>> => Tail(s)[Len(Tail(s))] = s[Len(s)]
<1>1. Len(s) \in Nat /\ Len(s) > 0
  OBVIOUS
<1>2. Tail(s) \in Seq(S) /\ Len(Tail(s)) = Len(s) - 1
  BY <1>1
<1>3. \A k \in 1 .. Len(Tail(s)) : Tail(s)[k] = s[k + 1]
  BY <1>1, <1>2
<1>4. CASE Tail(s) = <<>>
  <2>1. Len(Tail(s)) = 0
    <3>1. Len(<<>>) = 0
      OBVIOUS
    <3> QED
      BY <1>4, <3>1, Zenon
  <2>2. Len(s) = 1
    <3>1. Len(s) - 1 = 0
      BY <1>2, <2>1, Zenon
    <3> QED
      BY <1>1, <3>1
  <2>3. Head(s) = s[1]
    BY <1>1
  <2> QED
    BY <1>4, <2>2, <2>3
<1>5. CASE Tail(s) # <<>>
  <2>1. Len(Tail(s)) > 0
    BY <1>2, <1>5
  <2> QED
    BY <1>1, <1>2, <1>3, <1>5, <2>1
<1> QED
  BY <1>4, <1>5

\* The time that is written is noted by the session.
LEMMA WrittenRetargets ==
    ASSUME TypeInv, TypeInv', RetargetInv, Written PROVE RetargetInv'
<1>1. UNCHANGED <<jobs, last, wait, phase>>
  BY DEF Written
<1>2. LatestTime' = LatestTime
  <2>1. /\ writing \in Seq(Time) /\ writing # <<>>
        /\ writing' = Tail(writing) /\ lastSent' = Head(writing)
    BY DEF Written, TypeInv, TypeOK
  <2>2. CASE Tail(writing) = <<>>
    BY <2>1, <2>2, LastOfTail DEF LatestTime
  <2>3. CASE Tail(writing) # <<>>
    BY <2>1, <2>3, LastOfTail DEF LatestTime
  <2> QED
    BY <2>2, <2>3
<1>3. \A j : Left(j)' = Left(j)
  BY <1>1 DEF Left
<1> QED
  BY <1>1, <1>2, <1>3, RetargetKept

\* Steps that write nothing. The difficulty timer is among them, which was not due
\* before the time it added a second to was past.
LEMMA IdleRetargets ==
    ASSUME TypeInv, TypeInv', RetargetInv, UNCHANGED <<phase, writing, lastSent, jobs, last>>,
           wait'["difficulty"] = wait["difficulty"] \/ Due("difficulty")
    PROVE  RetargetInv'
<1>1. LatestTime' = LatestTime
  BY DEF LatestTime
<1>2. \A j : Left(j)' = Left(j)
  BY DEF Left
<1>3. ASSUME NEW j, Due("difficulty") PROVE ~(wait["difficulty"] > Left(j))
  <2>1. wait["difficulty"] = 0
    BY <1>3 DEF Due
  <2>2. Left(j) \in Nat
    BY LeftType
  <2> QED
    BY <2>1, <2>2
<1> QED
  BY <1>1, <1>2, <1>3, RetargetKept

\* Steps that send a job.
LEMMA SendRetargets ==
    ASSUME TypeInv, TypeInv', RetargetInv,
           NEW t \in Template, NEW ntime \in Nat, NEW clear \in BOOLEAN, NEW retarget \in BOOLEAN,
           SendJob(t, ntime, clear, retarget), UNCHANGED <<phase, lastSent>>,
           IF retarget THEN Due("difficulty") ELSE wait'["difficulty"] = wait["difficulty"]
    PROVE  RetargetInv'
<1>1. PICK job : job = JobSent(t, ntime, clear, retarget)
  OBVIOUS
<1>2. /\ last' = {[job |-> job, retarget |-> retarget, hasty |-> writing # <<>>]}
      /\ jobs' = {Overtaken(j, clear) : j \in Before}
      /\ writing' = Append(writing, ntime)
  BY <1>1, SendEffect
<1>3. /\ job.ntime = ntime
      /\ job.ahead <=> ntime > IF retarget THEN 1 ELSE 0
  BY <1>1 DEF JobSent
<1>4. LatestTime' = ntime
  <2>1. writing \in Seq(Time) /\ ntime \in Time
    BY DEF TypeInv, TypeOK, Time
  <2>2. writing' # <<>> /\ writing'[Len(writing')] = ntime
    BY <1>2, <2>1
  <2> QED
    BY <2>2 DEF LatestTime
<1>5. \A j : Left(j)' = Left(j)
  BY DEF Left
<1>6. ASSUME retarget PROVE wait'["difficulty"] > Left(job)'
  <2>1. wait'["difficulty"] = Period["difficulty"]
    BY <1>6 DEF Due, TypeInv, Timer
  <2>2. Left(job) \in Nat /\ Left(job) < 2 * TicksPerSecond
    BY LeftType
  <2>3. Left(job)' = Left(job)
    BY <1>5
  <2>4. /\ Period["difficulty"] \in Nat /\ TicksPerSecond \in Nat
        /\ Period["difficulty"] >= 2 * TicksPerSecond
    BY Rates DEF Timer
  <2> QED
    BY <2>1, <2>2, <2>3, <2>4
<1> SUFFICES ASSUME NEW i \in Before'
             PROVE  \/ i.ahead
                    \/ i.ntime \in {0, 1} /\ wait'["difficulty"] > Left(i)'
                    \/ i.ntime = 0 /\ LatestTime' >= 0
  BY DEF RetargetInv
<1>7. CASE i = job
  <2>1. CASE retarget
    BY <1>3, <1>6, <1>7, <2>1
  <2>2. CASE ~retarget
    BY <1>3, <1>4, <1>7, <2>2
  <2> QED
    BY <2>1, <2>2
<1>8. CASE \E j \in Before : i = Overtaken(j, clear)
  <2>1. PICK j \in Before : i = Overtaken(j, clear)
    BY <1>8
  <2>2. i.ntime = j.ntime /\ i.ahead = j.ahead
    BY <2>1, BeforeAreJobs, OvertakenIs
  <2>3. Left(i)' = Left(j)
    BY <2>2 DEF Left
  <2>4. CASE retarget
    <3>1. wait["difficulty"] = 0 /\ Left(j) \in Nat
      BY <2>4, LeftType DEF Due
    <3>2. ~(wait["difficulty"] > Left(j))
      BY <3>1
    <3> QED
      BY <1>4, <2>2, <3>2 DEF RetargetInv
  <2>5. CASE ~retarget
    BY <1>4, <2>2, <2>3, <2>5 DEF RetargetInv
  <2> QED
    BY <2>4, <2>5
<1> QED
  BY <1>2, <1>7, <1>8 DEF Before

\* Every step keeps what is known of the latest time.
LEMMA RetargetInvStep == TypeInv /\ TypeInv' /\ RetargetInv /\ [Next]_vars => RetargetInv'
<1> SUFFICES ASSUME TypeInv, TypeInv', RetargetInv, [Next]_vars PROVE RetargetInv'
  OBVIOUS
<1>1. CASE Tick
  BY <1>1, TickRetargets
<1>2. CASE NextSecond
  BY <1>2, SecondRetargets
<1>3. CASE NewBlock
  BY <1>3, IdleRetargets DEF NewBlock
<1>4. CASE OtherSession
  BY <1>4, IdleRetargets DEF OtherSession
<1>5. CASE Resume
  <2>1. PICK t : t = [tip |-> tip, timestamp |-> lead, version |-> BaseVersion]
    OBVIOUS
  <2>2. PICK clear \in BOOLEAN : clear = (lastTemplateHeight # tip)
    OBVIOUS
  <2>3. SendJob(t, lead, clear, FALSE) /\ FALSE \in BOOLEAN
    BY <1>5, <2>1, <2>2 DEF Resume
  <2>4. t \in Template /\ lead \in Nat
    <3>1. tip \in Tip /\ lead \in Nat
      BY Numbers DEF TypeInv, TypeOK
    <3> QED
      BY <2>1, <3>1 DEF Template, BaseVersion
  <2>5. UNCHANGED <<phase, lastSent, wait>>
    BY <1>5 DEF Resume
  <2> QED
    BY <2>3, <2>4, <2>5, SendRetargets
<1>6. CASE Written
  BY <1>6, WrittenRetargets
<1>7. CASE RefreshTimer
  <2>1. wait'["difficulty"] = wait["difficulty"]
    BY <1>7 DEF RefreshTimer, Due, TypeInv, Timer
  <2> QED
    BY <1>7, <2>1, IdleRetargets DEF RefreshTimer
<1>8. CASE WorkTimer
  <2>1. wait'["difficulty"] = wait["difficulty"] /\ UNCHANGED <<phase, lastSent>>
    BY <1>8 DEF WorkTimer, Due, TypeInv, Timer
  <2>2. CASE UNCHANGED <<versionCounter, writing, jobs, last>>
    BY <2>1, <2>2, IdleRetargets
  <2>3. CASE \E t \in current : SendJob(t, t.timestamp, FALSE, FALSE)
    <3>1. PICK t \in current : SendJob(t, t.timestamp, FALSE, FALSE)
      BY <2>3
    <3>2. t \in Template /\ t.timestamp \in Nat /\ FALSE \in BOOLEAN
      BY DEF TypeInv, TypeOK, Template
    <3> QED
      BY <2>1, <3>1, <3>2, SendRetargets
  <2> QED
    BY <1>8, <2>2, <2>3 DEF WorkTimer
<1>9. CASE DifficultyTimer
  <2>1. Due("difficulty") /\ UNCHANGED <<phase, lastSent>>
    BY <1>9 DEF DifficultyTimer
  <2>2. CASE UNCHANGED <<versionCounter, writing, jobs, last>>
    BY <2>1, <2>2, IdleRetargets
  <2>3. CASE \E t \in current : SendJob(t, RetargetTime(t), TRUE, TRUE)
    <3>1. PICK t \in current : SendJob(t, RetargetTime(t), TRUE, TRUE)
      BY <2>3
    <3>2. t \in Template /\ TRUE \in BOOLEAN
      BY DEF TypeInv, TypeOK
    <3>3. RetargetTime(t) \in Nat
      BY <3>2, RetargetTimeType
    <3> QED
      BY <2>1, <3>1, <3>2, <3>3, SendRetargets
  <2> QED
    BY <1>9, <2>2, <2>3 DEF DifficultyTimer
<1>10. CASE UNCHANGED vars
  BY <1>10, IdleRetargets DEF vars
<1> QED
  BY <1>1, <1>2, <1>3, <1>4, <1>5, <1>6, <1>7, <1>8, <1>9, <1>10 DEF Next

\* Whether two jobs repeat each other does not depend on the state.
LEMMA RepeatsThen == \A j, i : Repeats(j, i)' <=> Repeats(j, i)
BY DEF Repeats, SearchSpace, MinedHeader, Header, Rolled, RootOfJob, MinerBits

\* A job is not sent by a retarget, or it does not repeat another.
LEMMA RetargetSends ==
    ASSUME TypeInv, RetargetInv,
           NEW t \in Template, NEW ntime, NEW clear \in BOOLEAN, NEW retarget \in BOOLEAN,
           SendJob(t, ntime, clear, retarget),
           retarget => wait["difficulty"] = 0 /\ ntime = RetargetTime(t)
    PROVE  RetargetIsNew'
<1> SUFFICES ASSUME NEW l \in last', NEW i \in jobs', l.retarget, Repeats(l.job, i), ~l.hasty
             PROVE  i.ahead
  BY RepeatsThen DEF RetargetIsNew
<1>1. /\ l = [job |-> JobSent(t, ntime, clear, retarget), retarget |-> retarget,
              hasty |-> writing # <<>>]
      /\ \E j \in Before : i = Overtaken(j, clear)
  BY SendEffect
<1>2. retarget /\ writing = <<>> /\ l.job.ntime = RetargetTime(t)
  BY <1>1 DEF JobSent
<1>3. PICK j \in Before : i = Overtaken(j, clear)
  BY <1>1
<1>4. i.ntime = j.ntime /\ i.ahead = j.ahead
  BY <1>3, BeforeAreJobs, OvertakenIs
<1>5. CASE j.ahead
  BY <1>4, <1>5
<1>6. CASE ~j.ahead
  <2>1. wait["difficulty"] = 0 /\ Left(j) \in Nat
    BY <1>2, LeftType
  <2>2. ~(wait["difficulty"] > Left(j))
    BY <2>1
  <2>3. j.ntime = 0 /\ LatestTime >= 0
    BY <1>6, <2>2 DEF RetargetInv
  <2>4. RetargetTime(t) \in Nat /\ RetargetTime(t) >= 1
    BY <1>2, <2>3, RetargetTimeType DEF LatestTime
  <2>5. l.job.ntime = i.ntime
    BY RepeatsMeans
  <2>6. RetargetTime(t) = 0
    BY <1>2, <1>4, <2>3, <2>5
  <2> QED
    BY <2>4, <2>6
<1> QED
  BY <1>5, <1>6

\* The jobs age together.
LEMMA SecondRepeats == ASSUME TypeInv, RetargetIsNew, NextSecond PROVE RetargetIsNew'
<1>1. /\ jobs' = {Older(j) : j \in {k \in jobs : k.ntime > 0}}
      /\ last' = {[l EXCEPT !.job = Older(l.job)] : l \in {k \in last : k.job.ntime > 0}}
  BY DEF NextSecond
<1> SUFFICES ASSUME NEW l \in last', NEW i \in jobs', l.retarget, Repeats(l.job, i)
             PROVE  l.hasty \/ i.ahead
  BY RepeatsThen DEF RetargetIsNew
<1>2. PICK k \in last : k.job.ntime > 0 /\ l = [k EXCEPT !.job = Older(k.job)]
  BY <1>1
<1>3. k \in LastJob
  BY DEF TypeInv, TypeOK
<1>4. l.job = Older(k.job) /\ l.retarget = k.retarget /\ l.hasty = k.hasty
  BY <1>2, <1>3 DEF LastJob
<1>5. PICK j \in jobs : j.ntime > 0 /\ i = Older(j)
  BY <1>1
<1>6. /\ l.job.template.tip = k.job.template.tip /\ l.job.ntime = k.job.ntime - 1
      /\ l.job.version = k.job.version /\ k.job.ntime \in Nat
  <2>1. k.job \in Job
    BY <1>3 DEF LastJob
  <2>2. k.job.ntime \in Nat
    BY <2>1 DEF Job
  <2> QED
    BY <1>2, <1>4, <2>1, <2>2, OlderIs
<1>7. /\ i.template.tip = j.template.tip /\ i.ntime = j.ntime - 1 /\ i.ahead = j.ahead
      /\ i.version = j.version /\ j.ntime \in Nat
  <2>1. j \in Job
    BY DEF TypeInv, TypeOK
  <2>2. j.ntime \in Nat
    BY <2>1 DEF Job
  <2> QED
    BY <1>5, <2>1, <2>2, OlderIs
<1>8. k.job.ntime = j.ntime
  <2>1. l.job.ntime = i.ntime
    BY RepeatsMeans
  <2> QED
    BY <1>6, <1>7, <2>1
<1>9. Repeats(k.job, j)
  <2>1. /\ l.job.template.tip = i.template.tip
        /\ \E p, q \in SUBSET MinerBits : Rolled(l.job.version, p) = Rolled(i.version, q)
    BY RepeatsMeans
  <2> QED
    BY <1>6, <1>7, <1>8, <2>1, RepeatsMeans
<1> QED
  BY <1>4, <1>7, <1>9 DEF RetargetIsNew

\* Every step keeps the work of a retarget new.
LEMMA RetargetStep ==
    TypeInv /\ RetargetInv /\ RetargetIsNew /\ [Next]_vars => RetargetIsNew'
<1> SUFFICES ASSUME TypeInv, RetargetInv, RetargetIsNew, [Next]_vars PROVE RetargetIsNew'
  OBVIOUS
<1>1. CASE UNCHANGED <<jobs, last>>
  BY <1>1, LastChangesKept
<1>2. CASE NextSecond
  BY <1>2, SecondRepeats
<1>3. CASE Resume
  <2>1. PICK t : t = [tip |-> tip, timestamp |-> lead, version |-> BaseVersion]
    OBVIOUS
  <2>2. PICK clear \in BOOLEAN : clear = (lastTemplateHeight # tip)
    OBVIOUS
  <2>3. SendJob(t, lead, clear, FALSE) /\ FALSE \in BOOLEAN
    BY <1>3, <2>1, <2>2 DEF Resume
  <2>4. t \in Template
    <3>1. tip \in Tip /\ lead \in Nat
      BY Numbers DEF TypeInv, TypeOK
    <3> QED
      BY <2>1, <3>1 DEF Template, BaseVersion
  <2> QED
    BY <2>3, <2>4, RetargetSends
<1>4. ASSUME NEW t \in current, SendJob(t, t.timestamp, FALSE, FALSE) PROVE RetargetIsNew'
  <2>1. t \in Template /\ FALSE \in BOOLEAN
    BY DEF TypeInv, TypeOK
  <2> QED
    BY <1>4, <2>1, RetargetSends
<1>5. ASSUME NEW t \in current, Due("difficulty"), SendJob(t, RetargetTime(t), TRUE, TRUE)
      PROVE  RetargetIsNew'
  <2>1. t \in Template /\ TRUE \in BOOLEAN /\ wait["difficulty"] = 0
    BY <1>5 DEF TypeInv, TypeOK, Due
  <2> QED
    BY <1>5, <2>1, RetargetSends
<1> QED
  BY <1>1, <1>2, <1>3, <1>4, <1>5
     DEF Next, vars, Tick, NewBlock, OtherSession, Written, RefreshTimer, WorkTimer,
         DifficultyTimer

\* Work sent with a new difficulty is new, unless the clock stood still for the job it
\* repeats or its own predecessor was still being written: at every retarget, for any
\* number of calls in flight.
THEOREM RetargetWorkIsNew == Spec => []RetargetIsNew
<1>1. Init => TypeInv /\ RetargetInv /\ RetargetIsNew
  BY Starting, RetargetStarts
<1>2. TypeInv /\ RetargetInv /\ RetargetIsNew /\ [Next]_vars
        => TypeInv' /\ RetargetInv' /\ RetargetIsNew'
  BY TypeStep, RetargetInvStep, RetargetStep
<1> QED
  BY <1>1, <1>2, PTL DEF Spec

-----------------------------------------------------------------------------
(* Induction. *)

\* A set of numbers that is not empty has a least.
LEMMA Least ==
    ASSUME NEW T, T \subseteq Nat, T # {}
    PROVE  \E n \in T : \A k \in T : n <= k
<1> DEFINE R == OpToRel(<, Nat)
<1>1. PICK n \in T : \A k \in T : ~(<<k, n>> \in R)
  <2>1. IsWellFoundedOn(R, Nat)
    BY NatLessThanWellFounded
  <2> HIDE DEF R
  <2> QED
    BY <2>1, WFMin
<1>2. ASSUME NEW k \in T PROVE n <= k
  <2>1. k \in Nat /\ n \in Nat
    OBVIOUS
  <2>2. <<k, n>> \in Nat \X Nat /\ <<k, n>>[1] = k /\ <<k, n>>[2] = n
    BY <2>1
  <2>3. ASSUME k < n PROVE <<k, n>> \in R
    BY <2>2, <2>3, Zenon DEF OpToRel
  <2> HIDE DEF R
  <2> QED
    BY <1>1, <2>1, <2>3
<1> QED
  BY <1>2

\* A set with zero and with the successor of each of its numbers has all numbers.
LEMMA AllNumbers ==
    ASSUME NEW T, 0 \in T, \A n \in Nat : n \in T => n + 1 \in T
    PROVE  Nat \subseteq T
<1> SUFFICES ASSUME Nat \ T # {} PROVE FALSE
  OBVIOUS
<1>1. PICK n \in Nat \ T : \A k \in Nat \ T : n <= k
  BY Least
<1>2. n # 0 /\ n - 1 \in Nat
  OBVIOUS
<1>3. n - 1 \in T
  BY <1>1, <1>2
<1>4. (n - 1) + 1 \in T
  BY <1>2, <1>3
<1> QED
  BY <1>4

\* f takes a step again and again, n times.
Iterates(f, S, first, step, n) ==
    /\ f \in [0 .. n -> S]
    /\ f[0] = first
    /\ \A k \in 0 .. n - 1 : f[k + 1] = step[<<k, f[k]>>]

\* A step can be repeated any number of times: what the recursive functions need to exist.
LEMMA Repeated ==
    ASSUME NEW S, NEW first \in S, NEW step \in [Nat \X S -> S], NEW n \in Nat
    PROVE  \E f : Iterates(f, S, first, step, n)
<1> DEFINE Good(m, f) == Iterates(f, S, first, step, m)
           T == {m \in Nat : \E f : Good(m, f)}
<1>1. 0 \in T
  <2>1. Good(0, [k \in 0 .. 0 |-> first])
    BY DEF Iterates
  <2> QED
    BY <2>1
<1>2. ASSUME NEW m \in Nat, m \in T PROVE m + 1 \in T
  <2>1. PICK f : Good(m, f)
    BY <1>2
  <2> DEFINE next == step[<<m, f[m]>>]
             g == [k \in 0 .. m + 1 |-> IF k = m + 1 THEN next ELSE f[k]]
  <2>2. next \in S
    <3>1. f[m] \in S
      BY <2>1 DEF Iterates
    <3> QED
      BY <3>1
  <2>3. g \in [0 .. m + 1 -> S] /\ g[0] = first
    BY <2>1, <2>2 DEF Iterates
  <2>4. ASSUME NEW k \in 0 .. m PROVE g[k + 1] = step[<<k, g[k]>>]
    <3>1. g[k] = f[k]
      OBVIOUS
    <3>2. CASE k = m
      <4>1. g[m + 1] = next
        OBVIOUS
      <4> QED
        BY <3>1, <3>2, <4>1
    <3>3. CASE k # m
      <4>1. k \in 0 .. m - 1 /\ k + 1 \in 0 .. m
        BY <3>3
      <4>2. g[k + 1] = f[k + 1]
        BY <4>1
      <4> QED
        BY <2>1, <3>1, <4>1, <4>2 DEF Iterates
    <3> QED
      BY <3>2, <3>3
  <2>5. Good(m + 1, g)
    <3>1. (m + 1) - 1 = m
      OBVIOUS
    <3> QED
      BY <2>3, <2>4, <3>1 DEF Iterates
  <2> HIDE DEF g, Good
  <2> QED
    BY <2>5
<1> HIDE DEF T
<1>3. n \in T
  BY <1>1, <1>2, AllNumbers
<1> QED
  BY <1>3 DEF T

-----------------------------------------------------------------------------
(* The tree. *)

\* Hashes are not empty, so that none of them is Null.
Digest == Seq(Int) \ {<<>>}

\* Hashing gives a hash.
LEMMA HashType == \A l, r \in Digest : Hash(l, r) \in Digest
<1> SUFFICES ASSUME NEW l \in Digest, NEW r \in Digest PROVE Hash(l, r) \in Digest
  OBVIOUS
<1>1. l \in Seq(Int) /\ r \in Seq(Int) /\ <<-1>> \in Seq(Int) /\ <<-2>> \in Seq(Int)
  BY DEF Digest
<1>2. Hash(l, r) \in Seq(Int)
  BY <1>1 DEF Hash
<1>3. Len(Hash(l, r)) = Len(l) + Len(r) + 2
  BY <1>1 DEF Hash
<1>4. Len(Hash(l, r)) # 0
  BY <1>1, <1>3
<1>5. Hash(l, r) # <<>>
  BY <1>4
<1> QED
  BY <1>2, <1>5 DEF Digest

\* The levels of a tree of n leaves.
Level == {level \in Seq(Digest) : Len(level) > 0}

\* The length of a level is a number.
LEMMA LevelLength ==
    ASSUME NEW level \in Level
    PROVE  Len(level) \in Nat /\ Len(level) > 0 /\ (Len(level) = 1 \/ Len(level) > 1)
<1>1. Len(level) \in Nat /\ Len(level) > 0
  BY DEF Level
<1>2. \A k \in Nat : k > 0 => k = 1 \/ k > 1
  OBVIOUS
<1> QED
  BY <1>1, <1>2, Zenon

\* Above a level with several nodes is one with fewer.
LEMMA DeriveType ==
    ASSUME NEW level \in Level, Len(level) > 1
    PROVE  /\ Derive(level) \in Level
           /\ Len(Derive(level)) = (Len(level) + 1) \div 2
           /\ Len(Derive(level)) < Len(level)
           /\ Derive(level)[1] = Hash(level[1], level[2])
<1> DEFINE n == (Len(level) + 1) \div 2
           node(i) == Hash(level[2 * i - 1],
                           level[IF 2 * i <= Len(level) THEN 2 * i ELSE 2 * i - 1])
<1>1. Len(level) \in Nat /\ n \in Nat /\ 0 < n /\ n < Len(level) /\ 2 * n <= Len(level) + 1
  BY DEF Level
<1>2. ASSUME NEW i \in 1 .. n PROVE node(i) \in Digest
  <2>1. 2 * i - 1 \in 1 .. Len(level)
    BY <1>1
  <2>2. (IF 2 * i <= Len(level) THEN 2 * i ELSE 2 * i - 1) \in 1 .. Len(level)
    BY <1>1, <2>1
  <2>3. \A k \in 1 .. Len(level) : level[k] \in Digest
    BY DEF Level
  <2> QED
    BY <2>1, <2>2, <2>3, HashType
<1>3. Derive(level) = [i \in 1 .. n |-> node(i)]
  BY DEF Derive
<1> HIDE DEF n, node
<1>4. Derive(level) \in Seq(Digest)
  BY <1>1, <1>2, <1>3
<1>5. Len(Derive(level)) = n
  BY <1>1, <1>3
<1>6. Derive(level)[1] = node(1)
  BY <1>1, <1>3
<1>7. node(1) = Hash(level[1], level[2])
  BY <1>1 DEF node
<1> QED
  BY <1>1, <1>4, <1>5, <1>6, <1>7 DEF Level, n

\* Two levels that differ at most in their first node.
SameButFirst(a, b) == Len(a) = Len(b) /\ \A i \in 2 .. Len(a) : a[i] = b[i]

\* So do the levels above them.
LEMMA DeriveSame ==
    ASSUME NEW a \in Level, NEW b \in Level, Len(a) > 1, SameButFirst(a, b)
    PROVE  SameButFirst(Derive(a), Derive(b))
<1>1. Len(b) > 1 /\ Len(a) = Len(b) /\ Len(a) \in Nat
  BY DEF SameButFirst, Level
<1>2. Len(Derive(a)) = (Len(a) + 1) \div 2 /\ Len(Derive(b)) = (Len(a) + 1) \div 2
  BY <1>1, DeriveType
<1>3. ASSUME NEW i \in 2 .. (Len(a) + 1) \div 2 PROVE Derive(a)[i] = Derive(b)[i]
  <2> DEFINE r == IF 2 * i <= Len(a) THEN 2 * i ELSE 2 * i - 1
  <2>1. i \in 1 .. (Len(a) + 1) \div 2 /\ 2 * i - 1 \in 2 .. Len(a) /\ r \in 2 .. Len(a)
    BY <1>1
  <2>2. Derive(a)[i] = Hash(a[2 * i - 1], a[r])
    BY <2>1 DEF Derive
  <2>3. Derive(b)[i] = Hash(b[2 * i - 1], b[r])
    BY <1>1, <2>1 DEF Derive
  <2>4. a[2 * i - 1] = b[2 * i - 1] /\ a[r] = b[r]
    BY <2>1 DEF SameButFirst
  <2> QED
    BY <2>2, <2>3, <2>4
<1> QED
  BY <1>2, <1>3 DEF SameButFirst

\* The recursion of Levels.
LEMMA LevelsAre ==
    ASSUME NEW leaves \in Level
    PROVE  /\ Levels(leaves)[1] = leaves
           /\ \A d \in 1 .. Len(leaves) - 1 :
                Levels(leaves)[d + 1] = IF Len(Levels(leaves)[d]) = 1 THEN Levels(leaves)[d]
                                        ELSE Derive(Levels(leaves)[d])
<1> DEFINE n == Len(leaves)
           up(level) == IF Len(level) = 1 THEN level ELSE Derive(level)
           is(f) == f = [d \in 1 .. n |-> IF d = 1 THEN leaves ELSE
                                IF Len(f[d - 1]) = 1 THEN f[d - 1] ELSE Derive(f[d - 1])]
           step == [p \in Nat \X Level |-> up(p[2])]
<1>1. n \in Nat /\ n > 0
  BY DEF Level
<1>2. \E f : is(f)
  <2>1. step \in [Nat \X Level -> Level]
    <3>1. ASSUME NEW level \in Level PROVE up(level) \in Level
      <4>1. Len(level) = 1 \/ Len(level) > 1
        BY LevelLength
      <4>2. CASE Len(level) = 1
        BY <4>2
      <4>3. CASE Len(level) # 1
        <5>1. Len(level) > 1
          BY <4>1, <4>3, Zenon
        <5> QED
          BY <4>3, <5>1, DeriveType
      <4> QED
        BY <4>2, <4>3
    <3> QED
      BY <3>1
  <2> HIDE DEF step
  <2>2. PICK g : Iterates(g, Level, leaves, step, n - 1)
    <3>1. n - 1 \in Nat
      BY <1>1
    <3> QED
      BY <2>1, <3>1, Repeated
  <2>3. /\ g \in [0 .. n - 1 -> Level] /\ g[0] = leaves
        /\ \A k \in 0 .. (n - 1) - 1 : g[k + 1] = step[<<k, g[k]>>]
    BY <2>2 DEF Iterates
  <2> DEFINE f == [d \in 1 .. n |-> g[d - 1]]
  <2>4. ASSUME NEW d \in 1 .. n
        PROVE  f[d] = IF d = 1 THEN leaves ELSE
                        IF Len(f[d - 1]) = 1 THEN f[d - 1] ELSE Derive(f[d - 1])
    <3>1. CASE d = 1
      BY <2>3, <3>1
    <3>2. CASE d # 1
      <4>1. d - 1 \in 1 .. n /\ d - 2 \in 0 .. (n - 1) - 1 /\ (d - 2) + 1 = d - 1
        BY <1>1, <3>2
      <4>2. f[d] = g[d - 1] /\ f[d - 1] = g[d - 2]
        BY <4>1
      <4>3. g[d - 1] = step[<<d - 2, g[d - 2]>>]
        BY <2>3, <4>1
      <4>4. <<d - 2, g[d - 2]>> \in Nat \X Level
        BY <1>1, <2>3, <4>1
      <4>5. step[<<d - 2, g[d - 2]>>] = up(g[d - 2])
        BY <4>4 DEF step
      <4> QED
        BY <3>2, <4>2, <4>3, <4>5
    <3> QED
      BY <3>1, <3>2
  <2>5. is(f)
    BY <2>4
  <2> HIDE DEF f, is
  <2> QED
    BY <2>5
<1>3. is(Levels(leaves))
  <2>1. Levels(leaves) = CHOOSE f : is(f)
    BY DEF Levels
  <2> HIDE DEF is
  <2> QED
    BY <1>2, <2>1
<1>4. ASSUME NEW d \in 1 .. n - 1
      PROVE  Levels(leaves)[d + 1] = up(Levels(leaves)[d])
  <2>1. d + 1 \in 1 .. n /\ d + 1 # 1 /\ (d + 1) - 1 = d
    BY <1>1
  <2> DEFINE L == Levels(leaves)
  <2> HIDE DEF L
  <2>2. is(L)
    BY <1>3 DEF L
  <2>3. L[d + 1] = up(L[d])
    BY <2>1, <2>2
  <2> QED
    BY <2>3 DEF L
<1>5. Levels(leaves)[1] = leaves
  <2> DEFINE L == Levels(leaves)
  <2> HIDE DEF L
  <2>1. is(L)
    BY <1>3 DEF L
  <2>2. L[1] = leaves
    BY <1>1, <2>1
  <2> QED
    BY <2>2 DEF L
<1> QED
  BY <1>4, <1>5

\* What holds of the first level, and of the next whenever it holds of one, holds of all.
LEMMA UpTheTree ==
    ASSUME NEW n \in Nat, NEW T, 1 \in T, \A d \in 1 .. n - 1 : d \in T => d + 1 \in T
    PROVE  1 .. n \subseteq T
<1> DEFINE U == {d \in Nat : d + 1 \in 1 .. n => d + 1 \in T}
<1>1. 0 \in U
  OBVIOUS
<1>2. ASSUME NEW d \in Nat, d \in U PROVE d + 1 \in U
  <2> SUFFICES ASSUME (d + 1) + 1 \in 1 .. n PROVE (d + 1) + 1 \in T
    OBVIOUS
  <2>1. d + 1 \in 1 .. n - 1 /\ d + 1 \in 1 .. n
    OBVIOUS
  <2>2. d + 1 \in T
    BY <1>2, <2>1
  <2> QED
    BY <2>1, <2>2
<1> HIDE DEF U
<1>3. Nat \subseteq U
  BY <1>1, <1>2, AllNumbers
<1>4. ASSUME NEW d \in 1 .. n PROVE d \in T
  <2>1. d - 1 \in Nat /\ (d - 1) + 1 = d
    OBVIOUS
  <2>2. d - 1 \in U
    BY <1>3, <2>1
  <2> QED
    BY <2>1, <2>2 DEF U
<1> QED
  BY <1>4

\* Every level has a node and, but for the root, fewer than the one below.
LEMMA LevelsType ==
    ASSUME NEW leaves \in Level
    PROVE  \A d \in 1 .. Len(leaves) :
              /\ Levels(leaves)[d] \in Level
              /\ Len(Levels(leaves)[d]) = 1 \/ Len(Levels(leaves)[d]) <= Len(leaves) + 1 - d
<1> DEFINE n == Len(leaves)
           L == Levels(leaves)
           T == {d \in 1 .. n : L[d] \in Level /\ (Len(L[d]) = 1 \/ Len(L[d]) <= n + 1 - d)}
<1>1. n \in Nat /\ n > 0
  BY DEF Level
<1>2. 1 \in T
  BY <1>1, LevelsAre
<1>3. ASSUME NEW d \in 1 .. n - 1, d \in T PROVE d + 1 \in T
  <2>1. d + 1 \in 1 .. n
    BY <1>1
  <2>2. L[d] \in Level /\ (Len(L[d]) = 1 \/ Len(L[d]) <= n + 1 - d)
    BY <1>3
  <2>3. Len(L[d]) \in Nat /\ Len(L[d]) > 0
    BY <2>2 DEF Level
  <2>4. L[d + 1] = IF Len(L[d]) = 1 THEN L[d] ELSE Derive(L[d])
    BY LevelsAre
  <2> HIDE DEF n, L
  <2>5. CASE Len(L[d]) = 1
    <3>1. L[d + 1] = L[d]
      BY <2>4, <2>5
    <3> QED
      BY <2>1, <2>2, <2>5, <3>1
  <2>6. CASE Len(L[d]) # 1
    <3>1. L[d + 1] = Derive(L[d])
      BY <2>4, <2>6
    <3> DEFINE k == Len(L[d])
    <3>2. k \in Nat /\ k > 1 /\ k <= n + 1 - d
      BY <2>2, <2>6, LevelLength, Zenon
    <3>3. Derive(L[d]) \in Level /\ Len(Derive(L[d])) < k
      BY <2>2, <3>2, DeriveType
    <3>4. Len(Derive(L[d])) \in Nat
      BY <3>3 DEF Level
    <3>5. Len(Derive(L[d])) <= n + 1 - (d + 1)
      BY <1>1, <3>2, <3>3, <3>4
    <3> QED
      BY <2>1, <3>1, <3>3, <3>5
  <2> QED
    BY <2>5, <2>6
<1>4. 1 .. n \subseteq T
  <2> HIDE DEF T, n
  <2> QED
    BY <1>1, <1>2, <1>3, UpTheTree
<1> QED
  BY <1>4

\* h is the level of the root.
IsHeight(leaves, h) ==
    /\ h \in 1 .. Len(leaves)
    /\ Len(Levels(leaves)[h]) = 1
    /\ \A e \in 1 .. h - 1 : Len(Levels(leaves)[e]) > 1

\* There is exactly one.
LEMMA HeightIs ==
    ASSUME NEW leaves \in Level
    PROVE  /\ IsHeight(leaves, Height(leaves))
           /\ \A h : IsHeight(leaves, h) => h = Height(leaves)
<1> DEFINE n == Len(leaves)
           L == Levels(leaves)
           T == {d \in 1 .. n : Len(L[d]) = 1}
<1>1. n \in Nat /\ n > 0
  BY DEF Level
<1>2. \A d \in 1 .. n : Len(L[d]) \in Nat /\ Len(L[d]) > 0
  BY LevelsType, LevelLength, Zenon
<1>3. n \in T
  <2>1. Len(L[n]) = 1 \/ Len(L[n]) <= n + 1 - n
    BY <1>1, LevelsType
  <2>2. n \in 1 .. n /\ n + 1 - n = 1
    BY <1>1
  <2> DEFINE k == Len(L[n])
  <2>3. k \in Nat /\ k > 0 /\ (k = 1 \/ k <= 1)
    BY <1>2, <2>1, <2>2, Zenon
  <2> HIDE DEF k
  <2>4. k = 1
    BY <2>3
  <2> QED
    BY <2>2, <2>4 DEF k
<1>4. PICK h \in T : \A k \in T : h <= k
  <2>1. T \subseteq Nat /\ T # {}
    BY <1>1, <1>3
  <2> HIDE DEF T
  <2> QED
    BY <2>1, Least
<1>5. IsHeight(leaves, h)
  <2>1. ASSUME NEW e \in 1 .. h - 1 PROVE Len(L[e]) > 1
    <3>1. e \in 1 .. n /\ ~(h <= e)
      BY <1>1, <1>4
    <3>2. e \notin T
      BY <1>4, <3>1
    <3>3. Len(L[e]) # 1
      BY <3>1, <3>2
    <3>4. L[e] \in Level
      BY <3>1, LevelsType
    <3> QED
      BY <3>3, <3>4, LevelLength, Zenon
  <2> QED
    BY <1>4, <2>1 DEF IsHeight
<1>6. ASSUME NEW a, NEW b, IsHeight(leaves, a), IsHeight(leaves, b) PROVE a = b
  <2>1. a \in 1 .. n /\ b \in 1 .. n
    BY <1>6 DEF IsHeight
  <2>2. ~(a < b)
    <3> SUFFICES ASSUME a < b PROVE FALSE
      OBVIOUS
    <3>1. a \in 1 .. b - 1
      BY <2>1
    <3>2. ~(1 > 1)
      OBVIOUS
    <3> QED
      BY <1>6, <3>1, <3>2, Zenon DEF IsHeight
  <2>3. ~(b < a)
    <3> SUFFICES ASSUME b < a PROVE FALSE
      OBVIOUS
    <3>1. b \in 1 .. a - 1
      BY <2>1
    <3>2. ~(1 > 1)
      OBVIOUS
    <3> QED
      BY <1>6, <3>1, <3>2, Zenon DEF IsHeight
  <2> QED
    BY <2>1, <2>2, <2>3
<1>7. IsHeight(leaves, Height(leaves))
  <2>1. h \in 1 .. n /\ Len(L[h]) = 1 /\ \A e \in 1 .. h - 1 : Len(L[e]) > 1
    BY <1>5 DEF IsHeight
  <2>2. Height(leaves) =
          CHOOSE d \in 1 .. n : Len(L[d]) = 1 /\ \A e \in 1 .. d - 1 : Len(L[e]) > 1
    BY DEF Height
  <2> HIDE DEF L, n
  <2>3. /\ Height(leaves) \in 1 .. n
        /\ Len(L[Height(leaves)]) = 1
        /\ \A e \in 1 .. Height(leaves) - 1 : Len(L[e]) > 1
    BY <2>1, <2>2
  <2> QED
    BY <2>3 DEF IsHeight, L, n
<1> QED
  BY <1>6, <1>7

\* Two trees whose leaves differ at most in the first differ at most on the way from there.
LEMMA SameTree ==
    ASSUME NEW a \in Level, NEW b \in Level, SameButFirst(a, b)
    PROVE  /\ Height(b) = Height(a)
           /\ \A d \in 1 .. Len(a) : SameButFirst(Levels(a)[d], Levels(b)[d])
<1> DEFINE n == Len(a)
           T == {d \in 1 .. n : SameButFirst(Levels(a)[d], Levels(b)[d])}
<1>1. n \in Nat /\ n > 0 /\ Len(b) = n
  BY DEF Level, SameButFirst
<1>2. 1 \in T
  BY <1>1, LevelsAre
<1>3. ASSUME NEW d \in 1 .. n - 1, d \in T PROVE d + 1 \in T
  <2> DEFINE La == Levels(a)[d]
             Lb == Levels(b)[d]
  <2>1. La \in Level /\ Lb \in Level
    BY <1>1, LevelsType
  <2>2. SameButFirst(La, Lb) /\ Len(Lb) = Len(La)
    BY <1>3 DEF SameButFirst
  <2>3. Len(La) = 1 \/ Len(La) > 1
    BY <2>1, LevelLength, Zenon
  <2>4. Levels(a)[d + 1] = IF Len(La) = 1 THEN La ELSE Derive(La)
    BY LevelsAre
  <2>5. Levels(b)[d + 1] = IF Len(Lb) = 1 THEN Lb ELSE Derive(Lb)
    BY <1>1, LevelsAre
  <2>6. d + 1 \in 1 .. n
    BY <1>1
  <2> HIDE DEF La, Lb
  <2>7. CASE Len(La) = 1
    BY <2>2, <2>4, <2>5, <2>6, <2>7
  <2>8. CASE Len(La) # 1
    <3>1. Len(La) > 1
      BY <2>3, <2>8, Zenon
    <3> QED
      BY <2>1, <2>2, <2>4, <2>5, <2>6, <2>8, <3>1, DeriveSame
  <2> QED
    BY <2>7, <2>8
<1>4. 1 .. n \subseteq T
  <2> HIDE DEF T, n
  <2> QED
    BY <1>1, <1>2, <1>3, UpTheTree
<1>5. \A d \in 1 .. n : Len(Levels(b)[d]) = Len(Levels(a)[d])
  BY <1>4 DEF SameButFirst
<1>6. IsHeight(b, Height(a))
  <2> DEFINE h == Height(a)
  <2>1. h \in 1 .. n /\ Len(Levels(a)[h]) = 1 /\ \A e \in 1 .. h - 1 : Len(Levels(a)[e]) > 1
    BY HeightIs DEF IsHeight
  <2> HIDE DEF h
  <2>2. h \in 1 .. Len(b) /\ Len(Levels(b)[h]) = 1
    BY <1>1, <1>5, <2>1
  <2>3. ASSUME NEW e \in 1 .. h - 1 PROVE Len(Levels(b)[e]) > 1
    <3>1. e \in 1 .. n
      BY <1>1, <2>1
    <3> QED
      BY <1>5, <2>1, <3>1
  <2> QED
    BY <2>2, <2>3 DEF IsHeight, h
<1>7. Height(b) = Height(a)
  BY <1>6, HeightIs
<1> QED
  BY <1>4, <1>7

-----------------------------------------------------------------------------
(* The branch. *)

\* The recursion of WithoutGaps.
LEMMA KeptAre ==
    ASSUME NEW hashes \in Seq(Seq(Int))
    PROVE  \E kept :
              /\ WithoutGaps(hashes) = kept[Len(hashes)]
              /\ kept[0] = <<>>
              /\ \A k \in 1 .. Len(hashes) :
                    kept[k] = IF hashes[k] = Null THEN kept[k - 1]
                              ELSE Append(kept[k - 1], hashes[k])
<1> DEFINE n == Len(hashes)
           S == Seq(Seq(Int))
           is(f) == f = [k \in 0 .. n |-> IF k = 0 THEN <<>> ELSE
                            IF hashes[k] = Null THEN f[k - 1] ELSE Append(f[k - 1], hashes[k])]
           next(k, s) == IF k + 1 \notin 1 .. n THEN s ELSE
                            IF hashes[k + 1] = Null THEN s ELSE Append(s, hashes[k + 1])
           step == [p \in Nat \X S |-> next(p[1], p[2])]
<1>1. n \in Nat
  OBVIOUS
<1>2. \E f : is(f)
  <2>1. step \in [Nat \X S -> S]
    <3>1. ASSUME NEW k \in Nat, NEW s \in S PROVE next(k, s) \in S
      <4>1. CASE k + 1 \in 1 .. n
        <5>1. hashes[k + 1] \in Seq(Int)
          BY <4>1
        <5>2. Append(s, hashes[k + 1]) \in S
          BY <5>1
        <5> QED
          BY <5>2
      <4>2. CASE k + 1 \notin 1 .. n
        BY <4>2
      <4> QED
        BY <4>1, <4>2
    <3> HIDE DEF S, next
    <3> QED
      BY <3>1
  <2>2. PICK f : Iterates(f, S, <<>>, step, n)
    <3>1. <<>> \in S
      OBVIOUS
    <3> HIDE DEF step, S, n
    <3> QED
      BY <1>1, <2>1, <3>1, Repeated
  <2>3. /\ f \in [0 .. n -> S] /\ f[0] = <<>>
        /\ \A k \in 0 .. n - 1 : f[k + 1] = step[<<k, f[k]>>]
    BY <2>2 DEF Iterates
  <2>4. ASSUME NEW k \in 0 .. n
        PROVE f[k] = IF k = 0 THEN <<>> ELSE
                        IF hashes[k] = Null THEN f[k - 1] ELSE Append(f[k - 1], hashes[k])
    <3>1. CASE k = 0
      BY <2>3, <3>1
    <3>2. CASE k # 0
      <4>1. /\ k - 1 \in 0 .. n - 1 /\ k - 1 \in 0 .. n /\ k - 1 \in Nat
            /\ (k - 1) + 1 = k /\ k \in 1 .. n
        BY <1>1, <3>2
      <4>2. f[k] = step[<<k - 1, f[k - 1]>>] /\ f[k - 1] \in S
        BY <2>3, <4>1
      <4>3. step[<<k - 1, f[k - 1]>>] = next(k - 1, f[k - 1])
        <5> HIDE DEF next, S
        <5> QED
          BY <4>1, <4>2
      <4> QED
        BY <3>2, <4>1, <4>2, <4>3
    <3> QED
      BY <3>1, <3>2
  <2>5. is(f)
    <3>1. DOMAIN f = 0 .. n /\ f = [k \in 0 .. n |-> f[k]]
      BY <2>3
    <3> HIDE DEF n, S
    <3> QED
      BY <2>4, <3>1
  <2> HIDE DEF is
  <2> QED
    BY <2>5
<1> DEFINE kept == CHOOSE f : is(f)
<1>3. is(kept)
  <2> HIDE DEF is
  <2> QED
    BY <1>2
<1>4. WithoutGaps(hashes) = kept[n]
  BY DEF WithoutGaps
<1> HIDE DEF kept
<1>5. kept[0] = <<>>
  BY <1>1, <1>3
<1>6. ASSUME NEW k \in 1 .. n
      PROVE kept[k] = IF hashes[k] = Null THEN kept[k - 1] ELSE Append(kept[k - 1], hashes[k])
  <2>1. k \in 0 .. n /\ k # 0
    BY <1>1
  <2> QED
    BY <1>3, <2>1
<1> QED
  BY <1>4, <1>5, <1>6

\* The recursion of RootFrom.
LEMMA RootsAre ==
    ASSUME NEW coinbase \in Digest, NEW branch \in Seq(Digest)
    PROVE  \E root :
              /\ RootFrom(coinbase, branch) = root[Len(branch)]
              /\ root[0] = coinbase
              /\ \A i \in 1 .. Len(branch) : root[i] = Hash(root[i - 1], branch[i])
<1> DEFINE n == Len(branch)
           is(f) == f = [i \in 0 .. n |-> IF i = 0 THEN coinbase ELSE Hash(f[i - 1], branch[i])]
           next(i, h) == IF i + 1 \in 1 .. n THEN Hash(h, branch[i + 1]) ELSE h
           step == [p \in Nat \X Digest |-> next(p[1], p[2])]
<1>1. n \in Nat
  OBVIOUS
<1>2. \E f : is(f)
  <2>1. step \in [Nat \X Digest -> Digest]
    <3>1. ASSUME NEW i \in Nat, NEW h \in Digest PROVE next(i, h) \in Digest
      <4>1. CASE i + 1 \in 1 .. n
        <5>1. branch[i + 1] \in Digest
          BY <4>1
        <5> QED
          BY <4>1, <5>1, HashType
      <4>2. CASE i + 1 \notin 1 .. n
        BY <4>2
      <4> QED
        BY <4>1, <4>2
    <3> HIDE DEF next
    <3> QED
      BY <3>1
  <2>2. PICK f : Iterates(f, Digest, coinbase, step, n)
    <3> HIDE DEF step, n
    <3> QED
      BY <1>1, <2>1, Repeated
  <2>3. /\ f \in [0 .. n -> Digest] /\ f[0] = coinbase
        /\ \A k \in 0 .. n - 1 : f[k + 1] = step[<<k, f[k]>>]
    BY <2>2 DEF Iterates
  <2>4. ASSUME NEW k \in 0 .. n
        PROVE f[k] = IF k = 0 THEN coinbase ELSE Hash(f[k - 1], branch[k])
    <3>1. CASE k = 0
      BY <2>3, <3>1
    <3>2. CASE k # 0
      <4>1. /\ k - 1 \in 0 .. n - 1 /\ k - 1 \in 0 .. n /\ k - 1 \in Nat
            /\ (k - 1) + 1 = k /\ k \in 1 .. n
        BY <1>1, <3>2
      <4>2. f[k] = step[<<k - 1, f[k - 1]>>] /\ f[k - 1] \in Digest
        <5>1. f[(k - 1) + 1] = step[<<k - 1, f[k - 1]>>]
          <6> HIDE DEF step, n
          <6> QED
            BY <2>3, <4>1, Zenon
        <5> HIDE DEF step, n
        <5> QED
          BY <2>3, <4>1, <5>1
      <4>3. step[<<k - 1, f[k - 1]>>] = next(k - 1, f[k - 1])
        <5> HIDE DEF next
        <5> QED
          BY <4>1, <4>2
      <4> QED
        BY <3>2, <4>1, <4>2, <4>3
    <3> QED
      BY <3>1, <3>2
  <2>5. is(f)
    <3>1. DOMAIN f = 0 .. n /\ f = [k \in 0 .. n |-> f[k]]
      BY <2>3
    <3> HIDE DEF n
    <3> QED
      BY <2>4, <3>1
  <2> HIDE DEF is
  <2> QED
    BY <2>5
<1> DEFINE root == CHOOSE f : is(f)
<1>3. is(root)
  <2> HIDE DEF is
  <2> QED
    BY <1>2
<1>4. RootFrom(coinbase, branch) = root[n]
  BY DEF RootFrom
<1> HIDE DEF root
<1>5. root[0] = coinbase
  BY <1>1, <1>3
<1>6. ASSUME NEW i \in 1 .. n PROVE root[i] = Hash(root[i - 1], branch[i])
  <2>1. i \in 0 .. n /\ i # 0
    BY <1>1
  <2> QED
    BY <1>3, <2>1
<1> QED
  BY <1>4, <1>5, <1>6

\* The neighbours on the way from the first leaf to the root.
Neighbours(leaves) == [i \in 1 .. Height(leaves) - 1 |-> Levels(leaves)[i][2]]

\* Below the root there is a node on the way and a neighbour.
LEMMA BelowRoot ==
    ASSUME NEW leaves \in Level
    PROVE  /\ Height(leaves) \in 1 .. Len(leaves)
           /\ \A d \in 1 .. Height(leaves) :
                 Levels(leaves)[d] \in Level /\ Levels(leaves)[d][1] \in Digest
           /\ \A d \in 1 .. Height(leaves) - 1 :
                 /\ Len(Levels(leaves)[d]) > 1
                 /\ Levels(leaves)[d][2] \in Digest
                 /\ Levels(leaves)[d + 1][1]
                       = Hash(Levels(leaves)[d][1], Levels(leaves)[d][2])
<1> DEFINE h == Height(leaves)
           L == Levels(leaves)
           n == Len(leaves)
<1>1. n \in Nat /\ h \in 1 .. n /\ \A d \in 1 .. h - 1 : Len(L[d]) > 1
  <2>1. IsHeight(leaves, h)
    BY HeightIs, Zenon
  <2>2. n \in Nat
    BY DEF Level
  <2> QED
    BY <2>1, <2>2, Zenon DEF IsHeight
<1>2. ASSUME NEW level \in Level
      PROVE  level[1] \in Digest /\ (Len(level) > 1 => level[2] \in Digest)
  BY DEF Level
<1>3. \A d \in 1 .. h : d \in 1 .. n
  BY <1>1
<1>4. \A d \in 1 .. h : L[d] \in Level /\ L[d][1] \in Digest
  BY <1>2, <1>3, LevelsType, Zenon
<1>5. ASSUME NEW d \in 1 .. h - 1
      PROVE  Len(L[d]) > 1 /\ L[d][2] \in Digest /\ L[d + 1][1] = Hash(L[d][1], L[d][2])
  <2>1. d \in 1 .. h /\ d \in 1 .. n - 1
    BY <1>1
  <2>2. L[d] \in Level /\ Len(L[d]) > 1
    BY <1>1, <1>4, <2>1
  <2>3. L[d][2] \in Digest
    BY <1>2, <2>2, Zenon
  <2>4. Len(L[d]) # 1
    <3>1. ~(1 > 1)
      OBVIOUS
    <3> QED
      BY <2>2, <3>1, Zenon
  <2>5. L[d + 1] = Derive(L[d])
    BY <2>1, <2>4, LevelsAre
  <2>6. Derive(L[d])[1] = Hash(L[d][1], L[d][2])
    BY <2>2, DeriveType
  <2> QED
    BY <2>2, <2>3, <2>5, <2>6
<1> QED
  BY <1>1, <1>4, <1>5

\* What merkle-lib/proof returns, by the places in it.
LEMMA ProofIs ==
    ASSUME NEW leaves \in Level, NEW h \in Nat, h = Height(leaves)
    PROVE  /\ Proof(leaves) \in Seq(Seq(Int))
           /\ Len(Proof(leaves)) = 2 * h - 1
           /\ Proof(leaves)[2 * h - 1] = MerkleRoot(leaves)
           /\ h > 1 => Proof(leaves)[1] = leaves[1]
           /\ \A d \in 1 .. h - 1 :
                 /\ Proof(leaves)[2 * d] = Levels(leaves)[d][2]
                 /\ d > 1 => Proof(leaves)[2 * d - 1] = Null
<1> DEFINE L == Levels(leaves)
           node(k) == IF k % 2 = 0 THEN L[k \div 2][2]
                      ELSE IF k = 1 THEN leaves[1] ELSE Null
           hashes == [k \in 1 .. 2 * h - 1 |->
                         IF k = 2 * h - 1 THEN MerkleRoot(leaves) ELSE node(k)]
<1>1. h > 0
  BY BelowRoot
<1>2. Proof(leaves) = hashes
  BY DEF Proof
<1>3. MerkleRoot(leaves) \in Seq(Int) /\ leaves[1] \in Seq(Int) /\ Null \in Seq(Int)
  <2>1. h \in 1 .. h
    BY <1>1
  <2>2. L[h][1] \in Digest
    BY <2>1, BelowRoot
  <2>3. leaves[1] \in Digest
    BY DEF Level
  <2> QED
    BY <2>2, <2>3 DEF Digest, MerkleRoot, Null
<1>4. ASSUME NEW k \in 1 .. 2 * h - 2 PROVE node(k) \in Seq(Int)
  <2>1. CASE k % 2 = 0
    <3>1. k \div 2 \in 1 .. h - 1
      BY <2>1
    <3>2. L[k \div 2][2] \in Digest
      BY <3>1, BelowRoot
    <3> QED
      BY <2>1, <3>2 DEF Digest
  <2>2. CASE k % 2 # 0
    BY <1>3, <2>2
  <2> QED
    BY <2>1, <2>2
<1>5. ASSUME NEW k \in 1 .. 2 * h - 1 PROVE hashes[k] \in Seq(Int)
  <2>1. k = 2 * h - 1 \/ k \in 1 .. 2 * h - 2
    OBVIOUS
  <2> HIDE DEF node
  <2> QED
    BY <1>3, <1>4, <2>1
<1>6. 2 * h - 1 \in Nat
  BY <1>1
<1>7. hashes \in Seq(Seq(Int)) /\ Len(hashes) = 2 * h - 1
  <2>1. hashes \in [1 .. 2 * h - 1 -> Seq(Int)]
    BY <1>5
  <2>2. Len(hashes) = 2 * h - 1
    <3> HIDE DEF node
    <3> QED
      BY <1>6
  <2> HIDE DEF hashes
  <2> QED
    BY <1>6, <2>1, <2>2
<1>8. hashes[2 * h - 1] = MerkleRoot(leaves)
  BY <1>1
<1>9. h > 1 => hashes[1] = leaves[1]
  <2> SUFFICES ASSUME h > 1 PROVE hashes[1] = leaves[1]
    OBVIOUS
  <2>1. 1 \in 1 .. 2 * h - 1 /\ 1 # 2 * h - 1 /\ 1 % 2 # 0
    OBVIOUS
  <2> QED
    BY <2>1
<1>10. ASSUME NEW d \in 1 .. h - 1
       PROVE  hashes[2 * d] = L[d][2] /\ (d > 1 => hashes[2 * d - 1] = Null)
  <2>1. 2 * d \in 1 .. 2 * h - 1 /\ 2 * d # 2 * h - 1 /\ (2 * d) % 2 = 0 /\ (2 * d) \div 2 = d
    OBVIOUS
  <2>2. hashes[2 * d] = L[d][2]
    BY <2>1
  <2>3. /\ 2 * d - 1 \in 1 .. 2 * h - 1 /\ 2 * d - 1 # 2 * h - 1 /\ (2 * d - 1) % 2 # 0
        /\ d > 1 => 2 * d - 1 # 1
    OBVIOUS
  <2>4. d > 1 => hashes[2 * d - 1] = Null
    BY <2>3
  <2> QED
    BY <2>2, <2>4
<1> HIDE DEF hashes
<1> QED
  BY <1>2, <1>7, <1>8, <1>9, <1>10

\* The branch has the neighbours and nothing else.
LEMMA BranchIs == ASSUME NEW leaves \in Level PROVE Branch(leaves) = Neighbours(leaves)
<1> DEFINE h == Height(leaves)
           L == Levels(leaves)
           root == MerkleRoot(leaves)
           upTo(d) == [i \in 1 .. d + 1 |-> IF i = 1 THEN leaves[1] ELSE L[i - 1][2]]
<1>1. h \in Nat /\ h > 0
  BY BelowRoot DEF Level
<1> DEFINE hashes == Proof(leaves)
<1>2. /\ hashes \in Seq(Seq(Int)) /\ Len(hashes) = 2 * h - 1 /\ hashes[2 * h - 1] = root
      /\ h > 1 => hashes[1] = leaves[1]
      /\ \A d \in 1 .. h - 1 :
            hashes[2 * d] = L[d][2] /\ (d > 1 => hashes[2 * d - 1] = Null)
  BY <1>1, ProofIs
<1>3. leaves[1] # Null /\ root # Null /\ \A d \in 1 .. h - 1 : L[d][2] # Null
  <2>1. h \in 1 .. h
    BY <1>1
  <2>2. L[h][1] \in Digest /\ \A d \in 1 .. h - 1 : L[d][2] \in Digest
    BY <2>1, BelowRoot
  <2>3. leaves[1] \in Digest
    BY DEF Level
  <2> QED
    BY <2>2, <2>3 DEF Digest, MerkleRoot, Null
<1> HIDE DEF hashes
<1>4. PICK kept :
        /\ WithoutGaps(hashes) = kept[2 * h - 1]
        /\ kept[0] = <<>>
        /\ \A k \in 1 .. 2 * h - 1 :
              kept[k] = IF hashes[k] = Null THEN kept[k - 1] ELSE Append(kept[k - 1], hashes[k])
  BY <1>2, KeptAre
<1> HIDE DEF h, root
<1>5. CASE h = 1
  <2>1. kept[1] = Append(<<>>, root)
    <3>1. 2 * h - 1 = 1 /\ 1 \in 1 .. 1 /\ 1 - 1 = 0
      BY <1>5
    <3>2. hashes[1] = root
      BY <1>2, <3>1
    <3>3. kept[1] = IF hashes[1] = Null THEN kept[1 - 1] ELSE Append(kept[1 - 1], hashes[1])
      BY <1>4, <3>1
    <3> QED
      BY <1>3, <1>4, <3>1, <3>2, <3>3
  <2>2. WithoutGaps(hashes) = Append(<<>>, root)
    BY <1>4, <1>5, <2>1
  <2>3. Branch(leaves) = SubSeq(Append(<<>>, root), 2, Len(Append(<<>>, root)) - 1)
    BY <2>2 DEF Branch, hashes
  <2>4. SubSeq(Append(<<>>, root), 2, Len(Append(<<>>, root)) - 1) = <<>>
    OBVIOUS
  <2>5. Neighbours(leaves) = <<>>
    BY <1>5 DEF Neighbours, h
  <2> QED
    BY <2>3, <2>4, <2>5
<1>6. CASE h > 1
  <2> DEFINE T == {d \in 1 .. h - 1 : kept[2 * d] = upTo(d)}
  <2>1. 1 \in T
    <3>1. /\ 1 \in 1 .. 2 * h - 1 /\ 2 \in 1 .. 2 * h - 1 /\ 1 \in 1 .. h - 1
      BY <1>1, <1>6
    <3>2. hashes[1] = leaves[1] /\ hashes[2] = L[1][2]
      BY <1>2, <1>6, <3>1
    <3>3. kept[1] = Append(<<>>, leaves[1])
      <4>1. kept[1] = IF hashes[1] = Null THEN kept[1 - 1] ELSE Append(kept[1 - 1], hashes[1])
        BY <1>4, <3>1, Zenon
      <4>2. 1 - 1 = 0
        OBVIOUS
      <4> QED
        BY <1>3, <1>4, <3>2, <4>1, <4>2, Zenon
    <3>4. kept[2] = Append(kept[1], L[1][2])
      <4>1. kept[2] = IF hashes[2] = Null THEN kept[2 - 1] ELSE Append(kept[2 - 1], hashes[2])
        BY <1>4, <3>1, Zenon
      <4>2. 2 - 1 = 1
        OBVIOUS
      <4> QED
        BY <1>3, <3>1, <3>2, <4>1, <4>2, Zenon
    <3>5. Append(Append(<<>>, leaves[1]), L[1][2]) = upTo(1)
      OBVIOUS
    <3> HIDE DEF upTo
    <3> QED
      BY <3>1, <3>3, <3>4, <3>5
  <2>2. ASSUME NEW d \in 1 .. (h - 1) - 1, d \in T PROVE d + 1 \in T
    <3>1. /\ d + 1 \in 1 .. h - 1 /\ d + 1 > 1 /\ d \in 1 .. h - 1
          /\ 2 * d + 1 \in 1 .. 2 * h - 1 /\ 2 * d + 2 \in 1 .. 2 * h - 1
          /\ (2 * d + 1) - 1 = 2 * d /\ (2 * d + 2) - 1 = 2 * d + 1
          /\ 2 * (d + 1) = 2 * d + 2 /\ 2 * (d + 1) - 1 = 2 * d + 1
      BY <1>1
    <3>2. hashes[2 * d + 1] = Null /\ hashes[2 * d + 2] = L[d + 1][2]
      BY <1>2, <3>1
    <3>3. kept[2 * d + 1] = kept[2 * d]
      BY <1>4, <3>1, <3>2
    <3>4. kept[2 * d + 2] = Append(kept[2 * d + 1], L[d + 1][2])
      BY <1>3, <1>4, <3>1, <3>2
    <3>5. kept[2 * d] = upTo(d)
      BY <2>2
    <3>6. Append(upTo(d), L[d + 1][2]) = upTo(d + 1)
      <4>1. d + 1 \in Nat /\ (d + 1) + 1 \in Nat /\ ((d + 1) + 1) - 1 = d + 1 /\ (d + 1) + 1 # 1
        BY <3>1
      <4>2. Len(upTo(d)) = d + 1
        BY <4>1
      <4> QED
        BY <4>1, <4>2
    <3> HIDE DEF upTo
    <3> QED
      BY <3>1, <3>3, <3>4, <3>5, <3>6
  <2>3. kept[2 * (h - 1)] = upTo(h - 1)
    <3>1. h - 1 \in Nat /\ h - 1 \in 1 .. h - 1
      BY <1>1, <1>6
    <3> HIDE DEF T
    <3>2. 1 .. h - 1 \subseteq T
      BY <2>1, <2>2, <3>1, UpTheTree
    <3>3. h - 1 \in T
      BY <3>1, <3>2
    <3> QED
      BY <3>3 DEF T
  <2>4. kept[2 * h - 1] = Append(upTo(h - 1), root)
    <3>1. 2 * h - 1 \in 1 .. 2 * h - 1 /\ (2 * h - 1) - 1 = 2 * (h - 1)
      BY <1>1, <1>6
    <3> HIDE DEF upTo
    <3> QED
      BY <1>2, <1>3, <1>4, <2>3, <3>1
  <2>5. upTo(h - 1) = [i \in 1 .. h |-> IF i = 1 THEN leaves[1] ELSE L[i - 1][2]]
    BY <1>1
  <2> DEFINE front == [i \in 1 .. h |-> IF i = 1 THEN leaves[1] ELSE L[i - 1][2]]
             whole == Append(front, root)
  <2>6. Branch(leaves) = SubSeq(whole, 2, Len(whole) - 1)
    <3>1. WithoutGaps(Proof(leaves)) = whole
      BY <1>4, <2>4, <2>5 DEF hashes
    <3> HIDE DEF whole
    <3> QED
      BY <3>1 DEF Branch
  <2>7. Len(whole) - 1 = h
    BY <1>1
  <2>8. SubSeq(whole, 2, h) = [i \in 1 .. h - 1 |-> L[i][2]]
    <3>1. SubSeq(whole, 2, h) = [i \in 1 .. h - 1 |-> whole[i + 1]]
      BY <1>1
    <3>2. ASSUME NEW i \in 1 .. h - 1 PROVE whole[i + 1] = L[i][2]
      <4>1. i + 1 \in 1 .. h /\ i + 1 # 1 /\ (i + 1) - 1 = i
        BY <1>1
      <4>2. whole[i + 1] = front[i + 1]
        BY <1>1, <4>1
      <4> QED
        BY <4>1, <4>2
    <3> HIDE DEF whole
    <3> QED
      BY <3>1, <3>2
  <2>9. Neighbours(leaves) = [i \in 1 .. h - 1 |-> L[i][2]]
    BY DEF Neighbours, h
  <2> HIDE DEF whole
  <2> QED
    BY <2>6, <2>7, <2>8, <2>9
<1> QED
  BY <1>1, <1>5, <1>6

\* Hashed with the neighbours one by one, the first leaf of a tree gives its root: of a
\* tree that differs from the one the branch was cut from in that leaf at most.
LEMMA RootAlongBranch ==
    ASSUME NEW a \in Level, NEW b \in Level, SameButFirst(a, b)
    PROVE  RootFrom(b[1], Branch(a)) = MerkleRoot(b)
<1> DEFINE h == Height(a)
           branch == Neighbours(a)
<1>1. h \in Nat /\ h > 0 /\ h <= Len(a) /\ Len(a) \in Nat
  BY BelowRoot DEF Level
<1>2. Height(b) = h
  BY SameTree
<1>3. branch \in Seq(Digest) /\ Len(branch) = h - 1 /\ b[1] \in Digest
  <2>1. branch = [i \in 1 .. h - 1 |-> Levels(a)[i][2]]
    BY DEF Neighbours
  <2>2. \A i \in 1 .. h - 1 : Levels(a)[i][2] \in Digest
    BY BelowRoot
  <2>3. b[1] \in Digest
    BY DEF Level
  <2> HIDE DEF branch, h
  <2> QED
    BY <1>1, <2>1, <2>2, <2>3
<1>4. PICK root :
        /\ RootFrom(b[1], branch) = root[h - 1]
        /\ root[0] = b[1]
        /\ \A i \in 1 .. h - 1 : root[i] = Hash(root[i - 1], branch[i])
  <2> HIDE DEF branch, h
  <2> QED
    BY <1>3, RootsAre
<1>5. ASSUME NEW d \in 1 .. h - 1
      PROVE  /\ branch[d] = Levels(b)[d][2]
             /\ Levels(b)[d + 1][1] = Hash(Levels(b)[d][1], branch[d])
  <2>1. branch[d] = Levels(a)[d][2]
    BY DEF Neighbours
  <2>2. d \in 1 .. Len(a)
    BY <1>1
  <2>3. SameButFirst(Levels(a)[d], Levels(b)[d]) /\ Len(Levels(a)[d]) > 1
    BY <2>2, SameTree, BelowRoot
  <2>4. 2 \in 2 .. Len(Levels(a)[d])
    <3>1. Levels(a)[d] \in Level
      BY <2>2, LevelsType
    <3> DEFINE k == Len(Levels(a)[d])
    <3>2. k \in Nat /\ k > 1
      BY <2>3, <3>1, LevelLength, Zenon
    <3> HIDE DEF k
    <3>3. 2 \in 2 .. k
      BY <3>2
    <3> QED
      BY <3>3 DEF k
  <2>5. Levels(a)[d][2] = Levels(b)[d][2]
    BY <2>3, <2>4 DEF SameButFirst
  <2>6. Levels(b)[d + 1][1] = Hash(Levels(b)[d][1], Levels(b)[d][2])
    BY <1>2, BelowRoot
  <2> QED
    BY <2>1, <2>5, <2>6
<1> DEFINE T == {d \in 1 .. h : root[d - 1] = Levels(b)[d][1]}
<1>6. 1 \in T
  BY <1>1, <1>4, LevelsAre
<1>7. ASSUME NEW d \in 1 .. h - 1, d \in T PROVE d + 1 \in T
  <2>1. d + 1 \in 1 .. h /\ (d + 1) - 1 = d
    BY <1>1
  <2>2. root[d] = Hash(root[d - 1], branch[d]) /\ root[d - 1] = Levels(b)[d][1]
    BY <1>4, <1>7
  <2>3. root[d] = Levels(b)[d + 1][1]
    BY <1>5, <2>2
  <2> QED
    BY <2>1, <2>3
<1>8. h \in T
  <2> HIDE DEF T, h
  <2>1. 1 .. h \subseteq T
    BY <1>1, <1>6, <1>7, UpTheTree
  <2> QED
    BY <1>1, <2>1
<1>9. RootFrom(b[1], branch) = MerkleRoot(b)
  BY <1>2, <1>4, <1>8 DEF MerkleRoot
<1> QED
  BY <1>9, BranchIs

-----------------------------------------------------------------------------
(* The block. *)

\* The transactions of a block under a coinbase.
Leaves(coinbase, n) == <<coinbase>> \o Others(n)

\* They are a level of a tree, the first.
LEMMA LeavesType ==
    ASSUME NEW coinbase \in Digest, NEW n \in Nat \ {0}
    PROVE  /\ Leaves(coinbase, n) \in Level
           /\ Len(Leaves(coinbase, n)) = n
           /\ Leaves(coinbase, n)[1] = coinbase
           /\ \A i \in 2 .. n : Leaves(coinbase, n)[i] = Leaf(i - 1)
<1>1. \A i \in Int : Leaf(i) \in Digest
  <2> SUFFICES ASSUME NEW i \in Int PROVE <<i>> \in Seq(Int) /\ <<i>> # <<>>
    BY DEF Leaf, Digest
  <2>1. <<i>> \in Seq(Int) /\ Len(<<i>>) = 1 /\ Len(<<>>) = 0
    OBVIOUS
  <2> QED
    BY <2>1
<1>2. Others(n) \in Seq(Digest) /\ Len(Others(n)) = n - 1
  BY <1>1 DEF Others
<1>3. \A i \in 1 .. n - 1 : Others(n)[i] = Leaf(i)
  BY DEF Others
<1>4. /\ <<coinbase>> \o Others(n) \in Seq(Digest)
      /\ Len(<<coinbase>> \o Others(n)) = n
      /\ (<<coinbase>> \o Others(n))[1] = coinbase
  BY <1>2
<1>5. ASSUME NEW i \in 2 .. n PROVE (<<coinbase>> \o Others(n))[i] = Leaf(i - 1)
  <2>1. (<<coinbase>> \o Others(n))[i] = Others(n)[i - 1]
    BY <1>2
  <2>2. i - 1 \in 1 .. n - 1
    OBVIOUS
  <2> QED
    BY <1>3, <2>1, <2>2
<1> QED
  BY <1>4, <1>5 DEF Leaves, Level

\* The header's root, computed along a branch made under the placeholder, is that of the
\* block's transactions.
LEMMA RootsAgree ==
    \A t \in Tip, n \in 1 .. MaxTransactions : RootOfJob[t][n] = RootOfBlock[t][n]
<1> SUFFICES ASSUME NEW t \in Tip, NEW n \in 1 .. MaxTransactions
             PROVE  RootOfJob[t][n] = RootOfBlock[t][n]
  OBVIOUS
<1>1. n \in Nat \ {0} /\ t \in Nat
  BY RotationAssumption DEF Tip
<1>2. Coinbase(t) \in Digest /\ Placeholder \in Digest
  <2> SUFFICES ASSUME NEW i \in Int PROVE <<i>> \in Seq(Int) /\ <<i>> # <<>>
    BY <1>1 DEF Coinbase, Placeholder, Leaf, Digest
  <2>1. <<i>> \in Seq(Int) /\ Len(<<i>>) = 1 /\ Len(<<>>) = 0
    OBVIOUS
  <2> QED
    BY <2>1
<1> DEFINE a == Leaves(Placeholder, n)
           b == Leaves(Coinbase(t), n)
<1>3. /\ a \in Level /\ Len(a) = n /\ \A i \in 2 .. n : a[i] = Leaf(i - 1)
      /\ b \in Level /\ Len(b) = n /\ \A i \in 2 .. n : b[i] = Leaf(i - 1)
      /\ b[1] = Coinbase(t)
  BY <1>1, <1>2, LeavesType
<1>4. /\ RootOfJob[t][n] = RootFrom(Coinbase(t), Branch(a))
      /\ RootOfBlock[t][n] = MerkleRoot(b)
  BY DEF RootOfJob, RootOfBlock, Leaves
<1> HIDE DEF a, b
<1>5. SameButFirst(a, b)
  BY <1>3 DEF SameButFirst
<1>6. RootFrom(b[1], Branch(a)) = MerkleRoot(b)
  BY <1>3, <1>5, RootAlongBranch
<1> QED
  BY <1>3, <1>4, <1>6

\* The block submitted for a share (copyAndUpdateBlock) has the header the miner hashed
\* and the pool checked, and its Merkle root is that of its transactions, for any number
\* of them.
THEOREM MinedIsSubmitted == Spec => []BlockIsWhatWasMined
<1>1. TypeInv => BlockIsWhatWasMined
  <2> SUFFICES ASSUME TypeInv, NEW l \in last, NEW mask \in SUBSET MinerBits,
                      NEW n \in 1 .. MaxTransactions
               PROVE  LET j == l.job
                          block == Block(j, mask, j.ntime, n)
                          root == RootOfBlock[block.transactions.tip][block.transactions.number]
                      IN /\ CheckedHeader(j, mask, j.ntime, n) = MinedHeader(j, mask, n)
                         /\ block.header = MinedHeader(j, mask, n)
                         /\ block.header.merkleRoot = root
    BY DEF BlockIsWhatWasMined
  <2> DEFINE j == l.job
             block == Block(j, mask, j.ntime, n)
  <2>1. j.template.tip \in Tip
    BY DEF TypeInv, TypeOK, LastJob, Job, Template
  <2>2. CheckedHeader(j, mask, j.ntime, n) = MinedHeader(j, mask, n)
    BY DEF CheckedHeader, MinedHeader
  <2>3. block.header = MinedHeader(j, mask, n)
    BY DEF Block, MinedHeader
  <2>4. block.header.merkleRoot = RootOfJob[j.template.tip][n]
    BY DEF Block, Header
  <2>5. block.transactions.tip = j.template.tip /\ block.transactions.number = n
    BY DEF Block
  <2>6. RootOfJob[j.template.tip][n] = RootOfBlock[j.template.tip][n]
    BY <2>1, RootsAgree
  <2> QED
    BY <2>2, <2>3, <2>4, <2>5, <2>6
<1>2. Spec => []TypeInv
  <2>1. TypeInv /\ [Next]_vars => TypeInv'
    BY TypeStep
  <2> QED
    BY Starting, <2>1, PTL DEF Spec
<1> QED
  BY <1>1, <1>2, PTL
=============================================================================
