------------------------ MODULE ShareStatisticsProofs ------------------------
(* Theorems about ShareStatistics, for any numbers of slots, shares, failures *)
(* and statements under way.                                                  *)
EXTENDS ShareStatistics, SequenceTheorems, TLAPS

-----------------------------------------------------------------------------
(* A sequence without one of its elements. *)

\* The others keep their order: those behind it move up by one.
LEMMA Removed ==
    ASSUME NEW S, NEW s \in Seq(S), NEW i \in DOMAIN s
    PROVE  /\ RemoveAt(s, i) \in Seq(S)
           /\ Len(s) \in Nat /\ Len(s) >= 1
           /\ Len(RemoveAt(s, i)) = Len(s) - 1
           /\ \A j \in 1 .. Len(s) - 1 :
                 RemoveAt(s, i)[j] = IF j < i THEN s[j] ELSE s[j + 1]
<1> DEFINE n == Len(s)
           p == SubSeq(s, 1, i - 1)
           q == SubSeq(s, i + 1, n)
<1>1. n \in Nat /\ i \in 1 .. n /\ i \in Int /\ n >= 1
  OBVIOUS
<1>2. /\ p \in Seq(S) /\ Len(p) = i - 1
      /\ \A j \in 1 .. i - 1 : p[j] = s[j]
  BY <1>1, SubSeqProperties
<1>3. /\ q \in Seq(S) /\ Len(q) = n - i
      /\ \A j \in 1 .. n - i : q[j] = s[i + j]
  <2>1. i + 1 \in Int /\ \A j \in i + 1 .. n : s[j] \in S
    BY <1>1
  <2>2. /\ q \in Seq(S)
        /\ Len(q) = IF i + 1 <= n THEN n - (i + 1) + 1 ELSE 0
        /\ \A j \in 1 .. n - (i + 1) + 1 : q[j] = s[(i + 1) + j - 1]
    BY <1>1, <2>1, SubSeqProperties
  <2>3. \A j \in 1 .. n - i : j \in 1 .. n - (i + 1) + 1 /\ (i + 1) + j - 1 = i + j
    BY <1>1
  <2>4. \A j \in 1 .. n - i : q[j] = s[i + j]
    BY <2>2, <2>3
  <2>5. Len(q) = n - i
    BY <1>1, <2>2
  <2> QED
    BY <2>2, <2>4, <2>5
<1> HIDE DEF n, p, q
<1>4. /\ p \o q \in Seq(S) /\ Len(p \o q) = n - 1
      /\ \A j \in 1 .. n - 1 :
            (p \o q)[j] = IF j <= i - 1 THEN p[j] ELSE q[j - (i - 1)]
  <2>1. /\ p \o q \in Seq(S) /\ Len(p \o q) = Len(p) + Len(q)
        /\ \A j \in 1 .. Len(p) + Len(q) :
              (p \o q)[j] = IF j <= Len(p) THEN p[j] ELSE q[j - Len(p)]
    BY <1>2, <1>3, ConcatProperties
  <2>2. Len(p) + Len(q) = n - 1
    BY <1>1, <1>2, <1>3
  <2> QED
    BY <1>2, <2>1, <2>2
<1>5. ASSUME NEW j \in 1 .. n - 1
      PROVE  (p \o q)[j] = IF j < i THEN s[j] ELSE s[j + 1]
  <2>1. CASE j < i
    <3>1. j <= i - 1 /\ j \in 1 .. i - 1
      BY <1>1, <2>1
    <3> QED
      BY <1>2, <1>4, <2>1, <3>1
  <2>2. CASE ~(j < i)
    <3>1. ~(j <= i - 1) /\ j - (i - 1) \in 1 .. n - i /\ i + (j - (i - 1)) = j + 1
      BY <1>1, <2>2
    <3> QED
      BY <1>3, <1>4, <2>2, <3>1
  <2> QED
    BY <2>1, <2>2
<1>6. RemoveAt(s, i) = p \o q
  BY DEF RemoveAt, n, p, q
<1> QED
  BY <1>1, <1>4, <1>5, <1>6 DEF n

\* A statement that is issued comes last.
LEMMA Issued ==
    ASSUME NEW S, NEW s \in Seq(S), NEW e \in S
    PROVE  /\ s \o <<e>> \in Seq(S)
           /\ Len(s) \in Nat
           /\ Len(s \o <<e>>) = Len(s) + 1
           /\ \A j \in 1 .. Len(s) : (s \o <<e>>)[j] = s[j]
           /\ (s \o <<e>>)[Len(s) + 1] = e
<1>1. <<e>> \in Seq(S) /\ Len(<<e>>) = 1 /\ <<e>>[1] = e
  OBVIOUS
<1>2. /\ s \o <<e>> \in Seq(S) /\ Len(s \o <<e>>) = Len(s) + Len(<<e>>)
      /\ \A j \in 1 .. Len(s) + Len(<<e>>) :
            (s \o <<e>>)[j] = IF j <= Len(s) THEN s[j] ELSE <<e>>[j - Len(s)]
  BY <1>1, ConcatProperties
<1>3. Len(s) \in Nat
  OBVIOUS
<1>4. Len(s) + 1 \in 1 .. Len(s) + 1 /\ ~(Len(s) + 1 <= Len(s)) /\ (Len(s) + 1) - Len(s) = 1
  BY <1>3
<1>5. (s \o <<e>>)[Len(s) + 1] = e
  BY <1>1, <1>2, <1>4
<1>6. \A j \in 1 .. Len(s) : j \in 1 .. Len(s) + 1 /\ j <= Len(s)
  BY <1>3
<1> QED
  BY <1>1, <1>2, <1>3, <1>5, <1>6

-----------------------------------------------------------------------------
(* Type correctness. *)

\* Every variable has its type at the start.
LEMMA InitType == Init => TypeOK
<1> SUFFICES ASSUME Init PROVE TypeOK
  OBVIOUS
<1>1. slotNow \in Slot
  BY StatisticsAssumption DEF Init, Slot
<1>2. <<>> \in Seq(Nat) /\ <<>> \in Seq(Statement)
  OBVIOUS
<1>3. rows \in [Slot -> Seq(Nat)] /\ credited \in [Slot -> Nat]
  BY <1>2 DEF Init
<1> QED
  BY <1>1, <1>2, <1>3 DEF Init, TypeOK

\* The statements of a step that issues one, or none.
LEMMA CreditType ==
    ASSUME TypeOK, NEW new, Credit(new), new = <<>> \/ \E st \in Statement : new = <<st>>
    PROVE  statements' \in Seq(Statement) /\ credited' \in [Slot -> Nat]
<1>1. statements' \in Seq(Statement)
  <2>1. CASE new = <<>>
    BY <2>1, ConcatEmptySeq DEF Credit, TypeOK
  <2>2. CASE \E st \in Statement : new = <<st>>
    BY <2>2, Issued DEF Credit, TypeOK
  <2> QED
    BY <2>1, <2>2
<1> QED
  BY <1>1 DEF Credit, TypeOK

\* What addShares does up to its await keeps the types.
LEMMA AddSharesType == TypeOK /\ AddShares => TypeOK'
<1> SUFFICES ASSUME TypeOK, AddShares PROVE TypeOK'
  OBVIOUS
<1>1. CASE FirstShare
  <2> DEFINE st == [kind |-> "first", slot |-> slotNow, count |-> acceptedCount + 1,
                    next |-> slotNow]
  <2>1. st \in Statement
    BY DEF TypeOK, Statement
  <2>2. statements' \in Seq(Statement) /\ credited' \in [Slot -> Nat]
    BY <1>1, <2>1, CreditType DEF FirstShare
  <2> QED
    BY <1>1, <2>2 DEF FirstShare, Credit, TypeOK
<1>2. CASE ShareOfNextSlot
  <2> DEFINE st == [kind |-> "close", slot |-> currentTimeSlot, count |-> acceptedCount,
                    next |-> slotNow]
  <2>1. st \in Statement
    BY <1>2 DEF ShareOfNextSlot, SlotEnded, TypeOK, Statement
  <2>2. statements' \in Seq(Statement) /\ credited' \in [Slot -> Nat]
    BY <1>2, <2>1, CreditType DEF ShareOfNextSlot
  <2>3. raced' \in BOOLEAN
    BY <1>2 DEF ShareOfNextSlot
  <2> QED
    BY <1>2, <2>2, <2>3 DEF ShareOfNextSlot, Credit, TypeOK
<1>3. CASE ShareAndSave
  <2> DEFINE st == [kind |-> "flush", slot |-> slotNow, count |-> acceptedCount + 1,
                    next |-> slotNow]
  <2>1. st \in Statement
    BY DEF TypeOK, Statement
  <2>2. statements' \in Seq(Statement) /\ credited' \in [Slot -> Nat]
    BY <1>3, <2>1, CreditType DEF ShareAndSave
  <2> QED
    BY <1>3, <2>2 DEF ShareAndSave, Credit, TypeOK
<1>4. CASE ShareInMemory
  <2>1. statements' \in Seq(Statement) /\ credited' \in [Slot -> Nat]
    BY <1>4, CreditType DEF ShareInMemory
  <2> QED
    BY <1>4, <2>1 DEF ShareInMemory, Credit, TypeOK
<1> QED
  BY <1>1, <1>2, <1>3, <1>4 DEF AddShares

\* What a statement does to the rows: an update keeps their number, an insert adds one.
LEMMA RowsEffect ==
    ASSUME TypeOK, NEW i \in DOMAIN statements, NEW st, st = statements[i],
           rows' = Executed(st)
    PROVE  /\ st \in Statement
           /\ rows' \in [Slot -> Seq(Nat)]
           /\ \A t \in Slot \ {st.slot} : rows'[t] = rows[t]
           /\ st.kind \in {"flush", "close"} =>
                 /\ Len(rows'[st.slot]) = Len(rows[st.slot])
                 /\ Len(rows[st.slot]) = 1 => rows'[st.slot] = <<st.count>>
           /\ st.kind \notin {"flush", "close"} /\ rows[st.slot] = <<>> =>
                 Len(rows'[st.slot]) = 1
<1>1. st \in Statement /\ st.slot \in Slot /\ st.count \in Nat
  <2>1. statements \in Seq(Statement)
    BY DEF TypeOK
  <2>2. st \in Statement
    BY <2>1
  <2> QED
    BY <2>2 DEF Statement
<1> DEFINE n == Len(rows[st.slot])
<1>2. rows[st.slot] \in Seq(Nat) /\ n \in Nat
  BY <1>1 DEF TypeOK
<1>3. CASE st.kind \in {"flush", "close"}
  <2> DEFINE f == [j \in 1 .. n |-> st.count]
  <2>1. f \in Seq(Nat) /\ Len(f) = n
    BY <1>1, <1>2
  <2>2. n = 1 => f = <<st.count>>
    BY <1>1, <1>2
  <2>3. rows' = [rows EXCEPT ![st.slot] = f]
    BY <1>3 DEF Executed
  <2> HIDE DEF f
  <2> QED
    BY <1>1, <1>3, <2>1, <2>2, <2>3 DEF TypeOK
<1>4. CASE st.kind \notin {"flush", "close"}
  <2> DEFINE f == Append(rows[st.slot], st.count)
  <2>1. f \in Seq(Nat) /\ (n = 0 => Len(f) = 1)
    BY <1>1, <1>2
  <2>2. rows' = [rows EXCEPT ![st.slot] = f]
    BY <1>4 DEF Executed
  <2>3. rows[st.slot] = <<>> => n = 0
    OBVIOUS
  <2> HIDE DEF f, n
  <2> QED
    BY <1>1, <1>4, <2>1, <2>2, <2>3 DEF TypeOK
<1> QED
  BY <1>3, <1>4

\* What the database does, and addShares after its await, keeps the types.
LEMMA ExecuteType ==
    ASSUME TypeOK, NEW i \in DOMAIN statements, Execute(i) \/ ExecuteFails(i)
    PROVE  TypeOK'
<1>0. statements \in Seq(Statement)
  BY DEF TypeOK
<1>1. statements[i] \in Statement /\ RemoveAt(statements, i) \in Seq(Statement)
  <2>1. statements[i] \in Statement
    BY <1>0
  <2>2. RemoveAt(statements, i) \in Seq(Statement)
    BY <1>0, Removed
  <2> QED
    BY <2>1, <2>2
<1>2. CASE Execute(i)
  <2>1. rows' \in [Slot -> Seq(Nat)]
    BY <1>2, RowsEffect DEF Execute
  <2>2. CASE Reopen(i)
    <3> DEFINE t == statements[i].next
               st == [kind |-> "open", slot |-> t, count |-> NewSlotCount, next |-> t]
    <3>1. t \in Slot /\ NewSlotCount \in Nat /\ st \in Statement
      BY <1>1 DEF Statement, NewSlotCount
    <3>2. statements' \in Seq(Statement)
      BY <1>1, <2>2, <3>1, AppendProperties DEF Reopen
    <3> QED
      BY <1>2, <2>1, <2>2, <3>1, <3>2 DEF Execute, Reopen, TypeOK
  <2>3. CASE Saved(i)
    BY <1>1, <1>2, <2>1, <2>3 DEF Execute, Saved, TypeOK
  <2> QED
    BY <1>2, <2>2, <2>3 DEF Execute
<1>3. CASE ExecuteFails(i)
  BY <1>1, <1>3 DEF ExecuteFails, TypeOK
<1> QED
  BY <1>2, <1>3

\* Every step keeps the types.
LEMMA TypeStep == TypeOK /\ [Next]_vars => TypeOK'
<1> SUFFICES ASSUME TypeOK, [Next]_vars PROVE TypeOK'
  OBVIOUS
<1>1. CASE UNCHANGED vars
  BY <1>1 DEF vars, TypeOK
<1>2. CASE NextSlot
  BY <1>2, StatisticsAssumption DEF NextSlot, TypeOK, Slot
<1>3. CASE MinutePasses
  BY <1>3 DEF MinutePasses, TypeOK
<1> QED
  BY <1>1, <1>2, <1>3, AddSharesType, ExecuteType DEF Next

\* Every variable keeps its type: no statement is issued for a slot that is not one.
THEOREM TypeCorrect == Spec => []TypeOK
BY InitType, TypeStep, PTL DEF Spec

-----------------------------------------------------------------------------
(* Honest counters, as long as no slot is closed with a statement under way. *)

Closes(st) == st.kind = "close"
Inserts(st) == st.kind \in {"first", "open"}

\* The slot being counted is none, or has a share, and no later slot has a row.
CountingInv ==
    /\ currentTimeSlot <= slotNow
    /\ currentTimeSlot = 0 =>
          statements = <<>> /\ acceptedCount = 0 /\ \A t \in Slot : credited[t] = 0
    /\ currentTimeSlot > 0 => acceptedCount >= 1
    /\ OneRowPerSlot
    /\ \A t \in Slot : t > currentTimeSlot => rows[t] = <<>>

\* Statements are about the slot being counted: its end is alone, and its one insert is
\* under way only while it has no row.
StatementsInv ==
    \A i \in DOMAIN statements :
        /\ statements[i].slot = currentTimeSlot
        /\ Closes(statements[i]) =>
              /\ Len(statements) = 1
              /\ statements[i].count = acceptedCount
              /\ currentTimeSlot < statements[i].next
              /\ statements[i].next <= slotNow
        /\ Inserts(statements[i]) =>
              /\ rows[currentTimeSlot] = <<>>
              /\ \A j \in DOMAIN statements : Inserts(statements[j]) => i = j

\* If nothing failed, the counts are honest, and the slot being counted has its row
\* unless the insert is under way.
HonestInv ==
    /\ Honest
    /\ currentTimeSlot > 0 /\ (\A i \in DOMAIN statements : ~Inserts(statements[i]))
          => Len(rows[currentTimeSlot]) = 1

StatisticsInv == CountingInv /\ StatementsInv /\ (failures = 0 => HonestInv)

\* Numbers and records there are.
LEMMA Typed ==
    ASSUME TypeOK
    PROVE  /\ statements \in Seq(Statement) /\ Len(statements) \in Nat
           /\ DOMAIN statements = 1 .. Len(statements)
           /\ slotNow \in Slot /\ slotNow \in Nat /\ slotNow >= 1
           /\ currentTimeSlot \in Nat /\ acceptedCount \in Nat /\ failures \in Nat
           /\ currentTimeSlot # 0 => currentTimeSlot \in Slot
           /\ \A t \in Slot : t \in Nat /\ t >= 1
           /\ \A i \in DOMAIN statements :
                 /\ statements[i] \in Statement
                 /\ statements[i].slot \in Slot /\ statements[i].next \in Slot
                 /\ statements[i].count \in Nat
                 /\ statements[i].kind \in {"first", "flush", "close", "open"}
<1>1. statements \in Seq(Statement)
  BY DEF TypeOK
<1>2. \A i \in DOMAIN statements : statements[i] \in Statement
  BY <1>1
<1>3. \A t \in Slot : t \in Nat /\ t >= 1
  BY StatisticsAssumption DEF Slot
<1>4. slotNow \in Slot /\ currentTimeSlot \in Slot \cup {0} /\ acceptedCount \in Nat
      /\ failures \in Nat
  BY DEF TypeOK
<1>5. \A i \in DOMAIN statements :
         /\ statements[i].slot \in Slot /\ statements[i].next \in Slot
         /\ statements[i].count \in Nat
         /\ statements[i].kind \in {"first", "flush", "close", "open"}
  BY <1>2 DEF Statement
<1>6. Len(statements) \in Nat /\ DOMAIN statements = 1 .. Len(statements)
  BY <1>1
<1>7. currentTimeSlot \in Nat /\ (currentTimeSlot # 0 => currentTimeSlot \in Slot)
  BY <1>3, <1>4
<1> QED
  BY <1>1, <1>2, <1>3, <1>4, <1>5, <1>6, <1>7

\* The slots that wait to be opened are those of the statements that close one.
LEMMA InOpening ==
    ASSUME NEW t
    PROVE  t \in Opening <=> \E i \in DOMAIN statements :
                                Closes(statements[i]) /\ statements[i].next = t
BY DEF Opening, ToSet, Closes

\* The first share of a session starts the count of its slot.
LEMMA FirstStep ==
    ASSUME TypeOK, TypeOK', StatisticsInv, FirstShare
    PROVE  StatisticsInv'
<1> DEFINE st == [kind |-> "first", slot |-> slotNow, count |-> acceptedCount + 1,
                  next |-> slotNow]
<1>1. /\ currentTimeSlot = 0 /\ currentTimeSlot' = slotNow /\ acceptedCount' = acceptedCount + 1
      /\ statements = <<>> /\ acceptedCount = 0 /\ \A t \in Slot : credited[t] = 0
      /\ UNCHANGED <<slotNow, rows, failures>>
  BY DEF FirstShare, Credit, StatisticsInv, CountingInv
<1>2. statements' = <<st>>
  <2>1. statements' = statements \o <<st>>
    BY DEF FirstShare, Credit
  <2>2. <<st>> \in Seq({st})
    OBVIOUS
  <2> QED
    BY <1>1, <2>1, <2>2, ConcatEmptySeq
<1>3. /\ DOMAIN statements' = {1} /\ statements'[1] = st
      /\ st.slot = slotNow /\ Inserts(st) /\ ~Closes(st)
  BY <1>2 DEF Inserts, Closes
<1>4. \A t \in Slot : rows[t] = <<>> /\ Len(rows[t]) = 0
  BY <1>1, Typed DEF StatisticsInv, CountingInv
<1>5. /\ credited'[slotNow] = 1
      /\ \A t \in Slot \ {slotNow} : credited'[t] = 0
  BY <1>1, Typed DEF FirstShare, Credit, TypeOK
<1>6. CountingInv'
  BY <1>1, <1>4, Typed DEF CountingInv, OneRowPerSlot
<1>7. StatementsInv'
  BY <1>1, <1>3, <1>4, Typed DEF StatementsInv, Closes, Inserts
<1>8. Opening' = {}
  BY <1>3 DEF Opening, ToSet, Closes
<1>9. Honest'
  BY <1>1, <1>4, <1>5, <1>8, Typed DEF Honest
<1>10. HonestInv'
  BY <1>3, <1>9 DEF HonestInv, Inserts
<1> QED
  BY <1>6, <1>7, <1>10 DEF StatisticsInv

\* A share of a later slot closes the slot, with nothing else under way.
LEMMA NextSlotStep ==
    ASSUME TypeOK, TypeOK', StatisticsInv, ShareOfNextSlot, statements = <<>>
    PROVE  StatisticsInv'
<1> DEFINE st == [kind |-> "close", slot |-> currentTimeSlot, count |-> acceptedCount,
                  next |-> slotNow]
<1>1. /\ currentTimeSlot # 0 /\ currentTimeSlot # slotNow
      /\ UNCHANGED <<slotNow, rows, failures, currentTimeSlot, acceptedCount>>
  BY DEF ShareOfNextSlot, Credit, SlotEnded
<1>2. statements' = <<st>>
  <2>1. statements' = statements \o <<st>>
    BY DEF ShareOfNextSlot, Credit
  <2>2. <<st>> \in Seq({st})
    OBVIOUS
  <2> QED
    BY <2>1, <2>2, ConcatEmptySeq
<1>3. /\ DOMAIN statements' = {1} /\ statements'[1] = st /\ Len(statements') = 1
      /\ st.slot = currentTimeSlot /\ ~Inserts(st) /\ Closes(st)
      /\ st.count = acceptedCount /\ st.next = slotNow
  BY <1>2 DEF Inserts, Closes
<1>4. currentTimeSlot < slotNow
  BY <1>1, Typed DEF StatisticsInv, CountingInv
<1>5. /\ credited'[slotNow] = credited[slotNow] + 1
      /\ \A t \in Slot \ {slotNow} : credited'[t] = credited[t]
  BY Typed DEF ShareOfNextSlot, Credit, TypeOK
<1>6. CountingInv'
  BY <1>1, Typed DEF StatisticsInv, CountingInv, OneRowPerSlot
<1>7. StatementsInv'
  <2>1. \A i \in DOMAIN statements' :
           /\ statements'[i].kind = "close" /\ statements'[i].slot = currentTimeSlot
           /\ statements'[i].count = acceptedCount /\ statements'[i].next = slotNow
    BY <1>3 DEF Closes
  <2> HIDE DEF st
  <2> QED
    BY <1>1, <1>3, <1>4, <2>1, Typed DEF StatementsInv, Closes, Inserts
<1>8. Opening = {} /\ Opening' = {slotNow}
  <2>1. DOMAIN statements = {}
    BY Typed
  <2> QED
    BY <1>3, <2>1 DEF Opening, ToSet, Closes
<1>9. ASSUME failures' = 0 PROVE HonestInv'
  <2>1. HonestInv
    BY <1>1, <1>9 DEF StatisticsInv
  <2>2. credited[slotNow] = 0
    BY <1>4, <1>8, <2>1, Typed DEF HonestInv, Honest
  <2>3. Honest'
    BY <1>1, <1>4, <1>5, <1>8, <2>1, <2>2, Typed DEF HonestInv, Honest
  <2>4. \A i \in DOMAIN statements : ~Inserts(statements[i])
    BY Typed
  <2> QED
    BY <1>1, <2>1, <2>3, <2>4 DEF HonestInv
<1> QED
  BY <1>6, <1>7, <1>9 DEF StatisticsInv

\* A share of the slot being counted is counted, with or without a statement.
LEMMA SameSlotStep ==
    ASSUME TypeOK, TypeOK', StatisticsInv, ShareAndSave \/ ShareInMemory
    PROVE  StatisticsInv'
<1>1. /\ currentTimeSlot = slotNow /\ acceptedCount' = acceptedCount + 1
      /\ UNCHANGED <<slotNow, rows, failures, currentTimeSlot>>
  BY DEF ShareAndSave, ShareInMemory, Credit
<1>2. /\ credited'[slotNow] = credited[slotNow] + 1
      /\ \A t \in Slot \ {slotNow} : credited'[t] = credited[t]
  BY Typed DEF ShareAndSave, ShareInMemory, Credit, TypeOK
<1>3. \A i \in DOMAIN statements : ~Closes(statements[i])
  BY <1>1, Typed DEF StatisticsInv, StatementsInv
<1>4. /\ DOMAIN statements \subseteq DOMAIN statements'
      /\ \A i \in DOMAIN statements : statements'[i] = statements[i]
      /\ \A i \in DOMAIN statements' \ DOMAIN statements :
            statements'[i].kind = "flush" /\ statements'[i].slot = slotNow
  <2>1. CASE ShareInMemory
    <3>1. statements' = statements
      BY <2>1, Typed, ConcatEmptySeq DEF ShareInMemory, Credit
    <3> QED
      BY <3>1
  <2>2. CASE ShareAndSave
    <3> DEFINE st == [kind |-> "flush", slot |-> slotNow, count |-> acceptedCount + 1,
                      next |-> slotNow]
               n == Len(statements)
    <3>1. statements' = statements \o <<st>> /\ st \in Statement
      BY <2>2, Typed DEF ShareAndSave, Credit, Statement
    <3>2. st.kind = "flush" /\ st.slot = slotNow
      OBVIOUS
    <3> HIDE DEF st
    <3>3. /\ Len(statements') = n + 1 /\ n \in Nat
          /\ \A j \in 1 .. n : statements'[j] = statements[j]
          /\ statements'[n + 1] = st
      BY <3>1, Typed, Issued
    <3>4. DOMAIN statements' = 1 .. n + 1 /\ DOMAIN statements = 1 .. n
      BY <3>3, Typed DEF TypeOK
    <3>5. 1 .. n + 1 = (1 .. n) \cup {n + 1}
      BY <3>3
    <3> QED
      BY <3>2, <3>3, <3>4, <3>5
  <2> QED
    BY <2>1, <2>2
<1>5. \A i \in DOMAIN statements' : /\ statements'[i].slot = slotNow
                                    /\ ~Closes(statements'[i])
                                    /\ Inserts(statements'[i]) => i \in DOMAIN statements
  BY <1>1, <1>3, <1>4 DEF Closes, Inserts, StatisticsInv, StatementsInv
<1>6. CountingInv'
  BY <1>1, Typed DEF StatisticsInv, CountingInv, OneRowPerSlot
<1>7. StatementsInv'
  BY <1>1, <1>4, <1>5 DEF StatisticsInv, StatementsInv, Inserts, Closes
<1>8. Opening = {} /\ Opening' = {}
  BY <1>3, <1>5 DEF Opening, ToSet, Closes
<1>9. ASSUME failures' = 0 PROVE HonestInv'
  <2>1. HonestInv
    BY <1>1, <1>9 DEF StatisticsInv
  <2>2. Honest'
    <3>1. \A t \in Slot : t # slotNow => credited'[t] = credited[t]
      BY <1>2
    <3>2. acceptedCount' = credited'[slotNow]
      BY <1>1, <1>2, <2>1, Typed DEF HonestInv, Honest
    <3>3. ASSUME NEW t \in Slot, t # slotNow
          PROVE  /\ t < slotNow => rows[t] = IF credited'[t] = 0 THEN <<>> ELSE <<credited'[t]>>
                 /\ t > slotNow => credited'[t] = 0
      BY <1>1, <1>8, <2>1, <3>1, <3>3 DEF HonestInv, Honest
    <3>4. \A t \in Slot : t < slotNow \/ t > slotNow => t # slotNow
      BY Typed
    <3> QED
      BY <1>1, <1>8, <3>2, <3>3, <3>4 DEF Honest
  <2>3. (\A i \in DOMAIN statements' : ~Inserts(statements'[i]))
           => \A i \in DOMAIN statements : ~Inserts(statements[i])
    BY <1>4
  <2> QED
    BY <1>1, <2>1, <2>2, <2>3 DEF HonestInv, Inserts
<1> QED
  BY <1>6, <1>7, <1>9 DEF StatisticsInv

\* The statements without one of them: each is one of the others, and two are two.
LEMMA Rest ==
    ASSUME TypeOK, NEW i \in DOMAIN statements, NEW r, r = RemoveAt(statements, i)
    PROVE  /\ DOMAIN r = 1 .. Len(statements) - 1
           /\ \A j, l \in DOMAIN r : \E k, m \in DOMAIN statements \ {i} :
                 r[j] = statements[k] /\ r[l] = statements[m] /\ (k = m => j = l)
           /\ \A k \in DOMAIN statements \ {i} : \E j \in DOMAIN r : r[j] = statements[k]
<1> DEFINE n == Len(statements)
           at(j) == IF j < i THEN j ELSE j + 1
<1>1. n \in Nat /\ DOMAIN statements = 1 .. n /\ i \in 1 .. n
  BY Typed
<1>2. /\ r \in Seq(Statement) /\ Len(r) = n - 1
      /\ \A j \in 1 .. n - 1 : r[j] = IF j < i THEN statements[j] ELSE statements[j + 1]
  BY Typed, Removed
<1>3. DOMAIN r = 1 .. n - 1
  BY <1>2
<1>4. \A j \in 1 .. n - 1 : at(j) \in (1 .. n) \ {i} /\ r[j] = statements[at(j)]
  BY <1>1, <1>2
<1>5. \A j, l \in 1 .. n - 1 : at(j) = at(l) => j = l
  BY <1>1
<1>6. ASSUME NEW k \in DOMAIN statements \ {i}
      PROVE  \E j \in DOMAIN r : r[j] = statements[k]
  <2>1. CASE k < i
    <3>1. k \in 1 .. n - 1
      BY <1>1, <2>1
    <3> QED
      BY <1>2, <1>3, <2>1, <3>1
  <2>2. CASE ~(k < i)
    <3>1. k - 1 \in 1 .. n - 1 /\ ~(k - 1 < i) /\ (k - 1) + 1 = k
      BY <1>1, <2>2
    <3> QED
      BY <1>2, <1>3, <3>1
  <2> QED
    BY <2>1, <2>2
<1> HIDE DEF at
<1>7. ASSUME NEW j \in DOMAIN r, NEW l \in DOMAIN r
      PROVE  \E k, m \in DOMAIN statements \ {i} :
                r[j] = statements[k] /\ r[l] = statements[m] /\ (k = m => j = l)
  <2>1. /\ at(j) \in DOMAIN statements \ {i} /\ at(l) \in DOMAIN statements \ {i}
        /\ r[j] = statements[at(j)] /\ r[l] = statements[at(l)]
        /\ at(j) = at(l) => j = l
    BY <1>1, <1>3, <1>4, <1>5
  <2> QED
    BY <2>1
<1> QED
  BY <1>3, <1>6, <1>7

\* With one statement less, executed or failed, those that are left are as they should.
LEMMA RestStatements ==
    ASSUME TypeOK, StatementsInv, NEW i \in DOMAIN statements,
           statements' = RemoveAt(statements, i), ~Closes(statements[i]),
           UNCHANGED <<slotNow, currentTimeSlot, acceptedCount>>,
           Inserts(statements[i]) \/ rows[currentTimeSlot] = <<>>
              => Inserts(statements[i]) \/ rows'[currentTimeSlot] = <<>>
    PROVE  /\ StatementsInv'
           /\ Opening = {} /\ Opening' = {}
           /\ ~Inserts(statements[i]) /\ (\A j \in DOMAIN statements' : ~Inserts(statements'[j]))
                 => \A j \in DOMAIN statements : ~Inserts(statements[j])
<1>1. /\ \A j \in DOMAIN statements' : \E k \in DOMAIN statements \ {i} :
            statements'[j] = statements[k]
      /\ \A j, l \in DOMAIN statements' : \E k, m \in DOMAIN statements \ {i} :
            /\ statements'[j] = statements[k] /\ statements'[l] = statements[m]
            /\ k = m => j = l
      /\ \A k \in DOMAIN statements \ {i} : \E j \in DOMAIN statements' :
            statements'[j] = statements[k]
  BY Rest
<1>2. \A j \in DOMAIN statements : ~Closes(statements[j])
  <2> SUFFICES ASSUME NEW j \in DOMAIN statements, Closes(statements[j]) PROVE FALSE
    OBVIOUS
  <2>1. Len(statements) = 1
    BY DEF StatementsInv
  <2>2. i = j
    BY <2>1, Typed
  <2> QED
    BY <2>2
<1>3. \A j \in DOMAIN statements' :
         statements'[j].slot = currentTimeSlot /\ ~Closes(statements'[j])
  <2> SUFFICES ASSUME NEW j \in DOMAIN statements'
               PROVE  statements'[j].slot = currentTimeSlot /\ ~Closes(statements'[j])
    OBVIOUS
  <2>1. PICK k \in DOMAIN statements : statements'[j] = statements[k]
    BY <1>1
  <2> QED
    BY <1>2, <2>1 DEF StatementsInv, Closes
<1>4. ASSUME NEW j \in DOMAIN statements', Inserts(statements'[j])
      PROVE  /\ rows'[currentTimeSlot] = <<>>
             /\ \A l \in DOMAIN statements' : Inserts(statements'[l]) => j = l
  <2>1. PICK k \in DOMAIN statements \ {i} : statements'[j] = statements[k]
    BY <1>1
  <2>2. rows[currentTimeSlot] = <<>> /\ ~Inserts(statements[i])
    BY <1>4, <2>1 DEF StatementsInv
  <2>3. ASSUME NEW l \in DOMAIN statements', Inserts(statements'[l]) PROVE j = l
    <3>1. PICK a, b \in DOMAIN statements \ {i} :
             /\ statements'[j] = statements[a] /\ statements'[l] = statements[b]
             /\ a = b => j = l
      BY <1>1
    <3> QED
      BY <1>4, <2>3, <3>1 DEF StatementsInv
  <2> QED
    BY <2>2, <2>3
<1>5. StatementsInv'
  BY <1>3, <1>4 DEF StatementsInv, Closes, Inserts
<1>6. Opening = {} /\ Opening' = {}
  BY <1>2, <1>3 DEF Opening, ToSet, Closes
<1> QED
  BY <1>1, <1>5, <1>6

\* A statement that is not a close is executed and its submission is done.
LEMMA SavedStep ==
    ASSUME TypeOK, TypeOK', StatisticsInv, NEW i \in DOMAIN statements, Execute(i),
           ~Closes(statements[i])
    PROVE  StatisticsInv'
<1> DEFINE st == statements[i]
<1>1. /\ statements' = RemoveAt(statements, i)
      /\ UNCHANGED <<slotNow, currentTimeSlot, acceptedCount, credited, failures>>
  BY DEF Execute, Saved, Closes
<1>2. st.slot = currentTimeSlot /\ currentTimeSlot \in Slot
      /\ (Inserts(st) => rows[currentTimeSlot] = <<>>)
  BY Typed DEF StatisticsInv, StatementsInv
<1>3. /\ \A t \in Slot \ {currentTimeSlot} : rows'[t] = rows[t]
      /\ ~Inserts(st) => Len(rows'[currentTimeSlot]) = Len(rows[currentTimeSlot])
      /\ Inserts(st) => Len(rows'[currentTimeSlot]) = 1
  <2>1. rows' = Executed(st)
    BY DEF Execute
  <2>2. /\ \A t \in Slot \ {st.slot} : rows'[t] = rows[t]
        /\ st.kind \in {"flush", "close"} => Len(rows'[st.slot]) = Len(rows[st.slot])
        /\ st.kind \notin {"flush", "close"} /\ rows[st.slot] = <<>> =>
              Len(rows'[st.slot]) = 1
    BY <2>1, RowsEffect
  <2>3. st.kind \in {"first", "flush", "close", "open"}
    BY Typed
  <2> QED
    BY <1>2, <2>2, <2>3 DEF Inserts
<1>4. ~Inserts(st) /\ rows[currentTimeSlot] = <<>> => rows'[currentTimeSlot] = <<>>
  <2>1. rows'[currentTimeSlot] \in Seq(Nat)
    BY <1>1, <1>2 DEF TypeOK
  <2> QED
    BY <1>3, <2>1, EmptySeq
<1>5. /\ StatementsInv' /\ Opening = {} /\ Opening' = {}
      /\ ~Inserts(st) /\ (\A j \in DOMAIN statements' : ~Inserts(statements'[j]))
            => \A j \in DOMAIN statements : ~Inserts(statements[j])
  BY <1>1, <1>4, RestStatements DEF StatisticsInv
<1>6. CountingInv'
  <2>1. statements # <<>>
    BY Typed
  <2>2. ASSUME NEW t \in Slot PROVE Len(rows'[t]) <= 1
    <3>1. Len(rows[t]) <= 1
      BY DEF StatisticsInv, CountingInv, OneRowPerSlot
    <3>2. CASE t = currentTimeSlot
      <4>1. CASE Inserts(st)
        <5>1. Len(rows'[t]) = 1
          BY <1>3, <3>2, <4>1
        <5> QED
          BY <5>1
      <4>2. CASE ~Inserts(st)
        BY <1>3, <3>1, <3>2, <4>2
      <4> QED
        BY <4>1, <4>2
    <3>3. CASE t # currentTimeSlot
      BY <1>3, <3>1, <3>3
    <3> QED
      BY <3>2, <3>3
  <2>3. ASSUME NEW t \in Slot, t > currentTimeSlot PROVE rows'[t] = <<>>
    <3>1. t # currentTimeSlot
      BY <2>3, Typed
    <3> QED
      BY <1>3, <2>3, <3>1 DEF StatisticsInv, CountingInv
  <2> QED
    BY <1>1, <2>1, <2>2, <2>3 DEF StatisticsInv, CountingInv, OneRowPerSlot
<1>7. ASSUME failures' = 0 PROVE HonestInv'
  <2>1. HonestInv
    BY <1>1, <1>7 DEF StatisticsInv
  <2>2. \A t \in Slot : t < currentTimeSlot => rows'[t] = rows[t]
    BY <1>3, Typed
  <2>3. Honest'
    BY <1>1, <1>5, <2>1, <2>2 DEF HonestInv, Honest
  <2>4. currentTimeSlot > 0 /\ (\A j \in DOMAIN statements' : ~Inserts(statements'[j]))
           => Len(rows'[currentTimeSlot]) = 1
    BY <1>3, <1>5, <2>1 DEF HonestInv
  <2> QED
    BY <1>1, <2>3, <2>4 DEF HonestInv, Inserts
<1> QED
  BY <1>5, <1>6, <1>7 DEF StatisticsInv

\* The update of the slot that ended is executed: its row has the count, and the share
\* that ended it opens its own slot.
LEMMA ReopenStep ==
    ASSUME TypeOK, TypeOK', StatisticsInv, NEW i \in DOMAIN statements, Execute(i),
           Closes(statements[i])
    PROVE  StatisticsInv'
<1> DEFINE st == statements[i]
           t == st.next
           new == [kind |-> "open", slot |-> t, count |-> NewSlotCount, next |-> t]
<1>1. /\ currentTimeSlot' = t /\ acceptedCount' = 1
      /\ UNCHANGED <<slotNow, credited, failures>>
      /\ statements' = Append(RemoveAt(statements, i), new)
      /\ rows' = Executed(st)
  BY DEF Execute, Reopen, Closes, NewSlotCount
<1>2. /\ Len(statements) = 1 /\ st.count = acceptedCount /\ st.slot = currentTimeSlot
      /\ currentTimeSlot < t /\ t <= slotNow
      /\ currentTimeSlot \in Slot /\ t \in Slot
      /\ ~Inserts(st)
  BY Typed DEF StatisticsInv, StatementsInv, Closes, Inserts
<1>3. DOMAIN statements = {i} /\ i = 1
  BY <1>2, Typed
<1>4. statements' = <<new>>
  <2>1. RemoveAt(statements, i) \in Seq(Statement) /\ Len(RemoveAt(statements, i)) = 0
    BY <1>2, Removed, Typed
  <2>2. RemoveAt(statements, i) = <<>>
    BY <2>1, EmptySeq
  <2> QED
    BY <1>1, <2>2
<1>5. /\ DOMAIN statements' = {1} /\ statements'[1].kind = "open"
      /\ statements'[1].slot = t
  BY <1>4
<1>6. Opening = {t} /\ Opening' = {}
  BY <1>3, <1>5 DEF Opening, ToSet, Closes
<1>7. /\ \A u \in Slot \ {currentTimeSlot} : rows'[u] = rows[u]
      /\ Len(rows'[currentTimeSlot]) = Len(rows[currentTimeSlot])
      /\ Len(rows[currentTimeSlot]) = 1 => rows'[currentTimeSlot] = <<acceptedCount>>
  <2>1. st.kind = "close"
    BY DEF Closes
  <2>2. /\ \A u \in Slot \ {st.slot} : rows'[u] = rows[u]
        /\ st.kind \in {"flush", "close"} =>
              /\ Len(rows'[st.slot]) = Len(rows[st.slot])
              /\ Len(rows[st.slot]) = 1 => rows'[st.slot] = <<st.count>>
    BY <1>1, RowsEffect
  <2> QED
    BY <1>2, <2>1, <2>2
<1>8. \A u \in Slot : u > currentTimeSlot => rows'[u] = <<>>
  BY <1>2, <1>7, Typed DEF StatisticsInv, CountingInv
<1>9. CountingInv'
  <2>1. \A u \in Slot : Len(rows'[u]) <= 1
    BY <1>2, <1>7 DEF StatisticsInv, CountingInv, OneRowPerSlot
  <2>2. t > 0 /\ \A u \in Slot : u > t => u > currentTimeSlot
    BY <1>2, Typed
  <2> QED
    BY <1>1, <1>2, <1>8, <2>1, <2>2 DEF CountingInv, OneRowPerSlot
<1>10. StatementsInv'
  BY <1>1, <1>2, <1>5, <1>8, Typed DEF StatementsInv, Closes, Inserts
<1>11. ASSUME failures' = 0 PROVE HonestInv'
  <2>1. Honest /\ Len(rows[currentTimeSlot]) = 1
    <3>1. HonestInv
      BY <1>1, <1>11 DEF StatisticsInv
    <3>2. \A j \in DOMAIN statements : ~Inserts(statements[j])
      BY <1>2, <1>3
    <3>3. currentTimeSlot > 0
      BY <1>2, Typed
    <3> QED
      BY <3>1, <3>2, <3>3 DEF HonestInv
  <2>2. credited[currentTimeSlot] = acceptedCount /\ acceptedCount # 0
    <3>1. credited[currentTimeSlot] = acceptedCount
      BY <1>2, <2>1 DEF Honest
    <3>2. currentTimeSlot > 0 /\ acceptedCount >= 1
      BY <1>2, Typed DEF StatisticsInv, CountingInv
    <3> QED
      BY <3>1, <3>2, Typed
  <2>3. \A u \in Slot : u > currentTimeSlot => credited[u] = IF u = t THEN 1 ELSE 0
    BY <1>6, <2>1 DEF Honest
  <2>4. ASSUME NEW u \in Slot, u < t
        PROVE  rows'[u] = IF credited[u] = 0 THEN <<>> ELSE <<credited[u]>>
    <3>1. CASE u < currentTimeSlot
      <4>1. u # currentTimeSlot
        BY <3>1, Typed
      <4> QED
        BY <1>7, <2>1, <3>1, <4>1 DEF Honest
    <3>2. CASE u = currentTimeSlot
      BY <1>7, <2>1, <2>2, <3>2
    <3>3. CASE u > currentTimeSlot
      <4>1. u # t
        BY <1>2, <2>4, Typed
      <4> QED
        BY <1>8, <2>3, <3>3, <4>1
    <3> QED
      BY <3>1, <3>2, <3>3, Typed
  <2>5. credited[t] = 1 /\ \A u \in Slot : u > t => credited[u] = 0
    <3>1. \A u \in Slot : u > t => u > currentTimeSlot /\ u # t
      BY <1>2, Typed
    <3> QED
      BY <1>2, <2>3, <3>1
  <2>6. Honest'
    BY <1>1, <1>6, <2>4, <2>5 DEF Honest
  <2>7. \E j \in DOMAIN statements' : Inserts(statements'[j])
    BY <1>5 DEF Inserts
  <2> QED
    BY <2>6, <2>7 DEF HonestInv, Inserts
<1> QED
  BY <1>9, <1>10, <1>11 DEF StatisticsInv

\* A statement fails: of the counts nothing is claimed any more.
LEMMA FailStep ==
    ASSUME TypeOK, TypeOK', StatisticsInv, NEW i \in DOMAIN statements, ExecuteFails(i)
    PROVE  StatisticsInv'
<1>1. /\ statements' = RemoveAt(statements, i) /\ failures' # 0
      /\ UNCHANGED <<slotNow, currentTimeSlot, acceptedCount, credited, rows>>
  BY Typed DEF ExecuteFails
<1>2. CountingInv'
  <2>1. statements # <<>>
    BY Typed
  <2> QED
    BY <1>1, <2>1 DEF StatisticsInv, CountingInv, OneRowPerSlot
<1>3. StatementsInv'
  <2>1. CASE Closes(statements[i])
    <3>1. Len(statements) = 1
      BY <2>1 DEF StatisticsInv, StatementsInv
    <3>2. DOMAIN statements' = {}
      BY <1>1, <3>1, Rest
    <3> QED
      BY <3>2 DEF StatementsInv
  <2>2. CASE ~Closes(statements[i])
    BY <1>1, <2>2, RestStatements DEF StatisticsInv
  <2> QED
    BY <2>1, <2>2
<1> QED
  BY <1>1, <1>2, <1>3 DEF StatisticsInv

\* As long as no slot is closed with a statement under way, each step keeps what is known.
LEMMA StatisticsStep ==
    ASSUME TypeOK, TypeOK', ~raced => StatisticsInv, [Next]_vars
    PROVE  ~raced' => StatisticsInv'
<1> SUFFICES ASSUME ~raced' PROVE StatisticsInv'
  OBVIOUS
<1>1. CASE FirstShare
  BY <1>1, FirstStep DEF FirstShare
<1>2. CASE ShareOfNextSlot
  <2>1. raced' = (raced \/ statements # <<>>)
    BY <1>2 DEF ShareOfNextSlot
  <2>2. ~raced /\ statements = <<>>
    BY <2>1 DEF TypeOK
  <2> QED
    BY <1>2, <2>2, NextSlotStep
<1>3. CASE ShareAndSave \/ ShareInMemory
  BY <1>3, SameSlotStep DEF ShareAndSave, ShareInMemory
<1>4. ASSUME NEW i \in DOMAIN statements, Execute(i) PROVE StatisticsInv'
  BY <1>4, SavedStep, ReopenStep DEF Execute
<1>5. ASSUME NEW i \in DOMAIN statements, ExecuteFails(i) PROVE StatisticsInv'
  BY <1>5, FailStep DEF ExecuteFails
<1>6. CASE NextSlot
  <2>1. StatisticsInv /\ slotNow' = slotNow + 1
        /\ UNCHANGED <<currentTimeSlot, acceptedCount, rows, statements, credited, failures>>
    BY <1>6 DEF NextSlot
  <2>2. CountingInv'
    BY <2>1, Typed DEF StatisticsInv, CountingInv, OneRowPerSlot
  <2>3. StatementsInv'
    <3>1. \A i \in DOMAIN statements : statements[i].next <= slotNow
                                       => statements[i].next <= slotNow + 1
      BY Typed
    <3> QED
      BY <2>1, <3>1 DEF StatisticsInv, StatementsInv
  <2>4. (failures = 0 => HonestInv)'
    BY <2>1 DEF StatisticsInv, HonestInv, Honest, Opening
  <2> QED
    BY <2>2, <2>3, <2>4 DEF StatisticsInv
<1>7. CASE MinutePasses \/ UNCHANGED vars
  BY <1>7 DEF MinutePasses, vars, StatisticsInv, CountingInv, OneRowPerSlot, StatementsInv,
              HonestInv, Honest, Opening
<1> QED
  BY <1>1, <1>2, <1>3, <1>4, <1>5, <1>6, <1>7 DEF Next, AddShares

\* As long as no slot is closed while a statement is under way, a slot has at most one row
\* and, if no statement fails, every share is recorded for its slot exactly once, for any
\* number of saves that overlap and in whatever order they execute.
THEOREM HonestCounters == Spec => []HonestUnlessRaced
<1> DEFINE IInv == ~raced => StatisticsInv
<1>1. Init => IInv
  <2> SUFFICES ASSUME Init PROVE StatisticsInv
    OBVIOUS
  <2>1. Slot \subseteq Nat /\ \A t \in Slot : t >= 1
    BY StatisticsAssumption DEF Slot
  <2>2. \A t \in Slot : t # 0 /\ ~(t < 0)
    BY <2>1
  <2>3. \A t \in Slot : rows[t] = <<>> /\ Len(rows[t]) = 0
    BY DEF Init
  <2>4. Opening = {} /\ DOMAIN statements = {}
    BY DEF Init, Opening, ToSet
  <2>5. CountingInv
    BY <2>3 DEF Init, CountingInv, OneRowPerSlot
  <2>6. StatementsInv
    BY <2>4 DEF StatementsInv
  <2>7. HonestInv
    BY <2>2, <2>4 DEF Init, HonestInv, Honest
  <2> QED
    BY <2>5, <2>6, <2>7 DEF StatisticsInv
<1>2. TypeOK /\ TypeOK' /\ IInv /\ [Next]_vars => IInv'
  BY StatisticsStep
<1>3. IInv => HonestUnlessRaced
  BY DEF HonestUnlessRaced, StatisticsInv, CountingInv, HonestInv
<1> QED
  BY <1>1, <1>2, <1>3, TypeCorrect, PTL DEF Spec
=============================================================================
