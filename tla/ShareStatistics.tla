-------------------------- MODULE ShareStatistics --------------------------
(* The share counters of one session: StratumV1ClientStatistics.addShares   *)
(* and the statistics table it writes through ClientStatisticsService.      *)
(*                                                                          *)
(* The shares of the current ten-minute slot are counted in memory and      *)
(* saved now and then. Each submission of the session runs addShares up to  *)
(* its database statement and resumes when the statement is done; another   *)
(* submission, from another socket chunk, may run in between. The database  *)
(* driver runs statements in a thread pool, so those under way together are *)
(* executed in any order. Every share has difficulty one, so that shares    *)
(* and acceptedCount agree.                                                 *)
EXTENDS Integers, SequencesExt

CONSTANTS
    MaxSlot,        \* bound: how many time slots go by
    MaxShares,      \* bound on the shares accepted in a slot
    MaxQueue,       \* bound on the statements under way: 1 is a session whose
                    \* submissions never overlap
    MaxFailures     \* bound on the statements that fail

ASSUME StatisticsAssumption ==
    /\ MaxSlot \in Nat \ {0}
    /\ MaxShares \in Nat
    /\ MaxQueue \in Nat
    /\ MaxFailures \in Nat

VARIABLES
    slotNow,            \* the time slot the clock is in
    saveDue,            \* is lastSave more than a minute ago, or null?
    currentTimeSlot,    \* the slot being counted; 0 is null
    acceptedCount,      \* the shares counted for it in memory
    rows,               \* rows[t] are the counts of the table's rows of slot t
    statements,         \* the statements issued and not executed, oldest first
    credited,           \* how many submissions of each slot reached addShares
    failures,           \* how many statements failed
    raced               \* has a slot been closed with a statement under way?

vars == <<slotNow, saveDue, currentTimeSlot, acceptedCount, rows, statements,
          credited, failures, raced>>

Slot == 1 .. MaxSlot

\* kind says which branch of addShares issued the statement. A "close" is the
\* update of the slot that ended; next is the slot its submission was made in.
Statement == [kind : {"first", "flush", "close", "open"}, slot : Slot,
              count : Nat, next : Slot]

TypeOK ==
    /\ slotNow \in Slot
    /\ saveDue \in BOOLEAN
    /\ currentTimeSlot \in Slot \cup {0}
    /\ acceptedCount \in Nat
    /\ rows \in [Slot -> Seq(Nat)]
    /\ statements \in Seq(Statement)
    /\ credited \in [Slot -> Nat]
    /\ failures \in Nat
    /\ raced \in BOOLEAN

Init ==
    /\ slotNow = 1
    /\ saveDue = TRUE
    /\ currentTimeSlot = 0
    /\ acceptedCount = 0
    /\ rows = [t \in Slot |-> <<>>]
    /\ statements = <<>>
    /\ credited = [t \in Slot |-> 0]
    /\ failures = 0
    /\ raced = FALSE

-----------------------------------------------------------------------------
(* Time. *)

NextSlot ==
    /\ slotNow < MaxSlot
    /\ slotNow' = slotNow + 1
    /\ UNCHANGED <<saveDue, currentTimeSlot, acceptedCount, rows, statements, credited,
                   failures, raced>>

MinutePasses ==
    /\ ~saveDue
    /\ saveDue' = TRUE
    /\ UNCHANGED <<slotNow, currentTimeSlot, acceptedCount, rows, statements,
                   credited, failures, raced>>

-----------------------------------------------------------------------------
(* addShares up to its await, one action per branch. *)

\* A share is handed to addShares, which issues the statements in new.
Credit(new) ==
    /\ credited[slotNow] < MaxShares
    /\ Len(statements) + Len(new) <= MaxQueue
    /\ credited' = [credited EXCEPT ![slotNow] = @ + 1]
    /\ statements' = statements \o new
    /\ UNCHANGED <<slotNow, saveDue, rows, failures>>

FirstShare ==
    /\ currentTimeSlot = 0
    /\ currentTimeSlot' = slotNow
    /\ acceptedCount' = acceptedCount + 1
    /\ Credit(<<[kind |-> "first", slot |-> slotNow, count |-> acceptedCount + 1,
                 next |-> slotNow]>>)
    /\ UNCHANGED raced

\* Mutant: the first share of the session is not told apart.
SlotEndedOrNone == currentTimeSlot # slotNow

SlotEnded == currentTimeSlot \notin {0, slotNow}

\* The share itself is counted only after the ended slot has been updated.
ShareOfNextSlot ==
    /\ SlotEnded
    /\ Credit(<<[kind |-> "close", slot |-> currentTimeSlot, count |-> acceptedCount,
                 next |-> slotNow]>>)
    /\ raced' = (raced \/ statements # <<>>)
    /\ UNCHANGED <<currentTimeSlot, acceptedCount>>

ShareAndSave ==
    /\ currentTimeSlot = slotNow
    /\ saveDue
    /\ acceptedCount' = acceptedCount + 1
    /\ Credit(<<[kind |-> "flush", slot |-> slotNow, count |-> acceptedCount + 1,
                 next |-> slotNow]>>)
    /\ UNCHANGED <<currentTimeSlot, raced>>

ShareInMemory ==
    /\ currentTimeSlot = slotNow
    /\ ~saveDue
    /\ acceptedCount' = acceptedCount + 1
    /\ Credit(<<>>)
    /\ UNCHANGED <<currentTimeSlot, raced>>

-----------------------------------------------------------------------------
(* The database, and addShares after its await. *)

\* Mutant: the counter of the new slot starts without the share that opens it.
NewSlotCountZero == 0

NewSlotCount == 1

\* An update changes every row of its slot, and no row if there is none; an
\* insert adds a row, there being no unique key on the slot.
Executed(st) ==
    IF st.kind \in {"flush", "close"}
    THEN [rows EXCEPT ![st.slot] = [i \in 1 .. Len(@) |-> st.count]]
    ELSE [rows EXCEPT ![st.slot] = Append(@, st.count)]

\* The submission that closed a slot resumes: it starts the count of its own
\* slot at one, whatever has been counted since, and issues the insert.
Reopen(i) ==
    LET t == statements[i].next
    IN /\ currentTimeSlot' = t
       /\ acceptedCount' = NewSlotCount
       /\ statements' = Append(RemoveAt(statements, i),
              [kind |-> "open", slot |-> t, count |-> NewSlotCount, next |-> t])
       /\ UNCHANGED saveDue

\* Any other submission notes when it saved and is done.
Saved(i) ==
    /\ saveDue' = FALSE
    /\ statements' = RemoveAt(statements, i)
    /\ UNCHANGED <<currentTimeSlot, acceptedCount>>

Execute(i) ==
    /\ rows' = Executed(statements[i])
    /\ IF statements[i].kind = "close" THEN Reopen(i) ELSE Saved(i)
    /\ UNCHANGED <<slotNow, credited, failures, raced>>

\* The statement fails: the submission's catch logs the error and no more.
ExecuteFails(i) ==
    /\ failures < MaxFailures
    /\ failures' = failures + 1
    /\ statements' = RemoveAt(statements, i)
    /\ UNCHANGED <<slotNow, saveDue, currentTimeSlot, acceptedCount, rows, credited,
                   raced>>

AddShares == FirstShare \/ ShareOfNextSlot \/ ShareAndSave \/ ShareInMemory

Next ==
    \/ NextSlot
    \/ MinutePasses
    \/ AddShares
    \/ \E i \in DOMAIN statements : Execute(i) \/ ExecuteFails(i)

Spec == Init /\ [][Next]_vars

-----------------------------------------------------------------------------
(* Safety. *)

\* The slots that wait for the update of the slot that ended.
Opening == {st.next : st \in {x \in ToSet(statements) : x.kind = "close"}}

\* Every share is recorded for the slot it was made in, once: in the one row of a slot
\* that is over, in memory for the current one, and else it is a share that waits to
\* open its slot.
Honest ==
    \A t \in Slot :
        /\ t < currentTimeSlot =>
              rows[t] = IF credited[t] = 0 THEN <<>> ELSE <<credited[t]>>
        /\ t = currentTimeSlot => acceptedCount = credited[t]
        /\ t > currentTimeSlot => credited[t] = IF t \in Opening THEN 1 ELSE 0

\* A slot has at most one row of this session, the condition under which
\* ClientStatisticsService.update by slot writes each share once.
OneRowPerSlot == \A t \in Slot : Len(rows[t]) <= 1

\* As long as no slot is closed while a statement is under way, a slot has one row, also
\* when statements fail; and if none fails, no share is lost or counted twice, neither
\* across a change of slot nor by saves that overlap and execute in any order.
HonestUnlessRaced == ~raced => OneRowPerSlot /\ (failures = 0 => Honest)

\* StratumV1Client.ts: shares are credited so that "hashrate and accumulated-work
\* counters stay honest".
CountersHonest == statements = <<>> => Honest
=============================================================================
