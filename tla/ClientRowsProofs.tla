-------------------------- MODULE ClientRowsProofs --------------------------
(* Theorems about ClientRows, for any sessions and workers and any numbers of *)
(* shares, failures and crashes.                                              *)
EXTENDS ClientRows, TLAPS

-----------------------------------------------------------------------------
(* Type correctness. *)

\* The sets of sessions, for the types.
LEMMA Sets ==
    TypeOK => /\ insertQueue \subseteq Session /\ beats \subseteq Session
              /\ deletes \subseteq Session /\ recent \subseteq Session
              /\ removed \subseteq Session
BY DEF TypeOK

\* Every variable has its type at the start.
LEMMA InitType == Init => TypeOK
<1> SUFFICES ASSUME Init PROVE TypeOK
  OBVIOUS
<1>1. home \in [Session -> Worker]
  BY RowsAssumption DEF Init
<1>2. sharing \in [Session -> 0 .. MaxShares] /\ failures \in 0 .. MaxFailures
      /\ crashes \in 0 .. MaxCrashes
  BY RowsAssumption DEF Init
<1>3. \A set \in {insertQueue, beats, deletes, recent, removed} : set \subseteq Session
  BY DEF Init
<1>4. cluster \in BOOLEAN /\ starting \in BOOLEAN
  BY DEF Init
<1> QED
  BY <1>1, <1>2, <1>3, <1>4 DEF Init, TypeOK

\* The steps of a session keep the types.
LEMMA SessionType ==
    ASSUME TypeOK, NEW s \in Session,
           \/ Open(s) \/ Disconnect(s) \/ ShareAccepted(s) \/ ShareDone(s)
           \/ Beat(s) \/ BeatFails(s) \/ Delete(s) \/ DeleteFails(s)
           \/ GrowsOld(s) \/ RemoveOld(s)
    PROVE  TypeOK'
<1> USE DEF pool, table, bounds
<1>1. CASE Open(s)
  BY <1>1 DEF Open, TypeOK
<1>2. CASE Disconnect(s)
  <2>1. socket' \in [Session -> {"new", "open", "closed"}] /\ deletes' \subseteq Session
    BY <1>2, Sets DEF Disconnect, Close, TypeOK
  <2> QED
    BY <1>2, <2>1, Sets DEF Disconnect, TypeOK
<1>3. CASE ShareAccepted(s)
  <2>1. sharing' \in [Session -> 0 .. MaxShares]
    BY <1>3, RowsAssumption DEF ShareAccepted, TypeOK
  <2>2. creatingEntity' \in [Session -> {"none", "pending", "kept", "broken"}]
        /\ insertQueue' \subseteq Session
    BY <1>3, Sets DEF ShareAccepted, TypeOK
  <2> QED
    BY <1>3, <2>1, <2>2, Sets DEF ShareAccepted, TypeOK
<1>4. CASE ShareDone(s)
  <2>1. sharing' \in [Session -> 0 .. MaxShares]
    BY <1>4, RowsAssumption DEF ShareDone, TypeOK
  <2>2. beats' \subseteq Session
    BY <1>4, Sets DEF ShareDone
  <2> QED
    BY <1>4, <2>1, <2>2, Sets DEF ShareDone, TypeOK
<1>5. CASE Beat(s)
  <2>1. row' \in [Session -> {"none", "live", "deleted"}]
        /\ beats' \subseteq Session /\ recent' \subseteq Session
    BY <1>5, Sets DEF Beat, Revived, TypeOK
  <2> QED
    BY <1>5, <2>1, Sets DEF Beat, TypeOK
<1>6. CASE BeatFails(s) \/ DeleteFails(s)
  <2>1. failures' \in 0 .. MaxFailures
    BY <1>6, RowsAssumption DEF BeatFails, DeleteFails, TypeOK
  <2>2. beats' \subseteq Session /\ deletes' \subseteq Session
    BY <1>6, Sets DEF BeatFails, DeleteFails
  <2> QED
    BY <1>6, <2>1, <2>2, Sets DEF BeatFails, DeleteFails, TypeOK
<1>7. CASE Delete(s)
  <2>1. row' \in [Session -> {"none", "live", "deleted"}] /\ deletes' \subseteq Session
    BY <1>7, Sets DEF Delete, TypeOK
  <2> QED
    BY <1>7, <2>1, Sets DEF Delete, TypeOK
<1>8. CASE GrowsOld(s)
  BY <1>8, Sets DEF GrowsOld, TypeOK
<1>9. CASE RemoveOld(s)
  <2>1. row' \in [Session -> {"none", "live", "deleted"}]
    BY <1>9 DEF RemoveOld, TypeOK
  <2> QED
    BY <1>9, <2>1, Sets DEF RemoveOld, TypeOK
<1> QED
  BY <1>1, <1>2, <1>3, <1>4, <1>5, <1>6, <1>7, <1>8, <1>9

\* So do the inserts, the timers and the crashes.
LEMMA OtherType ==
    ASSUME TypeOK,
           \/ \E w \in Worker : Flush(w) \/ Crash(w)
           \/ \E b \in batches : Inserted(b) \/ InsertFails(b)
           \/ KillDead \/ DeleteAll
    PROVE  TypeOK'
<1> USE DEF pool, table, bounds
<1>1. ASSUME NEW w \in Worker, Flush(w) PROVE TypeOK'
  <2>1. batches' \subseteq SUBSET Session /\ insertQueue' \subseteq Session
    BY <1>1, Sets DEF Flush, TypeOK
  <2> QED
    BY <1>1, <2>1, Sets DEF Flush, TypeOK
<1>2. ASSUME NEW w \in Worker, Crash(w) PROVE TypeOK'
  <2>1. crashes' \in 0 .. MaxCrashes
    BY <1>2, RowsAssumption DEF Crash, TypeOK
  <2>2. socket' \in [Session -> {"new", "open", "closed"}]
        /\ creatingEntity' \in [Session -> {"none", "pending", "kept", "broken"}]
    BY <1>2 DEF Crash, TypeOK
  <2>3. sharing' \in [Session -> 0 .. MaxShares]
    BY <1>2, RowsAssumption DEF Crash, TypeOK
  <2>4. batches' \subseteq SUBSET Session /\ insertQueue' \subseteq Session
        /\ beats' \subseteq Session /\ deletes' \subseteq Session
    BY <1>2, Sets DEF Crash, TypeOK
  <2>5. starting' \in BOOLEAN
    BY <1>2 DEF Crash
  <2> QED
    BY <1>2, <2>1, <2>2, <2>3, <2>4, <2>5, Sets DEF Crash, TypeOK
<1>3. ASSUME NEW b \in batches, Inserted(b) PROVE TypeOK'
  <2>1. row' \in [Session -> {"none", "live", "deleted"}]
        /\ creatingEntity' \in [Session -> {"none", "pending", "kept", "broken"}]
    BY <1>3 DEF Inserted, TypeOK
  <2>2. batches' \subseteq SUBSET Session /\ recent' \subseteq Session
    BY <1>3, Sets DEF Inserted, TypeOK
  <2> QED
    BY <1>3, <2>1, <2>2, Sets DEF Inserted, TypeOK
<1>4. ASSUME NEW b \in batches, InsertFails(b) PROVE TypeOK'
  <2>1. failures' \in 0 .. MaxFailures /\ sharing' \in [Session -> 0 .. MaxShares]
    BY <1>4, RowsAssumption DEF InsertFails, TypeOK
  <2>2. socket' \in [Session -> {"new", "open", "closed"}]
        /\ creatingEntity' \in [Session -> {"none", "pending", "kept", "broken"}]
    BY <1>4 DEF InsertFails, EndWaiting, Close, TypeOK
  <2>3. batches' \subseteq SUBSET Session /\ deletes' \subseteq Session
    BY <1>4, Sets DEF InsertFails, EndWaiting, Close, TypeOK
  <2> QED
    BY <1>4, <2>1, <2>2, <2>3, Sets DEF InsertFails, TypeOK
<1>5. CASE KillDead
  <2>1. row' \in [Session -> {"none", "live", "deleted"}]
    BY <1>5 DEF KillDead, TypeOK
  <2> QED
    BY <1>5, <2>1, Sets DEF KillDead, TypeOK
<1>6. CASE DeleteAll
  <2>1. row' \in [Session -> {"none", "live", "deleted"}]
    BY <1>6 DEF DeleteAll, TypeOK
  <2>2. starting' \in BOOLEAN /\ recent' \subseteq Session
    BY <1>6 DEF DeleteAll
  <2> QED
    BY <1>6, <2>1, <2>2, Sets DEF DeleteAll, TypeOK
<1> QED
  BY <1>1, <1>2, <1>3, <1>4, <1>5, <1>6

\* Every step keeps the types.
LEMMA TypeStep == TypeOK /\ [Next]_vars => TypeOK'
<1> SUFFICES ASSUME TypeOK, [Next]_vars PROVE TypeOK'
  OBVIOUS
<1>1. CASE UNCHANGED vars
  BY <1>1 DEF vars, TypeOK
<1>2. CASE Next
  BY <1>2, SessionType, OtherType DEF Next
<1> QED
  BY <1>1, <1>2

\* Every variable keeps its type: no share of a session ends that has not begun, and
\* what is queued, inserted or under way concerns sessions there are.
THEOREM TypeCorrect == Spec => []TypeOK
BY InitType, TypeStep, PTL DEF Spec

-----------------------------------------------------------------------------
(* Rows and the promises of them. *)

\* A row on its way has its promise pending, is not there yet, and is on one way only.
Promised ==
    /\ \A s \in insertQueue :
          creatingEntity[s] = "pending" /\ row[s] = "none" /\ \A b \in batches : s \notin b
    /\ \A b \in batches : \A s \in b :
          creatingEntity[s] = "pending" /\ row[s] = "none"
          /\ \A c \in batches : s \in c => b = c

\* A session that may still ask for its row has none: it asks only once, and the crash
\* that makes it forget that closes its socket.
AsksForNew ==
    \A s \in Session :
        /\ socket[s] = "new" => creatingEntity[s] = "none"
        /\ creatingEntity[s] = "none" /\ socket[s] # "closed" => row[s] = "none"

\* A row that was inserted is there as long as its session or a heartbeat knows of it,
\* unless it has been removed.
Kept ==
    \A s \in Session :
        s \in beats \/ creatingEntity[s] = "kept" => row[s] # "none" \/ s \in removed

\* A soft delete is under way only for a closed socket, and what showed signs of life
\* is there, unless it has been removed.
Shown ==
    /\ RecentIsShown
    /\ \A s \in deletes : socket[s] = "closed"
    /\ \A s \in recent : row[s] # "none" \/ s \in removed

RowsInv == Promised /\ AsksForNew /\ Kept /\ Shown

\* The steps of a session keep what is known of its row.
LEMMA SessionRows ==
    ASSUME TypeOK, RowsInv, NEW s \in Session,
           \/ Open(s) \/ Disconnect(s) \/ ShareAccepted(s) \/ ShareDone(s)
           \/ Beat(s) \/ BeatFails(s) \/ Delete(s) \/ DeleteFails(s)
           \/ GrowsOld(s) \/ RemoveOld(s)
    PROVE  RowsInv'
<1> USE DEF pool, table, bounds
<1>0. /\ insertQueue \subseteq Session /\ beats \subseteq Session
      /\ deletes \subseteq Session /\ recent \subseteq Session
      /\ batches \subseteq SUBSET Session
  BY Sets DEF TypeOK
<1>1. CASE Open(s)
  <2>1. Promised' 
    BY <1>1 DEF Open, RowsInv, Promised
  <2>2. AsksForNew'
    BY <1>1 DEF Open, RowsInv, AsksForNew, TypeOK
  <2>3. row[s] = "none"
    BY <1>1 DEF Open, RowsInv, AsksForNew
  <2>4. Shown'
    BY <1>0, <1>1, <2>3 DEF Open, RowsInv, Shown, RecentIsShown, TypeOK
  <2>5. Kept'
    BY <1>1 DEF Open, RowsInv, Kept
  <2> QED
    BY <2>1, <2>2, <2>4, <2>5 DEF RowsInv
<1>2. CASE Disconnect(s)
  <2>1. Promised'
    BY <1>2 DEF Disconnect, RowsInv, Promised
  <2>2. \A r \in Session : socket'[r] = IF r = s THEN "closed" ELSE socket[r]
    BY <1>2 DEF Disconnect, Close
  <2>3. AsksForNew'
    BY <1>2, <2>2 DEF Disconnect, RowsInv, AsksForNew
  <2>4. Shown'
    BY <1>0, <1>2, <2>2 DEF Disconnect, Close, RowsInv, Shown, RecentIsShown
  <2>5. Kept'
    BY <1>2 DEF Disconnect, RowsInv, Kept
  <2> QED
    BY <2>1, <2>3, <2>4, <2>5 DEF RowsInv
<1>3. CASE ShareAccepted(s)
  <2>1. CASE creatingEntity[s] = "none"
    <3>1. row[s] = "none" /\ s \notin insertQueue /\ \A b \in batches : s \notin b
      BY <1>3, <2>1 DEF ShareAccepted, RowsInv, AsksForNew, Promised
    <3>2. /\ creatingEntity'[s] = "pending"
          /\ \A r \in Session \ {s} : creatingEntity'[r] = creatingEntity[r]
          /\ insertQueue' = insertQueue \cup {s}
          /\ UNCHANGED <<row, socket, batches, beats, deletes, recent, removed>>
      BY <1>3, <2>1 DEF ShareAccepted, NotCreating, TypeOK
    <3>3. Promised'
      BY <1>0, <3>1, <3>2 DEF RowsInv, Promised
    <3>4. AsksForNew'
      BY <1>3, <3>1, <3>2 DEF ShareAccepted, RowsInv, AsksForNew
    <3>5. Shown'
      BY <3>2 DEF RowsInv, Shown, RecentIsShown
    <3>6. Kept'
      BY <3>2 DEF RowsInv, Kept
    <3> QED
      BY <3>3, <3>4, <3>5, <3>6 DEF RowsInv
  <2>2. CASE creatingEntity[s] # "none"
    BY <1>3, <2>2
       DEF ShareAccepted, NotCreating, RowsInv, Promised, AsksForNew, Kept, Shown,
           RecentIsShown
  <2> QED
    BY <2>1, <2>2
<1>4. CASE ShareDone(s) \/ BeatFails(s)
  BY <1>4
     DEF ShareDone, BeatFails, RowsInv, Promised, AsksForNew, Kept, Shown, RecentIsShown
<1>5. CASE Beat(s)
  <2>1. /\ \A r \in Session : row'[r] = "none" <=> row[r] = "none"
        /\ \A r \in Session : row[r] = "live" => row'[r] = "live"
        /\ row[s] # "none" => row'[s] = "live"
        /\ recent' = recent \cup {s}
        /\ s \in beats /\ beats' \subseteq beats
        /\ UNCHANGED <<socket, creatingEntity, insertQueue, batches, deletes, removed>>
    BY <1>5 DEF Beat, Revived, TypeOK
  <2>2. Promised'
    BY <1>0, <2>1 DEF RowsInv, Promised
  <2>3. AsksForNew'
    BY <2>1 DEF RowsInv, AsksForNew
  <2>4. Kept'
    BY <2>1 DEF RowsInv, Kept
  <2>5. row[s] # "none" \/ s \in removed
    BY <2>1 DEF RowsInv, Kept
  <2>6. Shown'
    BY <1>0, <2>1, <2>5 DEF RowsInv, Shown, RecentIsShown
  <2> QED
    BY <2>2, <2>3, <2>4, <2>6 DEF RowsInv
<1>6. CASE Delete(s)
  <2>1. /\ \A r \in Session : row'[r] = "none" <=> row[r] = "none"
        /\ \A r \in Session \ {s} : row'[r] = row[r]
        /\ deletes' = deletes \ {s} /\ socket[s] = "closed"
        /\ UNCHANGED <<socket, creatingEntity, insertQueue, batches, beats, recent, removed>>
    BY <1>6 DEF Delete, TypeOK, RowsInv, Shown
  <2>2. Promised'
    BY <1>0, <2>1 DEF RowsInv, Promised
  <2>3. AsksForNew'
    BY <2>1 DEF RowsInv, AsksForNew
  <2>4. Shown'
    BY <1>0, <2>1 DEF RowsInv, Shown, RecentIsShown
  <2>5. Kept'
    BY <2>1 DEF RowsInv, Kept
  <2> QED
    BY <2>2, <2>3, <2>4, <2>5 DEF RowsInv
<1>7. CASE DeleteFails(s) \/ GrowsOld(s)
  BY <1>7
     DEF DeleteFails, GrowsOld, RowsInv, Promised, AsksForNew, Kept, Shown, RecentIsShown
<1>8. CASE RemoveOld(s)
  <2>1. /\ row'[s] = "none"
        /\ \A r \in Session \ {s} : row'[r] = row[r]
        /\ row[s] = "deleted" /\ removed' = removed \cup {s}
        /\ s \notin recent
        /\ UNCHANGED <<socket, creatingEntity, insertQueue, batches, beats, deletes, recent>>
    BY <1>8 DEF RemoveOld, TypeOK
  <2>2. Promised'
    BY <1>0, <2>1 DEF RowsInv, Promised
  <2>3. AsksForNew'
    BY <2>1 DEF RowsInv, AsksForNew
  <2>4. Shown'
    BY <1>0, <2>1 DEF RowsInv, Shown, RecentIsShown
  <2>5. Kept'
    BY <2>1 DEF RowsInv, Kept
  <2> QED
    BY <2>2, <2>3, <2>4, <2>5 DEF RowsInv
<1> QED
  BY <1>1, <1>2, <1>3, <1>4, <1>5, <1>6, <1>7, <1>8

\* So do the inserts, the timers and the crashes.
LEMMA OtherRows ==
    ASSUME TypeOK, RowsInv,
           \/ \E w \in Worker : Flush(w) \/ Crash(w)
           \/ \E b \in batches : Inserted(b) \/ InsertFails(b)
           \/ KillDead \/ DeleteAll
    PROVE  RowsInv'
<1> USE DEF pool, table, bounds
<1>0. /\ insertQueue \subseteq Session /\ deletes \subseteq Session
      /\ recent \subseteq Session /\ batches \subseteq SUBSET Session
  BY Sets DEF TypeOK
<1>1. ASSUME NEW w \in Worker, Flush(w) PROVE RowsInv'
  <2>1. Promised'
    BY <1>1 DEF Flush, RowsInv, Promised
  <2> QED
    BY <1>1, <2>1 DEF Flush, RowsInv, AsksForNew, Kept, Shown, RecentIsShown
<1>2. ASSUME NEW w \in Worker, Crash(w) PROVE RowsInv'
  <2>1. /\ \A s \in Session : s \notin At(w) => creatingEntity'[s] = creatingEntity[s]
        /\ \A s \in Session : creatingEntity'[s] \in {"none", creatingEntity[s]}
        /\ \A s \in Session : s \in At(w) => creatingEntity'[s] = "none"
        /\ \A s \in Session : socket'[s] = socket[s] \/ socket'[s] = "closed"
        /\ \A s \in Session : s \in At(w) => socket'[s] # "open"
        /\ insertQueue' = insertQueue \ At(w)
        /\ batches' = {b \in batches : b \cap At(w) = {}}
        /\ deletes' \subseteq deletes /\ beats' \subseteq beats
        /\ UNCHANGED <<row, recent, removed>>
    BY <1>2 DEF Crash, TypeOK
  <2>2. Promised'
    BY <1>0, <2>1 DEF RowsInv, Promised
  <2>3. AsksForNew'
    BY <2>1 DEF RowsInv, AsksForNew, TypeOK
  <2>4. Shown'
    BY <1>0, <2>1 DEF RowsInv, Shown, RecentIsShown
  <2>5. Kept'
    BY <2>1 DEF RowsInv, Kept
  <2> QED
    BY <2>2, <2>3, <2>4, <2>5 DEF RowsInv
<1>3. ASSUME NEW b \in batches, Inserted(b) PROVE RowsInv'
  <2>1. /\ \A s \in Session : s \in b => row'[s] = "live" /\ creatingEntity'[s] = "kept"
        /\ \A s \in Session : s \notin b => row'[s] = row[s]
                                            /\ creatingEntity'[s] = creatingEntity[s]
        /\ batches' = batches \ {b} /\ recent' = recent \cup b
        /\ UNCHANGED <<insertQueue, socket, beats, deletes, removed>>
    BY <1>3 DEF Inserted, TypeOK
  <2>2. \A s \in b : s \in Session /\ creatingEntity[s] = "pending"
    BY <1>0 DEF RowsInv, Promised
  <2>3. Promised'
    BY <1>0, <2>1 DEF RowsInv, Promised
  <2>4. AsksForNew'
    BY <2>1, <2>2 DEF RowsInv, AsksForNew
  <2>5. Shown'
    BY <1>0, <2>1, <2>2 DEF RowsInv, Shown, RecentIsShown
  <2>6. Kept'
    BY <2>1 DEF RowsInv, Kept
  <2> QED
    BY <2>3, <2>4, <2>5, <2>6 DEF RowsInv
<1>4. ASSUME NEW b \in batches, InsertFails(b) PROVE RowsInv'
  <2>1. /\ \A s \in Session : s \in b => socket'[s] = "closed" /\ creatingEntity'[s] = "broken"
        /\ \A s \in Session : s \notin b => socket'[s] = socket[s]
                                            /\ creatingEntity'[s] = creatingEntity[s]
        /\ batches' = batches \ {b} /\ deletes' \subseteq deletes \cup b
        /\ UNCHANGED <<insertQueue, row, beats, recent, removed>>
    BY <1>4 DEF InsertFails, EndWaiting, Close, TypeOK
  <2>2. Promised'
    BY <1>0, <2>1 DEF RowsInv, Promised
  <2>3. AsksForNew'
    BY <2>1 DEF RowsInv, AsksForNew
  <2>4. Shown'
    BY <1>0, <2>1 DEF RowsInv, Shown, RecentIsShown
  <2>5. Kept'
    BY <2>1 DEF RowsInv, Kept
  <2> QED
    BY <2>2, <2>3, <2>4, <2>5 DEF RowsInv
<1>5. ASSUME KillDead \/ DeleteAll PROVE RowsInv'
  <2>1. /\ \A s \in Session : row'[s] = "none" <=> row[s] = "none"
        /\ \A s \in Session : s \in recent' => s \in recent /\ row'[s] = row[s]
        /\ UNCHANGED <<socket, creatingEntity, insertQueue, batches, beats, deletes, removed>>
    BY <1>5 DEF KillDead, Dead, DeleteAll, TypeOK
  <2>2. recent' \subseteq recent
    BY <1>5 DEF KillDead, DeleteAll
  <2>3. Promised'
    BY <1>0, <2>1 DEF RowsInv, Promised
  <2>4. AsksForNew'
    BY <2>1 DEF RowsInv, AsksForNew
  <2>5. Shown'
    BY <1>0, <2>1, <2>2 DEF RowsInv, Shown, RecentIsShown
  <2>6. Kept'
    BY <2>1 DEF RowsInv, Kept
  <2> QED
    BY <2>3, <2>4, <2>5, <2>6 DEF RowsInv
<1> QED
  BY <1>1, <1>2, <1>3, <1>4, <1>5

\* Every step keeps what is known of the rows.
LEMMA RowsStep == TypeOK /\ RowsInv /\ [Next]_vars => RowsInv'
<1> SUFFICES ASSUME TypeOK, RowsInv, [Next]_vars PROVE RowsInv'
  OBVIOUS
<1>1. CASE UNCHANGED vars
  BY <1>1 DEF vars, RowsInv, Promised, AsksForNew, Kept, Shown, RecentIsShown
<1>2. CASE Next
  BY <1>2, SessionRows, OtherRows DEF Next
<1> QED
  BY <1>1, <1>2

\* What is known of the rows holds in every state.
LEMMA RowsInvariance == Spec => []RowsInv
<1>1. Init => RowsInv
  BY DEF Init, RowsInv, Promised, AsksForNew, Kept, Shown, RecentIsShown
<1> QED
  BY <1>1, RowsStep, TypeCorrect, PTL DEF Spec

\* However many shares of however many sessions and workers ask for their rows while
\* inserts run, fail or are lost in a crash, no row is inserted twice.
THEOREM RowsInsertedOnce == Spec => []InsertedOnce
<1>1. TypeOK /\ RowsInv => InsertedOnce
  BY DEF RowsInv, Promised, InsertedOnce
<1> QED
  BY <1>1, RowsInvariance, TypeCorrect, PTL

\* Nothing that deletes rows, of this worker or of another that starts, hides a session
\* with a sign of life since then, unless its row was removed: a day after it was deleted
\* the row is gone, and heartbeats do not bring it back.
THEOREM SignsAreShown == Spec => []RecentIsShown
<1>1. RowsInv => RecentIsShown
  BY DEF RowsInv, Shown
<1> QED
  BY <1>1, RowsInvariance, PTL
=============================================================================
