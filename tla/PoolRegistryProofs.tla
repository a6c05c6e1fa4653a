------------------------- MODULE PoolRegistryProofs -------------------------
(* Theorems about PoolRegistry, for any workers, texts, blocks and bounds.   *)
EXTENDS PoolRegistry, TLAPS

\* A worker that is down has nothing in memory and no request under way.
DownIsEmpty ==
    \A w \in Worker \ running :
        mempools[w] = {} /\ recentlyFoundBlocks[w] = {} /\ fetch[w] = Idle

TypeInv == TypeOK /\ DownIsEmpty

\* A worker that has not been started has nothing.
LEMMA TypeInit == Init => TypeInv
BY RegistryAssumption DEF Init, TypeInv, TypeOK, DownIsEmpty

\* What has come from the registry and has an entry is a text.
LEMMA FetchedText ==
    ASSUME TypeOK, NEW w \in Worker, fetch[w] \notin {Idle, Asked, Unreachable}
    PROVE  fetch[w] \in Text
BY DEF TypeOK

\* Saving leaves a text in the file, or nothing.
LEMMA SaveType ==
    ASSUME TypeOK, NEW text \in Text, SaveLocalCache(text)
    PROVE  file' \in Text \cup {{}} /\ saveFailures' \in 0 .. MaxSaveFailures
BY RegistryAssumption DEF SaveLocalCache, TypeOK

\* Every step keeps the types and the emptiness of the workers that are down.
LEMMA TypeStep == TypeInv /\ [Next]_vars => TypeInv'
<1> SUFFICES ASSUME TypeInv, [Next]_vars PROVE TypeInv'
  OBVIOUS
<1> USE DEF TypeInv, list, findings, process
<1>1. CASE RegistryChanges
  BY <1>1 DEF RegistryChanges, TypeOK, DownIsEmpty
<1>2. CASE Tick
  <2>1. age' \in [Block -> 0 .. Ttl + 1]
    <3>1. \A b \in Block : (IF finder[b] = {} \/ age[b] > Ttl THEN age[b] ELSE age[b] + 1)
                               \in 0 .. Ttl + 1
      BY RegistryAssumption DEF TypeOK
    <3> QED
      BY <1>2, <3>1 DEF Tick
  <2> QED
    BY <1>2, <2>1 DEF Tick, TypeOK, DownIsEmpty
<1>3. ASSUME NEW w \in Worker, Start(w) PROVE TypeInv'
  BY <1>3 DEF Start, LoadLocalCache, ParseMempoolsRegistry, TypeOK, DownIsEmpty
<1>4. ASSUME NEW w \in Worker, RefreshRegistry(w) PROVE TypeInv'
  BY <1>4 DEF RefreshRegistry, TypeOK, DownIsEmpty
<1>5. ASSUME NEW w \in Worker, RegistryAnswers(w) PROVE TypeInv'
  BY <1>5, RegistryAssumption DEF RegistryAnswers, TypeOK, DownIsEmpty
<1>6. ASSUME NEW w \in Worker, Refreshed(w) PROVE TypeInv'
  <2>1. w \in running
    BY <1>6 DEF Refreshed, DownIsEmpty
  <2>2. CASE fetch[w] = Unreachable \/ ~Taken(w, fetch[w])
    BY <1>6, <2>2 DEF Refreshed, TakeList, TypeOK, DownIsEmpty
  <2>3. CASE fetch[w] # Unreachable /\ Taken(w, fetch[w])
    <3>1. fetch[w] \in Text
      BY <1>6, <2>3, FetchedText DEF Refreshed
    <3>2. file' \in Text \cup {{}} /\ saveFailures' \in 0 .. MaxSaveFailures
      BY <1>6, <2>3, <3>1, SaveType DEF Refreshed, TakeList
    <3>3. mempools' \in [Worker -> SUBSET Explorer]
      BY <1>6, <2>3 DEF Refreshed, TakeList, ParseMempoolsRegistry, TypeOK
    <3> QED
      BY <1>6, <2>1, <2>3, <3>2, <3>3 DEF Refreshed, TakeList, TypeOK, DownIsEmpty
  <2> QED
    BY <2>2, <2>3
<1>7. ASSUME NEW w \in Worker, Crash(w) PROVE TypeInv'
  <2>1. crashes' \in 0 .. MaxCrashes
    BY <1>7, RegistryAssumption DEF Crash, TypeOK
  <2> QED
    BY <1>7, <2>1 DEF Crash, TypeOK, DownIsEmpty
<1>8. ASSUME NEW w \in Worker, NEW b \in Block, ReportBlockFound(w, b) PROVE TypeInv'
  <2>1. recentlyFoundBlocks' \in [Worker -> SUBSET Block]
    BY <1>8 DEF ReportBlockFound, RecordFoundBlock, Pruned, TypeOK
  <2>2. finder' \in [Block -> {{}} \cup {{v} : v \in Worker}]
    BY <1>8 DEF ReportBlockFound, TypeOK
  <2> QED
    BY <1>8, <2>1, <2>2 DEF ReportBlockFound, RecordFoundBlock, TypeOK, DownIsEmpty
<1>9. ASSUME NEW w \in Worker, NEW b \in Block, WasRecentlyFound(w, b) PROVE TypeInv'
  BY <1>9 DEF WasRecentlyFound, Pruned, TypeOK, DownIsEmpty
<1>10. CASE UNCHANGED vars
  BY <1>10 DEF vars, TypeOK, DownIsEmpty
<1> QED
  BY <1>1, <1>2, <1>3, <1>4, <1>5, <1>6, <1>7, <1>8, <1>9, <1>10 DEF Next

\* Every variable keeps its type, and nothing of a dead worker remains but the file.
THEOREM TypeCorrect == Spec => []TypeOK
<1>1. TypeInv => TypeOK
  BY DEF TypeInv
<1> QED
  BY <1>1, TypeInit, TypeStep, PTL DEF Spec

\* The types hold in every state.
LEMMA TypeInvariance == Spec => []TypeInv
BY TypeInit, TypeStep, PTL DEF Spec

-----------------------------------------------------------------------------
(* The list. *)

\* Unless writing has failed, the file has entries once any worker has.
ListInv ==
    saveFailures = 0 =>
        /\ entitled # {} => ParseMempoolsRegistry(file) # {}
        /\ \A w \in entitled \cap running : mempools[w] # {}

\* Every step keeps what the file has for the workers.
LEMMA ListStep == TypeInv /\ ListInv /\ [Next]_vars => ListInv'
<1> SUFFICES ASSUME TypeInv, ListInv, [Next]_vars PROVE ListInv'
  OBVIOUS
<1> USE DEF TypeInv, TypeOK, ListInv, list, findings, process
<1>1. CASE RegistryChanges \/ Tick
  BY <1>1 DEF RegistryChanges, Tick
<1>2. ASSUME NEW w \in Worker, Start(w) PROVE ListInv'
  BY <1>2 DEF Start, LoadLocalCache
<1>3. ASSUME NEW w \in Worker, RefreshRegistry(w) \/ RegistryAnswers(w) PROVE ListInv'
  BY <1>3 DEF RefreshRegistry, RegistryAnswers
<1>4. ASSUME NEW w \in Worker, Refreshed(w) PROVE ListInv'
  <2>1. CASE fetch[w] = Unreachable \/ ~Taken(w, fetch[w])
    BY <1>4, <2>1 DEF Refreshed, TakeList
  <2>2. CASE fetch[w] # Unreachable /\ Taken(w, fetch[w])
    <3>1. SaveLocalCache(fetch[w]) /\ running' = running /\ entitled' = entitled \cup {w}
          /\ mempools' = [mempools EXCEPT ![w] = ParseMempoolsRegistry(fetch[w])]
      BY <1>4, <2>2 DEF Refreshed, TakeList
    <3>2. CASE file' = fetch[w] /\ UNCHANGED saveFailures
      BY <2>2, <3>1, <3>2 DEF Taken, ParseMempoolsRegistry
    <3>3. CASE saveFailures' = saveFailures + 1
      BY <3>3
    <3> QED
      BY <3>1, <3>2, <3>3 DEF SaveLocalCache
  <2> QED
    BY <2>1, <2>2
<1>5. ASSUME NEW w \in Worker, Crash(w) PROVE ListInv'
  BY <1>5 DEF Crash
<1>6. ASSUME NEW w \in Worker, NEW b \in Block,
             ReportBlockFound(w, b) \/ WasRecentlyFound(w, b)
      PROVE  ListInv'
  BY <1>6 DEF ReportBlockFound, WasRecentlyFound
<1>7. CASE UNCHANGED vars
  BY <1>7 DEF vars
<1> QED
  BY <1>1, <1>2, <1>3, <1>4, <1>5, <1>6, <1>7 DEF Next

\* A worker that has ever had a list, or was started after another had one, has
\* one to report to, whatever the registry has answered since and however often
\* workers have died.
THEOREM ListKept == Spec => []ListIsThere
<1>1. Init => ListInv
  BY DEF Init, ListInv
<1>2. ListInv => ListIsThere
  BY DEF ListInv, ListIsThere
<1> QED
  BY <1>1, <1>2, ListStep, TypeInvariance, PTL DEF Spec

-----------------------------------------------------------------------------
(* The blocks found lately. *)

\* A worker remembers only blocks of its own, and all of them that are young
\* enough and were found since it was started.
FoundInv ==
    \A b \in Block :
        /\ \A w \in Worker :
              /\ b \in recentlyFoundBlocks[w] => finder[b] = {w} /\ b \notin forgotten
              /\ finder[b] = {w} /\ age[b] <= Ttl /\ b \notin forgotten
                    => w \in running /\ b \in recentlyFoundBlocks[w]
        /\ finder[b] = {} => age[b] = 0 /\ b \notin forgotten

\* Time makes blocks too old for the answer and for the worker alike.
LEMMA TickKeepsFound ==
    ASSUME TypeOK, FoundInv, Tick
    PROVE  FoundInv'
<1>1. UNCHANGED <<running, recentlyFoundBlocks, finder, forgotten>>
  BY DEF Tick, process
<1> SUFFICES ASSUME NEW b \in Block
             PROVE  /\ age'[b] <= Ttl => age[b] <= Ttl
                    /\ finder[b] = {} => age'[b] = age[b]
  BY <1>1 DEF FoundInv
<1>2. Ttl \in Nat /\ age[b] \in Nat
  BY RegistryAssumption DEF TypeOK
<1>3. age'[b] = IF finder[b] = {} \/ age[b] > Ttl THEN age[b] ELSE age[b] + 1
  BY DEF Tick
<1> QED
  BY <1>2, <1>3

\* What a worker that crashes remembered is forgotten.
LEMMA CrashKeepsFound ==
    ASSUME TypeOK, FoundInv, NEW w \in Worker, Crash(w)
    PROVE  FoundInv'
<1>1. UNCHANGED <<finder, age>>
  BY DEF Crash
<1>2. /\ running' = running \ {w}
      /\ forgotten' = forgotten \cup {b \in Block : finder[b] = {w}}
      /\ recentlyFoundBlocks'[w] = {}
      /\ \A v \in Worker \ {w} : recentlyFoundBlocks'[v] = recentlyFoundBlocks[v]
  BY DEF Crash, TypeOK
<1> SUFFICES ASSUME NEW b \in Block
             PROVE  /\ \A v \in Worker :
                          /\ b \in recentlyFoundBlocks'[v]
                                => finder[b] = {v} /\ b \notin forgotten'
                          /\ finder[b] = {v} /\ age[b] <= Ttl /\ b \notin forgotten'
                                => v \in running' /\ b \in recentlyFoundBlocks'[v]
                    /\ finder[b] = {} => age[b] = 0 /\ b \notin forgotten'
  BY <1>1 DEF FoundInv
<1>3. finder[b] = {} => age[b] = 0 /\ b \notin forgotten'
  BY <1>2 DEF FoundInv
<1>4. finder[b] = {w} => b \in forgotten'
  BY <1>2
<1>5. ASSUME NEW v \in Worker \ {w}
      PROVE  /\ b \in recentlyFoundBlocks'[v]
                   => finder[b] = {v} /\ b \notin forgotten'
             /\ finder[b] = {v} /\ age[b] <= Ttl /\ b \notin forgotten'
                   => v \in running' /\ b \in recentlyFoundBlocks'[v]
  <2>1. {v} # {w}
    OBVIOUS
  <2> QED
    BY <1>2, <2>1 DEF FoundInv
<1> QED
  BY <1>2, <1>3, <1>4, <1>5

\* A reported block is remembered by the worker that found it.
LEMMA ReportKeepsFound ==
    ASSUME TypeOK, FoundInv, NEW w \in Worker, NEW b \in Block, ReportBlockFound(w, b)
    PROVE  FoundInv'
<1>1. UNCHANGED <<running, age, forgotten>>
  BY DEF ReportBlockFound, process
<1>2. /\ w \in running
      /\ finder[b] = {}
      /\ finder'[b] = {w}
      /\ \A c \in Block \ {b} : finder'[c] = finder[c]
  BY DEF ReportBlockFound, TypeOK
<1>3. /\ recentlyFoundBlocks'[w] = {c \in recentlyFoundBlocks[w] : age[c] <= Ttl} \cup {b}
      /\ \A v \in Worker \ {w} : recentlyFoundBlocks'[v] = recentlyFoundBlocks[v]
  BY DEF ReportBlockFound, RecordFoundBlock, Pruned, TypeOK
<1> SUFFICES ASSUME NEW c \in Block
             PROVE  /\ \A v \in Worker :
                          /\ c \in recentlyFoundBlocks'[v]
                                => finder'[c] = {v} /\ c \notin forgotten
                          /\ finder'[c] = {v} /\ age[c] <= Ttl /\ c \notin forgotten
                                => v \in running /\ c \in recentlyFoundBlocks'[v]
                    /\ finder'[c] = {} => age[c] = 0 /\ c \notin forgotten
  BY <1>1 DEF FoundInv
<1>4. CASE c = b
  <2>1. b \notin forgotten /\ \A v \in Worker : b \notin recentlyFoundBlocks[v]
    BY <1>2 DEF FoundInv
  <2> QED
    BY <1>2, <1>3, <1>4, <2>1
<1>5. CASE c # b
  <2>1. finder'[c] = finder[c]
    BY <1>2, <1>5
  <2>2. ASSUME NEW v \in Worker
        PROVE  /\ c \in recentlyFoundBlocks'[v] => c \in recentlyFoundBlocks[v]
               /\ c \in recentlyFoundBlocks[v] /\ age[c] <= Ttl
                     => c \in recentlyFoundBlocks'[v]
    BY <1>3, <1>5
  <2> QED
    BY <2>1, <2>2 DEF FoundInv
<1> QED
  BY <1>4, <1>5

\* Every step keeps what workers remember of their blocks.
LEMMA FoundStep == TypeInv /\ FoundInv /\ [Next]_vars => FoundInv'
<1> SUFFICES ASSUME TypeInv, FoundInv, [Next]_vars PROVE FoundInv'
  OBVIOUS
<1> USE DEF TypeInv, TypeOK, FoundInv, list, findings, process
<1>1. CASE RegistryChanges
  BY <1>1 DEF RegistryChanges
<1>2. CASE Tick
  BY <1>2, TickKeepsFound
<1>3. ASSUME NEW w \in Worker, Start(w) PROVE FoundInv'
  BY <1>3 DEF Start
<1>4. ASSUME NEW w \in Worker, RefreshRegistry(w) \/ RegistryAnswers(w) PROVE FoundInv'
  BY <1>4 DEF RefreshRegistry, RegistryAnswers
<1>5. ASSUME NEW w \in Worker, Refreshed(w) PROVE FoundInv'
  BY <1>5 DEF Refreshed
<1>6. ASSUME NEW w \in Worker, Crash(w) PROVE FoundInv'
  BY <1>6, CrashKeepsFound
<1>7. ASSUME NEW w \in Worker, NEW b \in Block, ReportBlockFound(w, b) PROVE FoundInv'
  BY <1>7, ReportKeepsFound
<1>8. ASSUME NEW w \in Worker, NEW b \in Block, WasRecentlyFound(w, b) PROVE FoundInv'
  BY <1>8 DEF WasRecentlyFound, Pruned
<1>9. CASE UNCHANGED vars
  BY <1>9 DEF vars
<1> QED
  BY <1>1, <1>2, <1>3, <1>4, <1>5, <1>6, <1>7, <1>8, <1>9 DEF Next

\* A worker answers an explorer yes for the blocks it has found within the time
\* limit and since its start, and for no others.
THEOREM AnswersAreHonest == Spec => []ConfirmsItsOwn
<1>1. Init => FoundInv
  BY DEF Init, FoundInv
<1>2. TypeInv /\ FoundInv => ConfirmsItsOwn
  BY DEF TypeInv, TypeOK, FoundInv, ConfirmsItsOwn, Confirmed, Pruned
<1> QED
  BY <1>1, <1>2, FoundStep, TypeInvariance, PTL DEF Spec

-----------------------------------------------------------------------------
(* Nothing but a crash or a failed write takes the list away. *)

\* No step of a worker that goes on running empties its list or, saving, the file.
LEMMA WipedOutStep ==
    ASSUME TypeInv, [Next]_vars
    PROVE  /\ \A w \in running' : mempools[w] # {} => mempools'[w] # {}
           /\ ParseMempoolsRegistry(file) # {} /\ saveFailures' = saveFailures
                 => ParseMempoolsRegistry(file') # {}
<1> USE DEF TypeInv, TypeOK, list, findings, process
<1> DEFINE Goal == /\ \A w \in running' : mempools[w] # {} => mempools'[w] # {}
                   /\ ParseMempoolsRegistry(file) # {} /\ saveFailures' = saveFailures
                         => ParseMempoolsRegistry(file') # {}
<1>1. CASE RegistryChanges \/ Tick
  BY <1>1 DEF RegistryChanges, Tick
<1>2. ASSUME NEW w \in Worker, Start(w) PROVE Goal
  <2>1. mempools[w] = {} /\ file' = file
    BY <1>2 DEF Start, DownIsEmpty
  <2> QED
    BY <1>2, <2>1 DEF Start, LoadLocalCache
<1>3. ASSUME NEW w \in Worker, RefreshRegistry(w) \/ RegistryAnswers(w) PROVE Goal
  BY <1>3 DEF RefreshRegistry, RegistryAnswers
<1>4. ASSUME NEW w \in Worker, Refreshed(w) PROVE Goal
  BY <1>4 DEF Refreshed, TakeList, Taken, SaveLocalCache
<1>5. ASSUME NEW w \in Worker, Crash(w) PROVE Goal
  BY <1>5 DEF Crash
<1>6. ASSUME NEW w \in Worker, NEW b \in Block,
             ReportBlockFound(w, b) \/ WasRecentlyFound(w, b)
      PROVE  Goal
  BY <1>6 DEF ReportBlockFound, WasRecentlyFound
<1>7. CASE UNCHANGED vars
  BY <1>7 DEF vars
<1> QED
  BY <1>1, <1>2, <1>3, <1>4, <1>5, <1>6, <1>7 DEF Next

\* "Never let a fetch that returns garbage wipe out an already-known good list",
\* in memory or in the file.
THEOREM GoodListStays == Spec => NeverWipedOut
<1>1. TypeInv /\ [Next]_vars =>
        [/\ \A w \in running' : mempools[w] # {} => mempools'[w] # {}
         /\ ParseMempoolsRegistry(file) # {} /\ saveFailures' = saveFailures
               => ParseMempoolsRegistry(file') # {}]_vars
  BY WipedOutStep
<1> QED
  BY <1>1, TypeInvariance, PTL DEF Spec, NeverWipedOut
=============================================================================
