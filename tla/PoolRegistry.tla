---------------------------- MODULE PoolRegistry ----------------------------
(* PoolRegistryService: the list of explorers, which is fetched from a      *)
(* shared registry and kept in memory and in a file, and the blocks found   *)
(* lately, which an explorer asks about when it has been told of one.       *)
(*                                                                          *)
(* In cluster mode each worker has a service of its own, and they share the *)
(* file. A worker may die and is then started again.                        *)
EXTENDS Integers

CONSTANTS
    Worker,
    Explorer,           \* the entries a list may have
    Malformed,          \* a line that is not an entry
    Text,               \* the contents mempools.txt may have: sets of lines
    Block,
    Ttl,                \* RECENT_BLOCK_TTL_MS
    MaxCrashes,         \* bound: how often a worker dies
    MaxSaveFailures,    \* bound: how often the file cannot be written
    Unreachable,        \* instead of a text: the request fails
    Idle, Asked         \* no request is under way, and one without an answer

ASSUME RegistryAssumption ==
    /\ \A text \in Text : text \subseteq Explorer \cup {Malformed}
    /\ Malformed \notin Explorer
    /\ {Unreachable, Idle, Asked} \cap Text = {}
    /\ Unreachable # Idle /\ Unreachable # Asked /\ Idle # Asked
    /\ {Ttl, MaxCrashes, MaxSaveFailures} \subseteq Nat

VARIABLES
    registry,           \* what a request to MEMPOOL_REGISTRY_URL gets
    file,               \* mempools-registry.txt, empty if there is none
    running,            \* the workers that have been started
    mempools,           \* the list of each worker
    fetch,              \* the request of each worker, or what it has got
    recentlyFoundBlocks,
    finder,             \* the worker that has found a block, as a set
    age,                \* how long ago that was
    forgotten,          \* the blocks whose finder has died since
    entitled,           \* the workers that have fetched a list, or were started
                        \* when one had been fetched
    crashes,
    saveFailures

vars == <<registry, file, running, mempools, fetch, recentlyFoundBlocks, finder,
          age, forgotten, entitled, crashes, saveFailures>>

list == <<file, mempools, fetch, entitled, saveFailures>>
findings == <<recentlyFoundBlocks, finder, age, forgotten>>
process == <<running, crashes>>

TypeOK ==
    /\ registry \in Text \cup {Unreachable}
    /\ file \in Text \cup {{}}
    /\ running \subseteq Worker
    /\ mempools \in [Worker -> SUBSET Explorer]
    /\ fetch \in [Worker -> Text \cup {Unreachable, Idle, Asked}]
    /\ recentlyFoundBlocks \in [Worker -> SUBSET Block]
    /\ finder \in [Block -> {{}} \cup {{w} : w \in Worker}]
    /\ age \in [Block -> 0 .. Ttl + 1]
    /\ forgotten \subseteq Block
    /\ entitled \subseteq Worker
    /\ crashes \in 0 .. MaxCrashes
    /\ saveFailures \in 0 .. MaxSaveFailures

Init ==
    /\ registry \in Text \cup {Unreachable}
    /\ file = {}
    /\ running = {}
    /\ mempools = [w \in Worker |-> {}]
    /\ fetch = [w \in Worker |-> Idle]
    /\ recentlyFoundBlocks = [w \in Worker |-> {}]
    /\ finder = [b \in Block |-> {}]
    /\ age = [b \in Block |-> 0]
    /\ forgotten = {}
    /\ entitled = {}
    /\ crashes = 0
    /\ saveFailures = 0

-----------------------------------------------------------------------------
(* The list. *)

RegistryChanges ==
    /\ registry' \in (Text \cup {Unreachable}) \ {registry}
    /\ UNCHANGED <<list, findings, process>>

\* parseMempoolsRegistry: what is not an entry is skipped.
ParseMempoolsRegistry(text) == text \cap Explorer

\* Mutant: the list starts empty, since it is fetched at once anyway.
NothingLoaded(w) == UNCHANGED mempools

\* loadLocalCache
LoadLocalCache(w) == mempools' = [mempools EXCEPT ![w] = ParseMempoolsRegistry(file)]

\* onModuleInit: the file is read and a request is sent.
Start(w) ==
    /\ w \notin running
    /\ running' = running \cup {w}
    /\ LoadLocalCache(w)
    /\ fetch' = [fetch EXCEPT ![w] = Asked]
    /\ entitled' = IF entitled = {} THEN {} ELSE entitled \cup {w}
    /\ UNCHANGED <<registry, file, saveFailures, findings, crashes>>

\* refreshRegistry, every fifteen minutes, up to its request.
RefreshRegistry(w) ==
    /\ w \in running
    /\ fetch[w] = Idle
    /\ fetch' = [fetch EXCEPT ![w] = Asked]
    /\ UNCHANGED <<registry, file, mempools, entitled, saveFailures, findings, process>>

RegistryAnswers(w) ==
    /\ fetch[w] = Asked
    /\ fetch' = [fetch EXCEPT ![w] = registry]
    /\ UNCHANGED <<registry, file, mempools, entitled, saveFailures, findings, process>>

\* Mutant: only the entries are saved.
SaveEntries(text) == file' = ParseMempoolsRegistry(text) /\ UNCHANGED saveFailures

\* saveLocalCache. Writing truncates the file first, so that a failure leaves it
\* as it was or empty; it is logged.
SaveLocalCache(text) ==
    \/ file' = text /\ UNCHANGED saveFailures
    \/ /\ saveFailures < MaxSaveFailures
       /\ saveFailures' = saveFailures + 1
       /\ file' \in {file, {}}

\* Mutant: a list that is known already is not replaced.
KeptIfKnown(w, text) == ParseMempoolsRegistry(text) # {} /\ mempools[w] = {}

\* A text is taken if it has at least one entry.
Taken(w, text) == ParseMempoolsRegistry(text) # {}

\* Mutant: the text is saved before its entries are counted.
SavedFirst(w, text) ==
    /\ SaveLocalCache(text)
    /\ IF Taken(w, text)
       THEN /\ mempools' = [mempools EXCEPT ![w] = ParseMempoolsRegistry(text)]
            /\ entitled' = entitled \cup {w}
       ELSE UNCHANGED <<mempools, entitled>>

TakeList(w, text) ==
    IF Taken(w, text)
    THEN /\ mempools' = [mempools EXCEPT ![w] = ParseMempoolsRegistry(text)]
         /\ entitled' = entitled \cup {w}
         /\ SaveLocalCache(text)
    ELSE UNCHANGED <<file, mempools, entitled, saveFailures>>

\* refreshRegistry, when its request has been answered or has failed.
Refreshed(w) ==
    /\ fetch[w] \notin {Idle, Asked}
    /\ fetch' = [fetch EXCEPT ![w] = Idle]
    /\ IF fetch[w] = Unreachable
       THEN UNCHANGED <<file, mempools, entitled, saveFailures>>
       ELSE TakeList(w, fetch[w])
    /\ UNCHANGED <<registry, findings, process>>

\* A worker dies: the file remains.
Crash(w) ==
    /\ w \in running
    /\ crashes < MaxCrashes
    /\ crashes' = crashes + 1
    /\ running' = running \ {w}
    /\ mempools' = [mempools EXCEPT ![w] = {}]
    /\ fetch' = [fetch EXCEPT ![w] = Idle]
    /\ recentlyFoundBlocks' = [recentlyFoundBlocks EXCEPT ![w] = {}]
    /\ forgotten' = forgotten \cup {b \in Block : finder[b] = {w}}
    /\ UNCHANGED <<registry, file, entitled, saveFailures, finder, age>>

-----------------------------------------------------------------------------
(* The blocks found lately. *)

Tick ==
    /\ \E b \in Block : finder[b] # {} /\ age[b] <= Ttl
    /\ age' = [b \in Block |-> IF finder[b] = {} \/ age[b] > Ttl THEN age[b] ELSE age[b] + 1]
    /\ UNCHANGED <<registry, list, process, recentlyFoundBlocks, finder, forgotten>>

\* Mutant: what has just been found is thrown away with what is old.
PrunedAtLimit(known) == {b \in known : age[b] < Ttl}

\* pruneOldEntries
Pruned(known) == {b \in known : age[b] <= Ttl}

\* recordFoundBlock, at the start of reportBlockFound.
RecordFoundBlock(w, b) ==
    recentlyFoundBlocks' = [recentlyFoundBlocks EXCEPT ![w] = Pruned(@) \cup {b}]

\* reportBlockFound: the explorers told of the block are those in mempools.
ReportBlockFound(w, b) ==
    /\ w \in running
    /\ finder[b] = {}
    /\ finder' = [finder EXCEPT ![b] = {w}]
    /\ RecordFoundBlock(w, b)
    /\ UNCHANGED <<registry, list, process, age, forgotten>>

\* wasRecentlyFound: the answer of this worker to GET pool/identity/confirm,
\* whether or not the block has been reported.
Confirmed(w, b) == b \in Pruned(recentlyFoundBlocks[w])

WasRecentlyFound(w, b) ==
    /\ w \in running
    /\ recentlyFoundBlocks' = [recentlyFoundBlocks EXCEPT ![w] = Pruned(@)]
    /\ UNCHANGED <<registry, list, process, finder, age, forgotten>>

-----------------------------------------------------------------------------
Next ==
    \/ RegistryChanges
    \/ Tick
    \/ \E w \in Worker :
          \/ Start(w)
          \/ RefreshRegistry(w)
          \/ RegistryAnswers(w)
          \/ Refreshed(w)
          \/ Crash(w)
          \/ \E b \in Block : ReportBlockFound(w, b) \/ WasRecentlyFound(w, b)

Spec == Init /\ [][Next]_vars

\* Workers are started again, the interval fires, and a request ends.
Fairness ==
    \A w \in Worker :
        /\ WF_vars(Start(w))
        /\ WF_vars(RefreshRegistry(w))
        /\ WF_vars(RegistryAnswers(w))
        /\ WF_vars(Refreshed(w))

FairSpec == Spec /\ Fairness

-----------------------------------------------------------------------------
(* Safety and liveness. *)

\* "a usable list immediately even if the registry host is unreachable at boot":
\* a worker that has fetched a list, or was started when any had been fetched, has
\* one to report a block to, through texts without entries, requests that fail
\* and restarts, unless the file could not be written.
ListIsThere ==
    saveFailures = 0 => \A w \in entitled \cap running : mempools[w] # {}

\* "Never let a fetch that returns garbage wipe out an already-known good list":
\* the list and the file lose their entries only by a crash or a failed write.
NeverWipedOut ==
    [][/\ \A w \in running' : mempools[w] # {} => mempools'[w] # {}
       /\ ParseMempoolsRegistry(file) # {} /\ saveFailures' = saveFailures
             => ParseMempoolsRegistry(file') # {}]_vars

\* A worker confirms exactly the blocks it has found at most half an hour ago,
\* if it has not died since: the hashes are in memory only.
ConfirmsItsOwn ==
    \A w \in running, b \in Block :
        Confirmed(w, b) <=> finder[b] = {w} /\ age[b] <= Ttl /\ b \notin forgotten

\* A registry that stays as it is ends up in every worker, whatever it was before.
FollowsRegistry ==
    \A text \in Text :
        ParseMempoolsRegistry(text) # {} =>
            (<>[](registry = text) =>
                <>[](\A w \in Worker : mempools[w] = ParseMempoolsRegistry(text)))
=============================================================================
