------------------------ MODULE AcceptedSharesProofs ------------------------
(* Theorems about AcceptedShares, for any sessions, addresses, difficulties  *)
(* and numbers of shares and failures.                                       *)
EXTENDS AcceptedShares, TLAPS

\* A share under way has the fields of a share.
LEMMA ShareFields ==
    ASSUME TypeOK, NEW x \in shares
    PROVE  x \in Share /\ x.id \in ShareId /\ x.sess \in Session
           /\ x.diff \in Difficulty /\ x.stage \in Stage
BY DEF TypeOK, Share

\* A share that goes on keeps everything but its stage.
LEMMA AwaitEffect ==
    ASSUME TypeOK, NEW x \in shares, NEW st \in Stage, Await(x, st)
    PROVE  \E z \in Share :
              /\ z.id = x.id /\ z.sess = x.sess /\ z.diff = x.diff /\ z.stage = st
              /\ shares' = (shares \ {x}) \cup {z}
<1> DEFINE z == [x EXCEPT !.stage = st]
<1>1. z \in Share /\ z.id = x.id /\ z.sess = x.sess /\ z.diff = x.diff /\ z.stage = st
  BY ShareFields DEF Share
<1> QED
  BY <1>1 DEF Await

\* What ensureClientEntity does to a share and to the row of its session.
LEMMA EnsureEntityEffect ==
    ASSUME TypeOK, NEW x \in shares, EnsureEntity(x)
    PROVE  /\ shares' \subseteq Share
           /\ entity' \in [Session -> {"none", "creating", "present", "failed"}]
           /\ missed' \subseteq ShareId
           /\ connected' \subseteq Session
           /\ missed \subseteq missed'
           /\ \A s \in Session : entity[s] = "creating" => entity'[s] = "creating"
           /\ shares \ {x} \subseteq shares'
           /\ \A y \in shares' \ shares : y.id = x.id /\ y.stage \in {"entity", "count"}
           /\ \/ x.id \in missed'
              \/ \E z \in shares' : /\ z.id = x.id
                                    /\ z.stage \in {"entity", "count"}
                                    /\ z.stage = "entity" => entity'[z.sess] = "creating"
<1>0. x.id \in ShareId /\ x.sess \in Session
  BY ShareFields
<1>1. CASE entity[x.sess] \in {"none", "creating"} /\ Await(x, "entity")
           /\ entity' = [entity EXCEPT ![x.sess] = "creating"] /\ UNCHANGED <<missed, connected>>
  <2>1. PICK z \in Share :
            /\ z.id = x.id /\ z.sess = x.sess /\ z.diff = x.diff /\ z.stage = "entity"
            /\ shares' = (shares \ {x}) \cup {z}
    BY <1>1, AwaitEffect DEF Stage
  <2>2. entity' \in [Session -> {"none", "creating", "present", "failed"}]
        /\ entity'[x.sess] = "creating"
        /\ \A s \in Session : entity[s] = "creating" => entity'[s] = "creating"
    BY <1>0, <1>1 DEF TypeOK
  <2> QED
    BY <1>1, <2>1, <2>2 DEF TypeOK
<1>2. CASE entity[x.sess] = "present" /\ Await(x, "count") /\ UNCHANGED <<entity, missed, connected>>
  <2>1. PICK z \in Share :
            /\ z.id = x.id /\ z.sess = x.sess /\ z.diff = x.diff /\ z.stage = "count"
            /\ shares' = (shares \ {x}) \cup {z}
    BY <1>2, AwaitEffect DEF Stage
  <2> QED
    BY <1>2, <2>1 DEF TypeOK
<1>3. CASE entity[x.sess] = "failed" /\ Throw(x) /\ UNCHANGED entity
  BY <1>0, <1>3 DEF Throw, Finish, TypeOK
<1> QED
  BY <1>1, <1>2, <1>3 DEF EnsureEntity

-----------------------------------------------------------------------------
(* Type correctness. *)

\* The two ways of a share out of a step, for the types.
LEMMA AwaitType ==
    ASSUME TypeOK, NEW x \in shares, NEW st \in Stage, Await(x, st)
    PROVE  shares' \subseteq Share
BY AwaitEffect DEF TypeOK

\* A share that has been counted goes on or is done.
LEMMA CompareType ==
    ASSUME TypeOK, NEW x \in shares, CompareWithBest(x)
    PROVE  shares' \subseteq Share
<1>1. CASE Await(x, "row")
  BY <1>1, AwaitType DEF Stage
<1>2. CASE Finish(x)
  BY <1>2 DEF Finish, TypeOK
<1> QED
  BY <1>1, <1>2 DEF CompareWithBest

\* Every variable has its type at the start.
LEMMA InitType == Init => TypeOK
<1> SUFFICES ASSUME Init PROVE TypeOK
  OBVIOUS
<1>1. /\ addressBest \in [Range(Payout) -> Difficulty \cup {0}]
      /\ best \in [Session -> Difficulty \cup {0}]
      /\ rowBest \in [Session -> Difficulty \cup {0}]
      /\ entity \in [Session -> {"none", "creating", "present", "failed"}]
  BY DEF Init
<1>2. arrived \in 0 .. MaxShares /\ failures \in 0 .. MaxFailures
  BY SharesAssumption DEF Init
<1>3. \A ids \in {replied, chain, found, recent, reports, told, missed, lost} :
         ids \subseteq ShareId
  BY DEF Init
<1> QED
  BY <1>1, <1>2, <1>3 DEF Init, TypeOK

\* The steps a share takes when nothing fails keep the types.
LEMMA ProceedType ==
    ASSUME TypeOK, NEW x \in shares, Proceed(x)
    PROVE  TypeOK'
<1> USE DEF blocks, records
<1>0. x \in Share /\ x.id \in ShareId /\ x.sess \in Session /\ x.diff \in Difficulty
  BY ShareFields
<1>1. CASE Replied(x)
  <2>1. shares' \subseteq Share
        /\ entity' \in [Session -> {"none", "creating", "present", "failed"}]
        /\ missed' \subseteq ShareId /\ connected' \subseteq Session
    <3>1. CASE Await(x, "submit") /\ UNCHANGED <<entity, missed, connected>>
      BY <3>1, AwaitType DEF Stage, TypeOK
    <3>2. CASE EnsureEntity(x)
      BY <3>2, EnsureEntityEffect
    <3> QED
      BY <1>1, <3>1, <3>2 DEF Replied
  <2> QED
    BY <1>0, <1>1, <2>1 DEF Replied, TypeOK
<1>2. CASE NotReplied(x)
  BY <1>2 DEF NotReplied, Finish, TypeOK
<1>3. CASE NodeTakes(x)
  <2>1. shares' \subseteq Share
    BY <1>3, AwaitType DEF NodeTakes, Stage
  <2> QED
    BY <1>0, <1>3, <2>1 DEF NodeTakes, TypeOK
<1>4. CASE NodeRejects(x)
  BY <1>4, EnsureEntityEffect DEF NodeRejects, TypeOK
<1>5. CASE VerdictArrives(x)
  <2>1. shares' \subseteq Share
    BY <1>5, AwaitType DEF VerdictArrives, AfterVerdict, Stage
  <2> QED
    BY <1>5, <2>1 DEF VerdictArrives, TypeOK
<1>6. CASE BlockSaved(x)
  <2>1. shares' \subseteq Share
    BY <1>6, AwaitType DEF BlockSaved, Stage
  <2> QED
    BY <1>0, <1>6, <2>1 DEF BlockSaved, TypeOK
<1>7. CASE Notified(x)
  <2>1. shares' \subseteq Share
    BY <1>7, AwaitType DEF Notified, Stage
  <2> QED
    BY <1>7, <2>1 DEF Notified, TypeOK
<1>8. CASE BestsReset(x)
  <2>1. shares' \subseteq Share
    BY <1>8, AwaitType DEF BestsReset, Stage
  <2>2. addressBest' \in [Range(Payout) -> Difficulty \cup {0}]
    BY <1>8 DEF BestsReset, TypeOK
  <2> QED
    BY <1>0, <1>8, <2>1, <2>2 DEF BestsReset, Remember, TypeOK
<1>9. CASE Reported(x)
  BY <1>0, <1>9, EnsureEntityEffect DEF Reported, Remember, TypeOK
<1>10. CASE Counted(x)
  <2>1. shares' \subseteq Share
    BY <1>10, CompareType DEF Counted
  <2>2. [id |-> x.id, sess |-> x.sess, diff |-> x.diff]
            \in [id : ShareId, sess : Session, diff : Difficulty]
    BY <1>0
  <2> QED
    BY <1>10, <2>1, <2>2 DEF Counted, TypeOK
<1>11. CASE RowUpdated(x)
  <2>1. shares' \subseteq Share
    BY <1>11, AwaitType DEF RowUpdated, Stage
  <2>2. rowBest' \in [Session -> Difficulty \cup {0}]
    BY <1>0, <1>11 DEF RowUpdated, IfHigher, TypeOK
  <2> QED
    BY <1>11, <2>1, <2>2 DEF RowUpdated, TypeOK
<1>12. CASE RowDone(x)
  <2>1. shares' \subseteq Share
    BY <1>12, AwaitType DEF RowDone, Stage
  <2>2. best' \in [Session -> Difficulty \cup {0}]
    BY <1>0, <1>12 DEF RowDone, TypeOK
  <2> QED
    BY <1>12, <2>1, <2>2 DEF RowDone, TypeOK
<1>13. CASE AddressUpdated(x)
  <2>1. addressBest' \in [Range(Payout) -> Difficulty \cup {0}]
    BY <1>0, <1>13 DEF AddressUpdated, IfHigher, TypeOK
  <2> QED
    BY <1>13, <2>1 DEF AddressUpdated, Finish, TypeOK
<1> QED
  BY <1>1, <1>2, <1>3, <1>4, <1>5, <1>6, <1>7, <1>8, <1>9, <1>10, <1>11, <1>12,
     <1>13 DEF Proceed

\* So do the steps that fail.
LEMMA GoWrongType ==
    ASSUME TypeOK, NEW x \in shares, GoWrong(x)
    PROVE  TypeOK'
<1> USE DEF blocks, records
<1>0. x.id \in ShareId
  BY ShareFields
<1>1. failures' \in 0 .. MaxFailures
  BY SharesAssumption
     DEF GoWrong, VerdictLost, BlockStepFails, CountFails, BestUpdateFails, Fail, TypeOK
<1>2. CASE VerdictLost(x)
  BY <1>0, <1>1, <1>2, EnsureEntityEffect DEF VerdictLost, TypeOK
<1>3. CASE BlockStepFails(x)
  BY <1>0, <1>1, <1>3 DEF BlockStepFails, Throw, Finish, TypeOK
<1>4. CASE CountFails(x)
  <2>1. shares' \subseteq Share
    BY <1>4, CompareType DEF CountFails
  <2> QED
    BY <1>0, <1>1, <1>4, <2>1 DEF CountFails, TypeOK
<1>5. CASE BestUpdateFails(x)
  BY <1>1, <1>5 DEF BestUpdateFails, Finish, TypeOK
<1> QED
  BY <1>2, <1>3, <1>4, <1>5 DEF GoWrong

\* So do the steps of a session: a share arrives, the row is there, the socket closes.
LEMMA SessionStepType ==
    ASSUME TypeOK, NEW s \in Session,
           \/ \E d \in Difficulty : Accept(s, d)
           \/ EntityCreated(s) \/ EntityFails(s) \/ Disconnect(s)
    PROVE  TypeOK'
<1> USE DEF blocks, records
<1>1. ASSUME NEW d \in Difficulty, Accept(s, d) PROVE TypeOK'
  <2>1. [id |-> arrived + 1, sess |-> s, diff |-> d, stage |-> "reply"] \in Share
    BY <1>1, SharesAssumption DEF Accept, Share, Stage, ShareId, TypeOK
  <2>2. arrived' \in 0 .. MaxShares
    BY <1>1, SharesAssumption DEF Accept, TypeOK
  <2> QED
    BY <1>1, <2>1, <2>2 DEF Accept, TypeOK
<1>2. CASE EntityCreated(s)
  <2>1. \A x \in shares : [x EXCEPT !.stage = "count"] \in Share
    BY DEF TypeOK, Share, Stage
  <2>2. shares' \subseteq Share
    BY <1>2, <2>1 DEF EntityCreated, Woken, Waiting, TypeOK
  <2> QED
    BY <1>2, <2>2 DEF EntityCreated, TypeOK
<1>3. CASE EntityFails(s)
  <2>1. \A x \in Waiting(s) : x.id \in ShareId
    BY ShareFields DEF Waiting
  <2>2. failures' \in 0 .. MaxFailures
    BY <1>3, SharesAssumption DEF EntityFails, Fail, TypeOK
  <2> QED
    BY <1>3, <2>1, <2>2 DEF EntityFails, TypeOK
<1>4. CASE Disconnect(s)
  BY <1>4 DEF Disconnect, TypeOK
<1> QED
  BY <1>1, <1>2, <1>3, <1>4

\* Every step keeps the types.
LEMMA TypeStep == TypeOK /\ [Next]_vars => TypeOK'
<1> SUFFICES ASSUME TypeOK, [Next]_vars PROVE TypeOK'
  OBVIOUS
<1>1. CASE UNCHANGED vars
  BY <1>1 DEF vars, TypeOK
<1>2. ASSUME NEW i \in reports, ReportArrives(i) PROVE TypeOK'
  <2>1. i \in ShareId
    BY DEF TypeOK
  <2> QED
    BY <1>2, <2>1 DEF ReportArrives, records, TypeOK
<1>3. CASE Next
  BY <1>2, <1>3, ProceedType, GoWrongType, SessionStepType DEF Next
<1> QED
  BY <1>1, <1>3

\* Every variable keeps its type: the updates of the counters' and bests' rows
\* yield difficulties, and no step leaves a share at a stage nobody resumes.
THEOREM TypeCorrect == Spec => []TypeOK
BY InitType, TypeStep, PTL DEF Spec

-----------------------------------------------------------------------------
(* Blocks. *)

\* A share that waits for what follows the node's verdict has been taken by the
\* node. The hash of a block is remembered before its reports are posted, and while it is
\* being reported it stays so.
StagesAreEarned ==
    \A x \in shares :
        /\ x.stage \in {"verdict", "save", "notify", "reset", "report"} => x.id \in chain
        /\ x.stage = "report" => x.id \in recent

BlocksInv ==
    /\ FoundAreAccepted
    /\ ReportsAreConfirmed
    /\ reports \subseteq recent
    /\ StagesAreEarned

\* A share that goes on or ends leaves the stages of the others alone.
LEMMA BlocksAfterAwait ==
    ASSUME TypeOK, BlocksInv, NEW x \in shares, NEW st \in Stage, Await(x, st),
           chain \subseteq chain', recent \subseteq recent',
           st \in {"verdict", "save", "notify", "reset", "report"} => x.id \in chain',
           st = "report" => x.id \in recent'
    PROVE  StagesAreEarned'
<1>1. PICK z \in Share :
          /\ z.id = x.id /\ z.sess = x.sess /\ z.diff = x.diff /\ z.stage = st
          /\ shares' = (shares \ {x}) \cup {z}
  BY AwaitEffect
<1> QED
  BY <1>1 DEF BlocksInv, StagesAreEarned

\* A share that goes on to its row leaves the stages of a block.
LEMMA BlocksAfterEnsure ==
    ASSUME TypeOK, BlocksInv, NEW x \in shares, EnsureEntity(x),
           chain \subseteq chain', recent \subseteq recent'
    PROVE  StagesAreEarned'
BY EnsureEntityEffect DEF BlocksInv, StagesAreEarned

\* Every step keeps what the stages of a block say.
LEMMA BlocksStep == TypeOK /\ BlocksInv /\ [Next]_vars => BlocksInv'
<1> SUFFICES ASSUME TypeOK, BlocksInv, [Next]_vars PROVE BlocksInv'
  OBVIOUS
<1> USE DEF FoundAreAccepted, ReportsAreConfirmed, blocks
<1>1. ASSUME NEW x \in shares, Proceed(x) PROVE BlocksInv'
  <2>1. CASE Replied(x) \/ NodeRejects(x)
    <3>1. Await(x, "submit") \/ EnsureEntity(x)
      BY <2>1 DEF Replied, NodeRejects
    <3>2. StagesAreEarned'
      BY <2>1, <3>1, BlocksAfterAwait, BlocksAfterEnsure DEF Replied, NodeRejects, Stage
    <3> QED
      BY <2>1, <3>2 DEF Replied, NodeRejects, BlocksInv
  <2>2. CASE NotReplied(x)
    BY <2>2 DEF NotReplied, Finish, BlocksInv, StagesAreEarned
  <2>3. CASE NodeTakes(x)
    <3>1. StagesAreEarned'
      BY <2>3, BlocksAfterAwait DEF NodeTakes, Stage
    <3> QED
      BY <2>3, <3>1 DEF NodeTakes, BlocksInv
  <2>4. CASE VerdictArrives(x)
    <3>1. StagesAreEarned'
      BY <2>4, BlocksAfterAwait
         DEF VerdictArrives, AfterVerdict, Stage, BlocksInv, StagesAreEarned
    <3> QED
      BY <2>4, <3>1 DEF VerdictArrives, BlocksInv
  <2>5. CASE BlockSaved(x)
    <3>1. x.id \in chain
      BY <2>5 DEF BlockSaved, SaveStages, BlocksInv, StagesAreEarned
    <3>2. StagesAreEarned'
      BY <2>5, <3>1, BlocksAfterAwait DEF BlockSaved, Stage
    <3> QED
      BY <2>5, <3>1, <3>2 DEF BlockSaved, BlocksInv
  <2>6. CASE Notified(x)
    <3>1. StagesAreEarned'
      BY <2>6, BlocksAfterAwait DEF Notified, Stage, BlocksInv, StagesAreEarned
    <3> QED
      BY <2>6, <3>1 DEF Notified, BlocksInv
  <2>7. CASE BestsReset(x)
    <3>1. StagesAreEarned'
      BY <2>7, BlocksAfterAwait
         DEF BestsReset, Remember, Stage, BlocksInv, StagesAreEarned
    <3> QED
      BY <2>7, <3>1 DEF BestsReset, Remember, BlocksInv
  <2>8. CASE Reported(x)
    <3>1. StagesAreEarned'
      BY <2>8, BlocksAfterEnsure DEF Reported, Remember
    <3> QED
      BY <2>8, <3>1 DEF Reported, Remember, BlocksInv
  <2>9. CASE Counted(x)
    <3>1. Await(x, "row") \/ Finish(x)
      BY <2>9 DEF Counted, CompareWithBest
    <3>2. StagesAreEarned'
      BY <2>9, <3>1, BlocksAfterAwait
         DEF Counted, Finish, Stage, BlocksInv, StagesAreEarned
    <3> QED
      BY <2>9, <3>2 DEF Counted, BlocksInv
  <2>10. CASE RowUpdated(x) \/ RowDone(x)
    <3>1. Await(x, "rowDone") \/ Await(x, "address")
      BY <2>10 DEF RowUpdated, RowDone
    <3>2. StagesAreEarned'
      BY <2>10, <3>1, BlocksAfterAwait DEF RowUpdated, RowDone, Stage
    <3> QED
      BY <2>10, <3>2 DEF RowUpdated, RowDone, BlocksInv
  <2>11. CASE AddressUpdated(x)
    BY <2>11 DEF AddressUpdated, Finish, BlocksInv, StagesAreEarned
  <2> QED
    BY <1>1, <2>1, <2>2, <2>3, <2>4, <2>5, <2>6, <2>7, <2>8, <2>9, <2>10, <2>11
       DEF Proceed
<1>2. ASSUME NEW x \in shares, GoWrong(x) PROVE BlocksInv'
  <2>1. CASE VerdictLost(x)
    <3>1. StagesAreEarned'
      BY <2>1, BlocksAfterEnsure DEF VerdictLost
    <3> QED
      BY <2>1, <3>1 DEF VerdictLost, BlocksInv
  <2>2. CASE BlockStepFails(x)
    BY <2>2 DEF BlockStepFails, Throw, Finish, BlocksInv, StagesAreEarned
  <2>3. CASE CountFails(x)
    <3>1. Await(x, "row") \/ Finish(x)
      BY <2>3 DEF CountFails, CompareWithBest
    <3>2. StagesAreEarned'
      BY <2>3, <3>1, BlocksAfterAwait
         DEF CountFails, Finish, Stage, BlocksInv, StagesAreEarned
    <3> QED
      BY <2>3, <3>2 DEF CountFails, BlocksInv
  <2>4. CASE BestUpdateFails(x)
    BY <2>4 DEF BestUpdateFails, Finish, BlocksInv, StagesAreEarned
  <2> QED
    BY <1>2, <2>1, <2>2, <2>3, <2>4 DEF GoWrong
<1>3. ASSUME NEW s \in Session PROVE
          /\ (\E d \in Difficulty : Accept(s, d)) => BlocksInv'
          /\ EntityCreated(s) \/ EntityFails(s) \/ Disconnect(s) => BlocksInv'
  <2>1. ASSUME NEW d \in Difficulty, Accept(s, d) PROVE BlocksInv'
    BY <2>1 DEF Accept, BlocksInv, StagesAreEarned
  <2>2. CASE EntityCreated(s)
    <3>1. \A x \in shares : [x EXCEPT !.stage = "count"].stage = "count"
      BY DEF TypeOK, Share
    <3>2. \A y \in shares' : y \in shares \/ y.stage = "count"
      BY <2>2, <3>1 DEF EntityCreated, Woken, Waiting
    <3>3. StagesAreEarned'
      BY <2>2, <3>2 DEF EntityCreated, BlocksInv, StagesAreEarned
    <3> QED
      BY <2>2, <3>3 DEF EntityCreated, BlocksInv
  <2>3. CASE EntityFails(s)
    BY <2>3 DEF EntityFails, BlocksInv, StagesAreEarned
  <2>4. CASE Disconnect(s)
    BY <2>4 DEF Disconnect, BlocksInv, StagesAreEarned
  <2> QED
    BY <2>1, <2>2, <2>3, <2>4
<1>4. CASE UNCHANGED vars
  BY <1>4 DEF vars, BlocksInv, StagesAreEarned
<1>5. ASSUME NEW i \in reports, ReportArrives(i) PROVE BlocksInv'
  BY <1>5 DEF ReportArrives, BlocksInv, StagesAreEarned
<1> QED
  BY <1>1, <1>2, <1>3, <1>4, <1>5 DEF Next

\* What the stages of a block say holds in every state.
LEMMA BlocksInvariance == Spec => []BlocksInv
<1>1. Init => BlocksInv
  BY DEF Init, BlocksInv, FoundAreAccepted, ReportsAreConfirmed, StagesAreEarned
<1> QED
  BY <1>1, BlocksStep, TypeCorrect, PTL DEF Spec

\* With any number of submissions under way, in any order, the table of found
\* blocks holds only blocks the node has accepted.
THEOREM OnlyAcceptedBlocks == Spec => []FoundAreAccepted
<1>1. BlocksInv => FoundAreAccepted
  BY DEF BlocksInv
<1> QED
  BY <1>1, BlocksInvariance, PTL

\* No report reaches an explorer, early or late, of a block that the pool would not
\* confirm.
THEOREM ReportsConfirmed == Spec => []ReportsAreConfirmed
<1>1. BlocksInv => ReportsAreConfirmed
  BY DEF BlocksInv
<1> QED
  BY <1>1, BlocksInvariance, PTL

-----------------------------------------------------------------------------
(* The best difficulty in memory. *)

\* A share whose update has been executed finds its difficulty in the row, or a
\* higher one, when it resumes.
MemoryInv ==
    /\ MemoryIsStored
    /\ \A x \in shares : x.stage = "rowDone" => x.diff <= rowBest[x.sess]

\* The steps of a share that neither read nor write the bests.
LEMMA MemoryAfterMove ==
    ASSUME TypeOK, MemoryInv, UNCHANGED <<best, rowBest>>,
           \A y \in shares' : y \in shares \/ y.stage # "rowDone"
    PROVE  MemoryInv'
BY DEF MemoryInv, MemoryIsStored

\* Every step keeps what is known of rows and memory.
LEMMA MemoryStep == TypeOK /\ MemoryInv /\ [Next]_vars => MemoryInv'
<1> SUFFICES ASSUME TypeOK, MemoryInv, [Next]_vars PROVE MemoryInv'
  OBVIOUS
<1> USE DEF blocks, records
<1>1. ASSUME NEW x \in shares, NEW st \in Stage \ {"rowDone"}, Await(x, st)
      PROVE  \A y \in shares' : y \in shares \/ y.stage # "rowDone"
  BY <1>1, AwaitEffect
<1>2. ASSUME NEW x \in shares, EnsureEntity(x)
      PROVE  \A y \in shares' : y \in shares \/ y.stage # "rowDone"
  BY <1>2, EnsureEntityEffect
<1>3. ASSUME NEW x \in shares, CompareWithBest(x)
      PROVE  \A y \in shares' : y \in shares \/ y.stage # "rowDone"
  BY <1>1, <1>3 DEF CompareWithBest, Finish, Stage
<1>4. ASSUME NEW x \in shares, RowUpdated(x) PROVE MemoryInv'
  <2>1. PICK z \in Share :
            /\ z.id = x.id /\ z.sess = x.sess /\ z.diff = x.diff /\ z.stage = "rowDone"
            /\ shares' = (shares \ {x}) \cup {z}
    BY <1>4, AwaitEffect DEF RowUpdated, Stage
  <2>2. x.sess \in Session /\ x.diff \in Int
    BY ShareFields DEF Difficulty
  <2>3. rowBest \in [Session -> Int] /\ best \in [Session -> Int]
    BY DEF TypeOK, Difficulty
  <2>4. /\ x.diff <= rowBest'[x.sess]
        /\ \A s \in Session : rowBest[s] <= rowBest'[s]
        /\ rowBest' \in [Session -> Int]
    BY <1>4, <2>2, <2>3 DEF RowUpdated, IfHigher
  <2>5. MemoryIsStored'
    BY <1>4, <2>3, <2>4 DEF RowUpdated, MemoryInv, MemoryIsStored
  <2>6. ASSUME NEW y \in shares, y.stage = "rowDone" PROVE y.diff <= rowBest'[y.sess]
    <3>1. y.sess \in Session /\ y.diff \in Int
      BY ShareFields DEF Difficulty
    <3> QED
      BY <2>3, <2>4, <2>6, <3>1 DEF MemoryInv
  <2> QED
    BY <2>1, <2>4, <2>5, <2>6 DEF MemoryInv
<1>5. ASSUME NEW x \in shares, RowDone(x) PROVE MemoryInv'
  <2>1. \A y \in shares' : y \in shares \/ y.stage # "rowDone"
    BY <1>1, <1>5 DEF RowDone, Stage
  <2>2. x.sess \in Session /\ x.diff <= rowBest[x.sess]
    BY <1>5, ShareFields DEF RowDone, MemoryInv
  <2>3. MemoryIsStored'
    BY <1>5, <2>2 DEF RowDone, MemoryInv, MemoryIsStored, TypeOK
  <2> QED
    BY <1>5, <2>1, <2>3 DEF RowDone, MemoryInv
<1>6. ASSUME NEW x \in shares, Proceed(x), ~RowUpdated(x), ~RowDone(x) PROVE MemoryInv'
  <2>1. UNCHANGED <<best, rowBest>>
    BY <1>6 DEF Proceed, Replied, NotReplied, NodeTakes, NodeRejects, VerdictArrives,
                BlockSaved, Notified, BestsReset, Reported, Counted, AddressUpdated
  <2>2. \/ \E st \in Stage \ {"rowDone"} : Await(x, st)
        \/ EnsureEntity(x)
        \/ CompareWithBest(x)
        \/ Finish(x)
    BY <1>6 DEF Proceed, Replied, NotReplied, NodeTakes, NodeRejects, VerdictArrives,
                AfterVerdict, BlockSaved, Notified, BestsReset, Reported, Counted,
                AddressUpdated, Stage
  <2> QED
    BY <1>1, <1>2, <1>3, <2>1, <2>2, MemoryAfterMove DEF Finish
<1>7. ASSUME NEW x \in shares, GoWrong(x) PROVE MemoryInv'
  <2>1. UNCHANGED <<best, rowBest>>
    BY <1>7 DEF GoWrong, VerdictLost, BlockStepFails, CountFails, BestUpdateFails
  <2>2. EnsureEntity(x) \/ CompareWithBest(x) \/ Finish(x)
    BY <1>7 DEF GoWrong, VerdictLost, BlockStepFails, Throw, CountFails, BestUpdateFails
  <2> QED
    BY <1>2, <1>3, <2>1, <2>2, MemoryAfterMove DEF Finish
<1>8. ASSUME NEW s \in Session PROVE
          /\ (\E d \in Difficulty : Accept(s, d)) => MemoryInv'
          /\ EntityCreated(s) \/ EntityFails(s) \/ Disconnect(s) => MemoryInv'
  <2>1. ASSUME NEW d \in Difficulty, Accept(s, d) PROVE MemoryInv'
    BY <2>1, MemoryAfterMove DEF Accept
  <2>2. CASE EntityCreated(s)
    <3>1. \A x \in shares : [x EXCEPT !.stage = "count"].stage = "count"
      BY DEF TypeOK, Share
    <3>2. \A y \in shares' : y \in shares \/ y.stage # "rowDone"
      BY <2>2, <3>1 DEF EntityCreated, Woken, Waiting
    <3> QED
      BY <2>2, <3>2, MemoryAfterMove DEF EntityCreated
  <2>3. CASE EntityFails(s)
    BY <2>3, MemoryAfterMove DEF EntityFails
  <2>4. CASE Disconnect(s)
    BY <2>4, MemoryAfterMove DEF Disconnect
  <2> QED
    BY <2>1, <2>2, <2>3, <2>4
<1>9. CASE UNCHANGED vars
  BY <1>9, MemoryAfterMove DEF vars
<1>10. ASSUME NEW i \in reports, ReportArrives(i) PROVE MemoryInv'
  BY <1>10, MemoryAfterMove DEF ReportArrives
<1> QED
  BY <1>4, <1>5, <1>6, <1>7, <1>8, <1>9, <1>10 DEF Next

\* The difficulty a share must exceed is stored in the session's row, however the
\* updates of several shares overlap and whichever of them fail.
THEOREM MemoryStored == Spec => []MemoryIsStored
<1>1. Init => MemoryInv
  BY DEF Init, MemoryInv, MemoryIsStored
<1>2. MemoryInv => MemoryIsStored
  BY DEF MemoryInv
<1> QED
  BY <1>1, <1>2, MemoryStep, TypeCorrect, PTL DEF Spec

-----------------------------------------------------------------------------
(* Every accepted share is counted, was kept from it, or is carried on. *)

\* A share that is still to be counted, and that something will wake.
Carries(x) ==
    /\ x.stage \notin {"reply", "row", "rowDone", "address"}
    /\ x.stage = "entity" => entity[x.sess] = "creating"

CountedOrCarried(i) ==
    \/ i \in missed
    \/ \E c \in counted : c.id = i
    \/ \E x \in shares : x.id = i /\ Carries(x)

\* A step of a share x keeps the property if it leaves the others alone and x, if
\* it was to be counted, is, was kept from it, or goes on to be counted.
LEMMA CountedAfterMove ==
    ASSUME TypeOK, AcceptedIsCounted, NEW x \in shares,
           shares \ {x} \subseteq shares',
           \A s \in Session : entity[s] = "creating" => entity'[s] = "creating",
           counted \subseteq counted', missed \subseteq missed',
           replied' \subseteq replied \cup {x.id},
           CountedOrCarried(x.id)' \/ (~Carries(x) /\ replied' = replied)
    PROVE  AcceptedIsCounted'
<1> SUFFICES ASSUME NEW i \in replied' PROVE CountedOrCarried(i)'
  BY DEF AcceptedIsCounted, CountedOrCarried, Carries
<1>1. CASE CountedOrCarried(x.id)' /\ i = x.id
  BY <1>1
<1>2. CASE ~(CountedOrCarried(x.id)' /\ i = x.id)
  <2>1. i \in replied /\ CountedOrCarried(i)
    BY <1>2 DEF AcceptedIsCounted, CountedOrCarried, Carries
  <2>2. CASE \E y \in shares : y.id = i /\ Carries(y)
    <3>1. PICK y \in shares : y.id = i /\ Carries(y)
      BY <2>2
    <3>2. y # x
      BY <1>2, <2>1, <3>1
    <3>3. y \in shares' /\ y.sess \in Session
      BY <3>2, ShareFields
    <3> QED
      BY <3>1, <3>3 DEF CountedOrCarried, Carries
  <2> QED
    BY <2>1, <2>2 DEF CountedOrCarried
<1> QED
  BY <1>1, <1>2

\* The steps that need nothing of the row.
LEMMA CountedAfterAwait ==
    ASSUME TypeOK, AcceptedIsCounted, NEW x \in shares, NEW st \in Stage, Await(x, st),
           replied' \subseteq replied \cup {x.id}, UNCHANGED <<entity, counted, missed>>,
           \/ st \notin {"reply", "row", "rowDone", "address", "entity"}
           \/ ~Carries(x) /\ UNCHANGED replied
    PROVE  AcceptedIsCounted'
<1>1. PICK z \in Share :
          /\ z.id = x.id /\ z.sess = x.sess /\ z.diff = x.diff /\ z.stage = st
          /\ shares' = (shares \ {x}) \cup {z}
  BY AwaitEffect
<1>2. st \notin {"reply", "row", "rowDone", "address", "entity"} => CountedOrCarried(x.id)'
  BY <1>1 DEF CountedOrCarried, Carries
<1> QED
  BY <1>1, <1>2, CountedAfterMove

\* ensureClientEntity forgets no share: it waits for the row, is counted next, or has
\* been missed.
LEMMA CountedAfterEnsure ==
    ASSUME TypeOK, AcceptedIsCounted, NEW x \in shares, EnsureEntity(x),
           replied' \subseteq replied \cup {x.id}, UNCHANGED counted
    PROVE  AcceptedIsCounted'
<1>1. CountedOrCarried(x.id)'
  BY EnsureEntityEffect DEF CountedOrCarried, Carries
<1> QED
  BY <1>1, EnsureEntityEffect, CountedAfterMove

\* No step forgets a share.
LEMMA CountedStep == TypeOK /\ AcceptedIsCounted /\ [Next]_vars => AcceptedIsCounted'
<1> SUFFICES ASSUME TypeOK, AcceptedIsCounted, [Next]_vars PROVE AcceptedIsCounted'
  OBVIOUS
<1> USE DEF blocks, records
<1>1. ASSUME NEW x \in shares, Proceed(x) PROVE AcceptedIsCounted'
  <2>1. CASE Replied(x)
    <3>1. CASE Await(x, "submit") /\ UNCHANGED <<entity, missed, connected>>
      BY <2>1, <3>1, CountedAfterAwait DEF Replied, Stage
    <3>2. CASE EnsureEntity(x)
      BY <2>1, <3>2, CountedAfterEnsure DEF Replied
    <3> QED
      BY <2>1, <3>1, <3>2 DEF Replied
  <2>2. CASE NotReplied(x) \/ AddressUpdated(x)
    <3>1. ~Carries(x)
      BY <2>2 DEF NotReplied, AddressUpdated, Carries
    <3>2. shares' = shares \ {x} /\ UNCHANGED <<replied, entity, counted, missed>>
      BY <2>2 DEF NotReplied, AddressUpdated, Finish
    <3> QED
      BY <3>1, <3>2, CountedAfterMove
  <2>3. CASE NodeRejects(x) \/ Reported(x)
    BY <2>3, CountedAfterEnsure DEF NodeRejects, Reported
  <2>4. CASE NodeTakes(x) \/ VerdictArrives(x) \/ BlockSaved(x) \/ Notified(x)
             \/ BestsReset(x)
    <3>1. \E st \in {"verdict", "save", "notify", "reset", "report"} : Await(x, st)
      BY <2>4 DEF NodeTakes, VerdictArrives, AfterVerdict, BlockSaved, Notified, BestsReset
    <3>2. UNCHANGED <<replied, entity, counted, missed>>
      BY <2>4 DEF NodeTakes, VerdictArrives, BlockSaved, Notified, BestsReset
    <3> QED
      BY <3>1, <3>2, CountedAfterAwait DEF Stage
  <2>5. CASE Counted(x)
    <3> DEFINE c == [id |-> x.id, sess |-> x.sess, diff |-> x.diff]
    <3>0. c \in counted' /\ c.id = x.id
      BY <2>5 DEF Counted
    <3>1. CountedOrCarried(x.id)'
      BY <3>0 DEF CountedOrCarried
    <3>2. shares \ {x} \subseteq shares'
      BY <2>5, AwaitEffect DEF Counted, CompareWithBest, Finish, Stage
    <3> QED
      BY <2>5, <3>1, <3>2, CountedAfterMove DEF Counted
  <2>6. CASE RowUpdated(x) \/ RowDone(x)
    <3>1. ~Carries(x)
      BY <2>6 DEF RowUpdated, RowDone, Carries
    <3>2. \E st \in Stage : Await(x, st)
      BY <2>6 DEF RowUpdated, RowDone, Stage
    <3> QED
      BY <2>6, <3>1, <3>2, CountedAfterAwait DEF RowUpdated, RowDone
  <2> QED
    BY <1>1, <2>1, <2>2, <2>3, <2>4, <2>5, <2>6 DEF Proceed
<1>2. ASSUME NEW x \in shares, GoWrong(x) PROVE AcceptedIsCounted'
  <2>1. CASE VerdictLost(x)
    BY <2>1, CountedAfterEnsure DEF VerdictLost
  <2>2. CASE BlockStepFails(x) \/ CountFails(x)
    <3>1. CountedOrCarried(x.id)'
      BY <2>2 DEF BlockStepFails, Throw, CountFails, CountedOrCarried
    <3>2. shares \ {x} \subseteq shares'
      BY <2>2, AwaitEffect
         DEF BlockStepFails, Throw, CountFails, CompareWithBest, Finish, Stage
    <3> QED
      BY <2>2, <3>1, <3>2, CountedAfterMove DEF BlockStepFails, Throw, CountFails
  <2>3. CASE BestUpdateFails(x)
    <3>1. ~Carries(x)
      BY <2>3 DEF BestUpdateFails, Carries
    <3> QED
      BY <2>3, <3>1, CountedAfterMove DEF BestUpdateFails, Finish
  <2> QED
    BY <1>2, <2>1, <2>2, <2>3 DEF GoWrong
<1>3. ASSUME NEW s \in Session, EntityCreated(s) PROVE AcceptedIsCounted'
  <2> SUFFICES ASSUME NEW i \in replied, i \notin missed,
                      ~ \E c \in counted : c.id = i
               PROVE  \E x \in shares' : x.id = i /\ Carries(x)'
    BY <1>3 DEF EntityCreated, AcceptedIsCounted, Carries
  <2>1. PICK x \in shares : x.id = i /\ Carries(x)
    BY DEF AcceptedIsCounted, Carries
  <2>2. CASE x \in Waiting(s)
    <3> DEFINE z == [x EXCEPT !.stage = "count"]
    <3>1. z \in shares'
      BY <1>3, <2>2 DEF EntityCreated, Woken
    <3>2. z.id = i /\ z.stage = "count"
      BY <2>1 DEF TypeOK, Share
    <3> QED
      BY <3>1, <3>2 DEF Carries
  <2>3. CASE x \notin Waiting(s)
    <3>1. x \in shares' /\ x.sess \in Session
      BY <1>3, <2>3, ShareFields DEF EntityCreated, Woken
    <3>2. x.stage = "entity" => x.sess # s
      BY <2>3 DEF Waiting
    <3> QED
      BY <1>3, <2>1, <3>1, <3>2 DEF EntityCreated, Carries, TypeOK
  <2> QED
    BY <2>2, <2>3
<1>4. ASSUME NEW s \in Session, EntityFails(s) PROVE AcceptedIsCounted'
  <2> SUFFICES ASSUME NEW i \in replied, i \notin missed',
                      ~ \E c \in counted : c.id = i
               PROVE  \E x \in shares' : x.id = i /\ Carries(x)'
    BY <1>4 DEF EntityFails, AcceptedIsCounted, Carries
  <2>1. PICK x \in shares : x.id = i /\ Carries(x)
    BY <1>4 DEF EntityFails, AcceptedIsCounted, Carries
  <2>2. x \notin Waiting(s)
    BY <1>4, <2>1 DEF EntityFails
  <2>3. x \in shares' /\ x.sess \in Session /\ (x.stage = "entity" => x.sess # s)
    BY <1>4, <2>2, ShareFields DEF EntityFails, Waiting
  <2> QED
    BY <1>4, <2>1, <2>3 DEF EntityFails, Carries, TypeOK
<1>5. ASSUME NEW s \in Session, NEW d \in Difficulty, Accept(s, d) PROVE AcceptedIsCounted'
  BY <1>5 DEF Accept, AcceptedIsCounted
<1>6. ASSUME NEW s \in Session, Disconnect(s) PROVE AcceptedIsCounted'
  BY <1>6 DEF Disconnect, AcceptedIsCounted
<1>7. CASE UNCHANGED vars
  BY <1>7 DEF vars, AcceptedIsCounted
<1>8. ASSUME NEW i \in reports, ReportArrives(i) PROVE AcceptedIsCounted'
  BY <1>8 DEF ReportArrives, AcceptedIsCounted
<1> QED
  BY <1>1, <1>2, <1>3, <1>4, <1>5, <1>6, <1>7, <1>8 DEF Next

\* No share whose accepting reply was written is forgotten: it is counted, or a
\* failure kept it from that, or there is a call or an insert that will carry it on.
THEOREM NoneForgotten == Spec => []AcceptedIsCounted
<1>1. Init => AcceptedIsCounted
  BY DEF Init, AcceptedIsCounted
<1> QED
  BY <1>1, CountedStep, TypeCorrect, PTL DEF Spec

-----------------------------------------------------------------------------
(* A block that was won. *)

\* The stages between the node's acceptance and the row in the table.
OnTheWay(x) == x.stage \in {"verdict", "save"}

\* A step keeps the property if no block is won by it and no share leaves the way.
LEMMA WinsAfterMove ==
    ASSUME WinsAreFound, chain' \subseteq chain, found \subseteq found', lost \subseteq lost',
           \A y \in shares : OnTheWay(y) => y \in shares'
    PROVE  WinsAreFound'
BY DEF WinsAreFound, OnTheWay

\* Nor does a share break it that leaves the way because its block is found or lost.
LEMMA WinsAfterEnd ==
    ASSUME WinsAreFound, NEW x \in shares, shares \ {x} \subseteq shares',
           chain' \subseteq chain, found \subseteq found', lost \subseteq lost',
           x.id \in found' \cup lost'
    PROVE  WinsAreFound'
BY DEF WinsAreFound

\* Every step keeps the property.
LEMMA WinsStep == TypeOK /\ WinsAreFound /\ [Next]_vars => WinsAreFound'
<1> SUFFICES ASSUME TypeOK, WinsAreFound, [Next]_vars PROVE WinsAreFound'
  OBVIOUS
<1> USE DEF blocks, records
<1>1. ASSUME NEW x \in shares, Proceed(x) PROVE WinsAreFound'
  <2>1. CASE NodeTakes(x) \/ VerdictArrives(x)
    <3>1. \E st \in {"verdict", "save"} : Await(x, st)
      BY <2>1 DEF NodeTakes, VerdictArrives, AfterVerdict
    <3>2. PICK z \in Share : /\ z.id = x.id /\ z.stage \in {"verdict", "save"}
                             /\ shares' = (shares \ {x}) \cup {z}
      BY <3>1, AwaitEffect DEF Stage
    <3>3. \A y \in shares : OnTheWay(y) => y \in shares' \/ y.id = z.id
      BY <3>2
    <3>4. /\ z \in shares' /\ chain' \subseteq chain \cup {z.id}
          /\ UNCHANGED <<found, lost>>
      BY <2>1, <3>2 DEF NodeTakes, VerdictArrives
    <3> QED
      BY <3>2, <3>3, <3>4 DEF WinsAreFound, OnTheWay
  <2>2. CASE BlockSaved(x)
    <3>1. shares \ {x} \subseteq shares'
      BY <2>2 DEF BlockSaved, Await
    <3> QED
      BY <2>2, <3>1, WinsAfterEnd DEF BlockSaved
  <2>3. CASE ~(NodeTakes(x) \/ VerdictArrives(x) \/ BlockSaved(x))
    <3>1. ~OnTheWay(x) /\ UNCHANGED <<chain, found, lost>>
      BY <1>1, <2>3 DEF OnTheWay, Proceed, Replied, NotReplied, NodeRejects, Notified,
            BestsReset, Reported, Counted, RowUpdated, RowDone, AddressUpdated
    <3>2. \/ EnsureEntity(x) \/ Finish(x)
          \/ \E st \in Stage : Await(x, st)
      BY <1>1, <2>3 DEF Proceed, Replied, NotReplied, NodeRejects, Notified, BestsReset,
            Reported, Counted, CompareWithBest, RowUpdated, RowDone, AddressUpdated, Stage
    <3>3. shares \ {x} \subseteq shares'
      BY <3>2, EnsureEntityEffect DEF Finish, Await
    <3> QED
      BY <3>1, <3>3, WinsAfterMove
  <2> QED
    BY <2>1, <2>2, <2>3
<1>2. ASSUME NEW x \in shares, GoWrong(x) PROVE WinsAreFound'
  <2>1. shares \ {x} \subseteq shares' /\ UNCHANGED <<chain, found>> /\ lost \subseteq lost'
    BY <1>2, EnsureEntityEffect
       DEF GoWrong, VerdictLost, BlockStepFails, Throw, CountFails, CompareWithBest,
           BestUpdateFails, Finish, Await
  <2>2. CASE x.stage \in {"verdict", "save"}
    <3>1. x.id \in lost'
      BY <1>2, <2>2 DEF GoWrong, VerdictLost, BlockStepFails, CountFails, BestUpdateFails
    <3> QED
      BY <2>1, <3>1, WinsAfterEnd
  <2>3. CASE x.stage \notin {"verdict", "save"}
    BY <2>1, <2>3, WinsAfterMove DEF OnTheWay
  <2> QED
    BY <2>2, <2>3
<1>3. ASSUME NEW s \in Session, EntityCreated(s) \/ EntityFails(s) PROVE WinsAreFound'
  <2>1. \A y \in shares : OnTheWay(y) => y \in shares'
    BY <1>3 DEF EntityCreated, EntityFails, Woken, Waiting, OnTheWay
  <2> QED
    BY <1>3, <2>1, WinsAfterMove DEF EntityCreated, EntityFails
<1>4. ASSUME NEW s \in Session, NEW d \in Difficulty, Accept(s, d) PROVE WinsAreFound'
  BY <1>4, WinsAfterMove DEF Accept
<1>5. ASSUME NEW s \in Session, Disconnect(s) PROVE WinsAreFound'
  BY <1>5, WinsAfterMove DEF Disconnect
<1>6. ASSUME NEW i \in reports, ReportArrives(i) PROVE WinsAreFound'
  BY <1>6, WinsAfterMove DEF ReportArrives
<1>7. CASE UNCHANGED vars
  BY <1>7, WinsAfterMove DEF vars
<1> QED
  BY <1>1, <1>2, <1>3, <1>4, <1>5, <1>6, <1>7 DEF Next

\* No block that the node has accepted is left out of the table of found blocks but by
\* the failure of its own submission or saving: the share that won it is on its way
\* there, whoever else comes, goes or fails.
THEOREM WinsKept == Spec => []WinsAreFound
<1>1. Init => WinsAreFound
  BY DEF Init, WinsAreFound
<1> QED
  BY <1>1, WinsStep, TypeCorrect, PTL DEF Spec

-----------------------------------------------------------------------------
(* The best difficulties, as long as no step fails. *)

\* A share that is better than what memory had and has not reached its address's row.
Storing(x) == x.stage \in {"row", "rowDone", "address"}

\* Difficulty d of session s is in the row of the session, or on its way there.
InRow(s, d) ==
    \/ d <= rowBest[s]
    \/ \E x \in shares : x.sess = s /\ x.stage = "row" /\ d <= x.diff

\* Difficulty d of session s is in the row of its address, or on its way there.
InAddress(s, d) ==
    \/ d <= addressBest[Payout[s]]
    \/ \E x \in shares : x.sess = s /\ Storing(x) /\ d <= x.diff

\* What rows hold are difficulties of counted shares, and every counted share, and
\* every best in memory, is no better than its rows or than a share on its way there.
BestsInv ==
    /\ \A s \in Session :
          rowBest[s] = 0 \/ \E c \in counted : c.sess = s /\ c.diff = rowBest[s]
    /\ \A a \in Range(Payout) :
          addressBest[a] = 0
          \/ \E c \in counted : Payout[c.sess] = a /\ c.diff = addressBest[a]
    /\ \A x \in shares :
          Storing(x) => \E c \in counted : c.sess = x.sess /\ c.diff = x.diff
    /\ \A c \in counted : InRow(c.sess, c.diff)
    /\ wasReset \/ \A c \in counted : InAddress(c.sess, c.diff)
    /\ wasReset \/ \A s \in Session : InAddress(s, best[s])

\* Difficulties are numbers, and a session has an address.
LEMMA Numbers ==
    ASSUME TypeOK
    PROVE  /\ \A s \in Session : /\ best[s] \in Int /\ rowBest[s] \in Int
                                 /\ Payout[s] \in Range(Payout)
           /\ \A a \in Range(Payout) : addressBest[a] \in Int
           /\ \A x \in shares : x.diff \in Int /\ x.sess \in Session
           /\ \A c \in counted : c.diff \in Int /\ c.sess \in Session
<1>1. Difficulty \subseteq Int /\ Difficulty \cup {0} \subseteq Int
  BY DEF Difficulty
<1>2. \A s \in Session : Payout[s] \in Range(Payout)
  BY SharesAssumption DEF Range
<1>3. \A x \in shares : x.diff \in Int /\ x.sess \in Session
  BY <1>1, ShareFields
<1>4. \A c \in counted : c.diff \in Int /\ c.sess \in Session
  BY <1>1 DEF TypeOK
<1>5. \A s \in Session : best[s] \in Int /\ rowBest[s] \in Int
  <2>1. best \in [Session -> Difficulty \cup {0}] /\ rowBest \in [Session -> Difficulty \cup {0}]
    BY DEF TypeOK
  <2> QED
    BY <1>1, <2>1
<1>6. \A a \in Range(Payout) : addressBest[a] \in Int
  <2>1. addressBest \in [Range(Payout) -> Difficulty \cup {0}]
    BY DEF TypeOK
  <2> QED
    BY <1>1, <2>1
<1> QED
  BY <1>2, <1>3, <1>4, <1>5, <1>6

\* What is in a row, or on its way there, stays so if rows do not fall and shares do not
\* leave the way before their difficulty is in the row.
LEMMA InRowStays ==
    ASSUME TypeOK, TypeOK', NEW s \in Session, NEW d \in Int, InRow(s, d),
           rowBest[s] <= rowBest'[s],
           \A x \in shares : x.stage = "row" /\ x.sess = s
              => \/ x.diff <= rowBest'[s]
                 \/ \E z \in shares' : z.sess = s /\ z.diff = x.diff /\ z.stage = "row"
    PROVE  InRow(s, d)'
<1>1. rowBest[s] \in Int /\ rowBest'[s] \in Int /\ \A x \in shares : x.diff \in Int
  BY Numbers, ShareFields DEF TypeOK, Difficulty
<1> QED
  BY <1>1 DEF InRow

\* The same for the row of an address.
LEMMA InAddressStays ==
    ASSUME TypeOK, TypeOK', NEW s \in Session, NEW d \in Int, InAddress(s, d),
           addressBest[Payout[s]] <= addressBest'[Payout[s]],
           \A x \in shares : Storing(x) /\ x.sess = s
              => \/ x.diff <= addressBest'[Payout[s]]
                 \/ \E z \in shares' : z.sess = s /\ z.diff = x.diff /\ Storing(z)
    PROVE  InAddress(s, d)'
<1>1. Payout[s] \in Range(Payout) /\ \A x \in shares : x.diff \in Int
  BY Numbers
<1>2. addressBest[Payout[s]] \in Int /\ addressBest'[Payout[s]] \in Int
  BY <1>1 DEF TypeOK, Difficulty
<1>3. CASE d <= addressBest[Payout[s]]
  BY <1>2, <1>3 DEF InAddress
<1>4. CASE \E x \in shares : x.sess = s /\ Storing(x) /\ d <= x.diff
  <2>1. PICK x \in shares : x.sess = s /\ Storing(x) /\ d <= x.diff
    BY <1>4
  <2>2. CASE x.diff <= addressBest'[Payout[s]]
    BY <1>1, <1>2, <2>1, <2>2 DEF InAddress
  <2>3. CASE \E z \in shares' : z.sess = s /\ z.diff = x.diff /\ Storing(z)
    BY <2>1, <2>3 DEF InAddress, Storing
  <2> QED
    BY <2>1, <2>2, <2>3
<1> QED
  BY <1>3, <1>4 DEF InAddress

\* A step that touches neither rows nor counters nor the shares on their way to a row.
LEMMA BestsFrame ==
    ASSUME TypeOK, TypeOK', BestsInv,
           UNCHANGED <<best, rowBest, addressBest, counted, wasReset>>,
           \A y \in shares' : Storing(y) => y \in shares,
           \A y \in shares : Storing(y) => y \in shares'
    PROVE  BestsInv'
<1>1. \A s \in Session, d \in Int : InRow(s, d) => InRow(s, d)'
  BY DEF InRow, Storing
<1>2. \A s \in Session, d \in Int : InAddress(s, d) => InAddress(s, d)'
  BY DEF InAddress, Storing
<1>3. \A c \in counted' : InRow(c.sess, c.diff)'
  BY <1>1, Numbers DEF BestsInv
<1>4. wasReset' \/ \A c \in counted' : InAddress(c.sess, c.diff)'
  BY <1>2, Numbers DEF BestsInv
<1>5. wasReset' \/ \A s \in Session : InAddress(s, best[s])'
  <2>1. \A s \in Session : InAddress(s, best[s]) => InAddress(s, best[s])'
    BY DEF InAddress, Storing
  <2> QED
    BY <2>1 DEF BestsInv
<1>6. \A x \in shares' :
         Storing(x)' => \E c \in counted' : c.sess = x.sess /\ c.diff = x.diff
  BY DEF BestsInv, Storing
<1>7. /\ \A s \in Session :
            rowBest'[s] = 0 \/ \E c \in counted' : c.sess = s /\ c.diff = rowBest'[s]
      /\ \A a \in Range(Payout) :
            addressBest'[a] = 0
            \/ \E c \in counted' : Payout[c.sess] = a /\ c.diff = addressBest'[a]
  BY DEF BestsInv
<1> QED
  BY <1>3, <1>4, <1>5, <1>6, <1>7 DEF BestsInv

\* A share that is counted is on its way to the rows if it is better than memory; if it
\* is not, the rows have what memory has.
LEMMA BestsCounted ==
    ASSUME TypeOK, TypeOK', MemoryInv, BestsInv, NEW x \in shares, Counted(x)
    PROVE  BestsInv'
<1> DEFINE e == [id |-> x.id, sess |-> x.sess, diff |-> x.diff]
<1>0. /\ counted' = counted \cup {e} /\ e.sess = x.sess /\ e.diff = x.diff
      /\ UNCHANGED <<best, rowBest, addressBest, wasReset>>
      /\ x.sess \in Session /\ x.diff \in Int /\ ~Storing(x)
      /\ best[x.sess] \in Int /\ rowBest[x.sess] \in Int
      /\ best[x.sess] <= rowBest[x.sess]
  BY Numbers DEF Counted, records, blocks, Storing, MemoryInv, MemoryIsStored
<1>1. \/ /\ x.diff > best[x.sess]
         /\ \E z \in Share : /\ z.sess = x.sess /\ z.diff = x.diff /\ z.stage = "row"
                             /\ shares' = (shares \ {x}) \cup {z}
      \/ x.diff <= best[x.sess] /\ shares' = shares \ {x}
  <2>1. CASE x.diff > best[x.sess]
    <3>1. Await(x, "row")
      BY <2>1 DEF Counted, CompareWithBest
    <3> QED
      BY <2>1, <3>1, AwaitEffect DEF Stage
  <2>2. CASE ~(x.diff > best[x.sess])
    BY <1>0, <2>2 DEF Counted, CompareWithBest, Finish
  <2> QED
    BY <2>1, <2>2
<1>2. /\ \A y \in shares' : Storing(y)' => y \in shares \/ (y.sess = x.sess /\ y.diff = x.diff)
      /\ \A y \in shares : Storing(y) => y \in shares'
  BY <1>0, <1>1 DEF Storing
<1>3. \A s \in Session, d \in Int : InRow(s, d) => InRow(s, d)'
  BY <1>0, <1>2 DEF InRow, Storing
<1>4. \A s \in Session, d \in Int : InAddress(s, d) => InAddress(s, d)'
  BY <1>0, <1>2 DEF InAddress, Storing
<1>5. InRow(x.sess, x.diff)'
  BY <1>0, <1>1 DEF InRow
<1>6. wasReset \/ InAddress(x.sess, x.diff)'
  <2>1. CASE x.diff > best[x.sess]
    BY <1>0, <1>1, <2>1 DEF InAddress, Storing
  <2>2. CASE x.diff <= best[x.sess]
    <3>1. wasReset \/ InAddress(x.sess, best[x.sess])
      BY <1>0 DEF BestsInv
    <3>2. \A y \in shares : y.diff \in Int
      BY Numbers
    <3>3. Payout[x.sess] \in Range(Payout) /\ addressBest[Payout[x.sess]] \in Int
      BY <1>0, Numbers
    <3>4. InAddress(x.sess, best[x.sess]) => InAddress(x.sess, x.diff)
      BY <1>0, <2>2, <3>2, <3>3 DEF InAddress
    <3> QED
      BY <1>0, <1>4, <3>1, <3>4
  <2> QED
    BY <1>0, <2>1, <2>2
<1>7. \A c \in counted' : InRow(c.sess, c.diff)'
  <2>1. \A c \in counted : InRow(c.sess, c.diff)'
    BY <1>3, Numbers DEF BestsInv
  <2> QED
    BY <1>0, <1>5, <2>1
<1>8. wasReset' \/ \A c \in counted' : InAddress(c.sess, c.diff)'
  <2>1. wasReset \/ \A c \in counted : InAddress(c.sess, c.diff)'
    BY <1>4, Numbers DEF BestsInv
  <2> QED
    BY <1>0, <1>6, <2>1
<1>9. wasReset' \/ \A s \in Session : InAddress(s, best[s])'
  <2>1. \A s \in Session : InAddress(s, best[s]) => InAddress(s, best[s])'
    BY <1>0, <1>2 DEF InAddress, Storing
  <2> QED
    BY <1>0, <2>1 DEF BestsInv
<1>10. \A y \in shares' :
          Storing(y)' => \E c \in counted' : c.sess = y.sess /\ c.diff = y.diff
  <2>1. \A y \in shares : Storing(y) => \E c \in counted' : c.sess = y.sess /\ c.diff = y.diff
    BY <1>0 DEF BestsInv
  <2> QED
    BY <1>0, <1>2, <2>1 DEF Storing
<1>11. /\ \A s \in Session :
             rowBest'[s] = 0 \/ \E c \in counted' : c.sess = s /\ c.diff = rowBest'[s]
       /\ \A a \in Range(Payout) :
             addressBest'[a] = 0
             \/ \E c \in counted' : Payout[c.sess] = a /\ c.diff = addressBest'[a]
  BY <1>0 DEF BestsInv
<1> QED
  BY <1>7, <1>8, <1>9, <1>10, <1>11 DEF BestsInv

\* The steps on the way to a row keep a share storing, with its session and difficulty,
\* until the row of the address has been updated.
LEMMA BestsWay ==
    ASSUME TypeOK, TypeOK', MemoryInv, BestsInv, NEW x \in shares,
           RowUpdated(x) \/ RowDone(x) \/ AddressUpdated(x)
    PROVE  BestsInv'
<1> DEFINE p == Payout[x.sess]
<1>0. /\ x.sess \in Session /\ x.diff \in Int /\ Storing(x)
      /\ p \in Range(Payout)
      /\ UNCHANGED <<counted, wasReset>>
  BY Numbers DEF RowUpdated, RowDone, AddressUpdated, blocks, Storing
<1>1. /\ x.stage = "row" => x.diff <= rowBest'[x.sess]
      /\ \A s \in Session : rowBest[s] <= rowBest'[s]
      /\ \A s \in Session : rowBest'[s] = rowBest[s] \/ (s = x.sess /\ rowBest'[s] = x.diff)
  <2>1. CASE RowUpdated(x)
    <3>1. rowBest \in [Session -> Int]
      BY Numbers DEF TypeOK
    <3> QED
      BY <1>0, <2>1, <3>1 DEF RowUpdated, IfHigher
  <2>2. CASE RowDone(x) \/ AddressUpdated(x)
    BY <2>2, Numbers DEF RowDone, AddressUpdated
  <2> QED
    BY <2>1, <2>2
<1>2. /\ AddressUpdated(x) => x.diff <= addressBest'[p]
      /\ \A a \in Range(Payout) : addressBest[a] <= addressBest'[a]
      /\ \A a \in Range(Payout) :
            addressBest'[a] = addressBest[a] \/ (a = p /\ addressBest'[a] = x.diff)
  <2>1. CASE AddressUpdated(x)
    <3>1. addressBest \in [Range(Payout) -> Int]
      BY Numbers DEF TypeOK
    <3> QED
      BY <1>0, <2>1, <3>1 DEF AddressUpdated, IfHigher
  <2>2. CASE ~AddressUpdated(x)
    BY <2>2, Numbers DEF RowUpdated, RowDone
  <2> QED
    BY <2>1, <2>2
<1>3. \/ \E z \in Share : /\ z.sess = x.sess /\ z.diff = x.diff
                          /\ z.stage \in {"rowDone", "address"}
                          /\ shares' = (shares \ {x}) \cup {z}
      \/ AddressUpdated(x) /\ shares' = shares \ {x}
  <2>1. CASE RowUpdated(x)
    BY <2>1, AwaitEffect DEF RowUpdated, Stage
  <2>2. CASE RowDone(x)
    BY <2>2, AwaitEffect DEF RowDone, Stage
  <2>3. CASE AddressUpdated(x)
    BY <2>3 DEF AddressUpdated, Finish
  <2> QED
    BY <2>1, <2>2, <2>3
<1>4. \A s \in Session, d \in Int : InRow(s, d) => InRow(s, d)'
  <2> SUFFICES ASSUME NEW s \in Session, NEW d \in Int, InRow(s, d) PROVE InRow(s, d)'
    OBVIOUS
  <2>1. \A y \in shares : y.stage = "row" /\ y.sess = s
           => \/ y.diff <= rowBest'[s]
              \/ \E z \in shares' : z.sess = s /\ z.diff = y.diff /\ z.stage = "row"
    BY <1>1, <1>3
  <2> QED
    BY <1>1, <2>1, InRowStays
<1>5. \A s \in Session, d \in Int : InAddress(s, d) => InAddress(s, d)'
  <2> SUFFICES ASSUME NEW s \in Session, NEW d \in Int, InAddress(s, d)
               PROVE  InAddress(s, d)'
    OBVIOUS
  <2>1. \A y \in shares : Storing(y) /\ y.sess = s
           => \/ y.diff <= addressBest'[Payout[s]]
              \/ \E z \in shares' : z.sess = s /\ z.diff = y.diff /\ Storing(z)
    <3>1. \A y \in shares : Storing(y) /\ y # x => y \in shares' /\ Storing(y)
      BY <1>3
    <3>2. x.diff <= addressBest'[p] \/ \E z \in shares' : z.sess = x.sess /\ z.diff = x.diff
                                                          /\ Storing(z)
      BY <1>2, <1>3 DEF Storing
    <3> QED
      BY <3>1, <3>2
  <2>2. addressBest[Payout[s]] <= addressBest'[Payout[s]]
    BY <1>2, Numbers
  <2> QED
    BY <2>1, <2>2, InAddressStays
<1>6. \A c \in counted' : InRow(c.sess, c.diff)'
  BY <1>0, <1>4, Numbers DEF BestsInv
<1>7. wasReset' \/ \A c \in counted' : InAddress(c.sess, c.diff)'
  BY <1>0, <1>5, Numbers DEF BestsInv
<1>8. wasReset' \/ \A s \in Session : InAddress(s, best[s])'
  <2> SUFFICES ASSUME ~wasReset, NEW s \in Session PROVE InAddress(s, best[s])'
    BY <1>0
  <2>1. InAddress(s, best[s]) /\ best[s] \in Int
    BY Numbers DEF BestsInv
  <2>2. CASE best'[s] = best[s]
    <3>1. PICK d \in Int : d = best[s]
      BY <2>1
    <3>2. InAddress(s, d)'
      BY <1>5, <2>1, <3>1
    <3> QED
      BY <2>2, <3>1, <3>2 DEF InAddress
  <2>3. CASE best'[s] # best[s]
    <3>1. RowDone(x) /\ s = x.sess /\ best'[s] = x.diff
      BY <1>0, <2>3 DEF RowUpdated, RowDone, AddressUpdated, TypeOK
    <3>2. ~AddressUpdated(x)
      BY <3>1 DEF RowDone, AddressUpdated
    <3> QED
      BY <1>0, <1>3, <3>1, <3>2 DEF InAddress, Storing
  <2> QED
    BY <2>2, <2>3
<1>9. \E c \in counted : c.sess = x.sess /\ c.diff = x.diff
  BY <1>0 DEF BestsInv
<1>10. \A y \in shares' :
          Storing(y)' => \E c \in counted' : c.sess = y.sess /\ c.diff = y.diff
  BY <1>0, <1>3, <1>9 DEF Storing, BestsInv
<1>11. \A s \in Session :
          rowBest'[s] = 0 \/ \E c \in counted' : c.sess = s /\ c.diff = rowBest'[s]
  BY <1>0, <1>1, <1>9 DEF BestsInv
<1>12. \A a \in Range(Payout) :
          addressBest'[a] = 0
          \/ \E c \in counted' : Payout[c.sess] = a /\ c.diff = addressBest'[a]
  BY <1>0, <1>2, <1>9 DEF BestsInv
<1> QED
  BY <1>6, <1>7, <1>8, <1>10, <1>11, <1>12 DEF BestsInv

\* The reset concerns the rows of addresses, which are not compared from then on.
LEMMA BestsAfterReset ==
    ASSUME TypeOK, TypeOK', BestsInv, NEW x \in shares, BestsReset(x)
    PROVE  BestsInv'
<1>1. UNCHANGED <<best, rowBest, counted>> /\ wasReset'
      /\ \A a \in Range(Payout) : addressBest'[a] = 0
  BY DEF BestsReset, TypeOK
<1>2. PICK z \in Share : z.stage = "report" /\ shares' = (shares \ {x}) \cup {z}
  BY AwaitEffect DEF BestsReset, Stage
<1>3. x.stage = "reset"
  BY DEF BestsReset
<1>4. \A s \in Session, d \in Int : InRow(s, d) => InRow(s, d)'
  BY <1>1, <1>2, <1>3 DEF InRow
<1>5. \A c \in counted' : InRow(c.sess, c.diff)'
  BY <1>1, <1>4, Numbers DEF BestsInv
<1>6. \A y \in shares' :
         Storing(y)' => \E c \in counted' : c.sess = y.sess /\ c.diff = y.diff
  BY <1>1, <1>2 DEF BestsInv, Storing
<1> QED
  BY <1>1, <1>5, <1>6 DEF BestsInv

\* As long as no step fails, each keeps what is known of the bests.
LEMMA BestsStep ==
    ASSUME TypeOK, TypeOK', MemoryInv, failures = 0 => BestsInv, [Next]_vars
    PROVE  failures' = 0 => BestsInv'
<1> SUFFICES ASSUME failures' = 0 PROVE BestsInv'
  OBVIOUS
<1> USE DEF blocks, records
<1>1. failures \in Nat /\ ~Fail
  BY SharesAssumption DEF TypeOK, Fail
<1>2. ASSUME NEW x \in shares, Proceed(x) PROVE BestsInv'
  <2>0. BestsInv
    BY <1>2 DEF Proceed, Replied, NotReplied, NodeTakes, NodeRejects, VerdictArrives,
                BlockSaved, Notified, BestsReset, Reported, Counted, RowUpdated, RowDone,
                AddressUpdated
  <2>1. CASE Counted(x)
    BY <2>0, <2>1, BestsCounted
  <2>2. CASE RowUpdated(x) \/ RowDone(x) \/ AddressUpdated(x)
    BY <2>0, <2>2, BestsWay
  <2>3. CASE BestsReset(x)
    BY <2>0, <2>3, BestsAfterReset
  <2>4. CASE Replied(x) \/ NotReplied(x) \/ NodeTakes(x) \/ NodeRejects(x)
             \/ VerdictArrives(x) \/ BlockSaved(x) \/ Notified(x) \/ Reported(x)
    <3>1. ~Storing(x) /\ UNCHANGED <<best, rowBest, addressBest, counted, wasReset>>
      BY <2>4 DEF Replied, NotReplied, NodeTakes, NodeRejects, VerdictArrives, BlockSaved,
                  SaveStages, Notified, Reported, Storing
    <3>2. \/ EnsureEntity(x) \/ Finish(x)
          \/ \E st \in {"submit", "verdict", "save", "notify", "reset"} : Await(x, st)
      BY <2>4 DEF Replied, NotReplied, NodeTakes, NodeRejects, VerdictArrives, AfterVerdict,
                  BlockSaved, Notified, Reported
    <3>3. shares \ {x} \subseteq shares' /\ \A y \in shares' : Storing(y) => y \in shares
      <4>1. CASE EnsureEntity(x)
        BY <4>1, EnsureEntityEffect DEF Storing
      <4>2. CASE Finish(x)
        BY <4>2 DEF Finish
      <4>3. CASE \E st \in {"submit", "verdict", "save", "notify", "reset"} : Await(x, st)
        BY <4>3, AwaitEffect DEF Storing, Stage
      <4> QED
        BY <3>2, <4>1, <4>2, <4>3
    <3> QED
      BY <2>0, <3>1, <3>3, BestsFrame
  <2> QED
    BY <1>2, <2>1, <2>2, <2>3, <2>4 DEF Proceed
<1>3. ASSUME NEW s \in Session, EntityCreated(s) PROVE BestsInv'
  <2>1. \A y \in shares : Storing(y) => y \in shares'
    BY <1>3 DEF EntityCreated, Woken, Waiting, Storing
  <2>2. \A y \in shares : [y EXCEPT !.stage = "count"].stage = "count"
    BY DEF TypeOK, Share
  <2>3. \A y \in shares' : Storing(y) => y \in shares
    BY <1>3, <2>2 DEF EntityCreated, Woken, Waiting, Storing
  <2> QED
    BY <1>3, <2>1, <2>3, BestsFrame DEF EntityCreated
<1>4. ASSUME NEW s \in Session, NEW d \in Difficulty, Accept(s, d) PROVE BestsInv'
  BY <1>4, BestsFrame DEF Accept, Storing
<1>5. ASSUME NEW s \in Session, Disconnect(s) PROVE BestsInv'
  BY <1>5, BestsFrame DEF Disconnect
<1>6. CASE UNCHANGED vars
  BY <1>6, BestsFrame DEF vars
<1>7. ASSUME NEW i \in reports, ReportArrives(i) PROVE BestsInv'
  BY <1>7, BestsFrame DEF ReportArrives
<1>8. \A x \in shares : ~GoWrong(x)
  BY <1>1 DEF GoWrong, VerdictLost, BlockStepFails, CountFails, BestUpdateFails
<1>9. \A s \in Session : ~EntityFails(s)
  BY <1>1 DEF EntityFails
<1> QED
  BY <1>2, <1>3, <1>4, <1>5, <1>6, <1>7, <1>8, <1>9 DEF Next

\* A number of a set that none exceeds is its maximum.
LEMMA MaxIs ==
    ASSUME NEW S \in SUBSET Int, NEW m \in S, \A y \in S : y <= m
    PROVE  Max(S) = m
<1>1. m \in S /\ \A y \in S : m >= y
  OBVIOUS
<1>2. Max(S) \in S /\ \A y \in S : Max(S) >= y
  BY <1>1 DEF Max
<1>3. m \in Int /\ Max(S) \in Int /\ m >= Max(S) /\ Max(S) >= m
  BY <1>1, <1>2
<1> QED
  BY <1>3

\* A value that is 0 or a difficulty counted, and no less than any, is the best counted.
LEMMA BestIs ==
    ASSUME TypeOK, NEW S \in SUBSET Session, NEW m \in Nat,
           m = 0 \/ \E c \in counted : c.sess \in S /\ c.diff = m,
           \A c \in counted : c.sess \in S => c.diff <= m
    PROVE  BestCounted(S) = m
<1> DEFINE D == {0} \cup {c.diff : c \in {e \in counted : e.sess \in S}}
<1>1. D \in SUBSET Int
  BY Numbers
<1>2. m \in D /\ \A y \in D : y <= m
  OBVIOUS
<1>3. Max(D) = m
  BY <1>1, <1>2, MaxIs
<1> QED
  BY <1>3 DEF BestCounted

\* When nothing is under way, what is on its way to the rows is in them.
LEMMA BestsSettle == TypeOK /\ (failures = 0 => BestsInv) => BestsAreBest
<1> SUFFICES ASSUME TypeOK, BestsInv, shares = {}
             PROVE  /\ \A s \in Session : rowBest[s] = BestCounted({s})
                    /\ wasReset \/ \A a \in DOMAIN addressBest :
                          addressBest[a] = BestCounted({s \in Session : Payout[s] = a})
  BY DEF BestsAreBest
<1>1. ASSUME NEW s \in Session PROVE rowBest[s] = BestCounted({s})
  <2>1. rowBest[s] \in Nat
    BY DEF TypeOK, Difficulty
  <2>2. \A c \in counted : c.sess \in {s} => c.diff <= rowBest[s]
    BY DEF BestsInv, InRow
  <2>3. rowBest[s] = 0 \/ \E c \in counted : c.sess \in {s} /\ c.diff = rowBest[s]
    BY DEF BestsInv
  <2> QED
    BY <2>1, <2>2, <2>3, BestIs
<1>2. ASSUME ~wasReset, NEW a \in DOMAIN addressBest
      PROVE  addressBest[a] = BestCounted({s \in Session : Payout[s] = a})
  <2> DEFINE S == {s \in Session : Payout[s] = a}
  <2>1. a \in Range(Payout) /\ addressBest[a] \in Nat
    BY DEF TypeOK, Difficulty
  <2>2. \A c \in counted : c.sess \in S => c.diff <= addressBest[a]
    BY <1>2 DEF BestsInv, InAddress
  <2>3. addressBest[a] = 0 \/ \E c \in counted : c.sess \in S /\ c.diff = addressBest[a]
    BY <2>1, Numbers DEF BestsInv
  <2> QED
    BY <2>1, <2>2, <2>3, BestIs
<1> QED
  BY <1>1, <1>2

\* When nothing is under way and nothing has failed, the rows of sessions and, until a
\* block resets them, of addresses hold the best of the shares counted for them, in
\* whatever order the shares' updates and resumptions came.
THEOREM BestsHold == Spec => []BestsAreBest
<1> DEFINE IInv == failures = 0 => BestsInv
<1>1. Init => IInv
  <2> SUFFICES ASSUME Init PROVE BestsInv
    OBVIOUS
  <2>1. \A s \in Session : Payout[s] \in Range(Payout)
    BY SharesAssumption DEF Range
  <2>2. \A s \in Session : InAddress(s, best[s])
    BY <2>1 DEF Init, InAddress
  <2> QED
    BY <2>2 DEF Init, BestsInv
<1>2. TypeOK /\ TypeOK' /\ MemoryInv /\ IInv /\ [Next]_vars => IInv'
  BY BestsStep
<1>3. Spec => []MemoryInv
  <2>1. Init => MemoryInv
    BY DEF Init, MemoryInv, MemoryIsStored
  <2> QED
    BY <2>1, MemoryStep, TypeCorrect, PTL DEF Spec
<1>4. TypeOK /\ IInv => BestsAreBest
  BY BestsSettle
<1> QED
  BY <1>1, <1>2, <1>3, <1>4, TypeCorrect, PTL DEF Spec
=============================================================================
