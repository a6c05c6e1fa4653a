------------------------- MODULE StratumJobsProofs -------------------------
(* Theorems about StratumJobs, for any number of sessions, addresses, tips  *)
(* and jobs.                                                                *)
EXTENDS StratumJobs, FiniteSetTheorems, TLAPS

\* The template a call resumes with is well formed.
LEMMA NewTemplateType ==
    ASSUME TypeOK, NEW c \in calls, c.answer # NoTip
    PROVE  NewTemplate(c) \in Template
BY ConstantsAssumption DEF TypeOK, NewTemplate, Template, Call

\* Storing a template keeps the registry well formed.
LEMMA StoreTemplateType ==
    ASSUME TypeOK, NEW t \in Template, StoreTemplate(t)
    PROVE  /\ latestJobTemplateId' \in Nat
           /\ lastTemplateHeight' \in [Address -> Nat]
           /\ blocks' \subseteq Template
           /\ Kept(t, jobs) \subseteq Job
BY ConstantsAssumption DEF TypeOK, StoreTemplate, Kept, Template

\* Sending a job keeps the jobs and the notifications well formed.
LEMMA SendJobType ==
    ASSUME TypeOK, NEW s \in Session, NEW t \in Template, NEW clean \in BOOLEAN,
           NEW kept \in SUBSET Job, SendJob(s, t, clean, kept),
           authorized[s] # NoAddress
    PROVE  /\ latestJobId' \in Nat
           /\ jobs' \subseteq Job
           /\ notified' \in [Session -> Notify]
<1>1. /\ Height[t.tip] \in Nat
      /\ t.id \in Nat
      /\ t.addr \in Address
  BY ConstantsAssumption DEF Template
<1>2. CASE s \in connected
  <2>1. [id |-> latestJobId, tmpl |-> t.id, payout |-> authorized[s],
         attested |-> t.addr, height |-> Height[t.tip], creation |-> clock] \in Job
    BY <1>1 DEF TypeOK, Job
  <2>2. [job |-> latestJobId, height |-> Height[t.tip], clean |-> clean] \in Notify
    BY <1>1 DEF TypeOK, Notify
  <2>3. jobs' \subseteq Job
    BY <1>2, <2>1 DEF SendJob
  <2>4. notified' \in [Session -> Notify]
    BY <1>2, <2>2 DEF SendJob, TypeOK
  <2>5. latestJobId' \in Nat
    BY <1>2 DEF SendJob, ConsumeJobId, TypeOK
  <2> QED
    BY <2>3, <2>4, <2>5
<1>3. CASE s \notin connected
  BY <1>3 DEF TypeOK, SendJob
<1> QED
  BY <1>2, <1>3

-----------------------------------------------------------------------------
(* Type correctness. *)

\* An open session has authorized: the payout read when a job is built is an
\* address.
ConnectedAuthorized == \A s \in connected : authorized[s] # NoAddress

TypeInv == TypeOK /\ ConnectedAuthorized

\* Every variable has its type at the start, when no session is open.
LEMMA TypeInvInit == Init => TypeInv
BY ConstantsAssumption
   DEF Init, TypeInv, TypeOK, ConnectedAuthorized, Tip, Notify, NoNotify

\* Every step keeps the types and the address of open sessions.
LEMMA TypeInvStep == TypeInv /\ [Next]_vars => TypeInv'
<1> SUFFICES ASSUME TypeInv, [Next]_vars PROVE TypeInv'
  OBVIOUS
<1> USE DEF TypeInv, node, session, registry, shares
<1>1. CASE NodeAdvances
  BY <1>1, ConstantsAssumption DEF NodeAdvances, TypeOK, ConnectedAuthorized, Tip
<1>2. CASE Tick
  BY <1>2 DEF Tick, TypeOK, ConnectedAuthorized
<1>3. CASE PollNewBlock
  <2>1. Height[tip] \in Nat
    BY ConstantsAssumption DEF TypeOK
  <2>2. {Request(s, authorized[s], "block") : s \in connected} \subseteq Call
    BY DEF TypeOK, ConnectedAuthorized, Request, Call, Caller
  <2> QED
    BY <1>3, <2>1, <2>2 DEF PollNewBlock, Send, TypeOK, ConnectedAuthorized
<1>4. ASSUME NEW s \in Session, SessionStep(s) PROVE TypeInv'
  <2>1. CASE \E a \in Address : Open(s, a)
    <3> PICK a \in Address : Open(s, a)
      BY <2>1
    <3>1. Request(s, a, "block") \in Call
      BY DEF Request, Call, Caller
    <3>2. calls' \subseteq Call
      BY <3>1 DEF Open, Send, TypeOK
    <3> QED
      BY <3>2, ConstantsAssumption DEF Open, TypeOK, ConnectedAuthorized
  <2>2. CASE \E a \in Address : AuthorizeAgain(s, a)
    BY <2>2, ConstantsAssumption DEF AuthorizeAgain, TypeOK, ConnectedAuthorized
  <2>3. CASE Disconnect(s)
    BY <2>3 DEF Disconnect, Hangup, TypeOK, ConnectedAuthorized
  <2>4. CASE TimerRefresh(s)
    <3>1. Request(s, authorized[s], "timer") \in Call
      BY <2>4 DEF TimerRefresh, TypeOK, ConnectedAuthorized, Request, Call, Caller
    <3> QED
      BY <2>4, <3>1 DEF TimerRefresh, Send, TypeOK, ConnectedAuthorized
  <2>5. CASE LocalRefresh(s) \/ RetargetFromCache(s)
    <3>1. PICK t \in currentJobTemplate[s], clean \in BOOLEAN :
             SendJob(s, t, clean, jobs)
      BY <2>5 DEF LocalRefresh, RetargetFromCache
    <3>2. t \in Template /\ authorized[s] # NoAddress
      BY <2>5 DEF LocalRefresh, RetargetFromCache, TypeOK, ConnectedAuthorized
    <3>3. /\ latestJobId' \in Nat
          /\ jobs' \subseteq Job
          /\ notified' \in [Session -> Notify]
      BY <3>1, <3>2, SendJobType DEF TypeOK
    <3> QED
      BY <2>5, <3>3 DEF LocalRefresh, RetargetFromCache, TypeOK, ConnectedAuthorized
  <2>6. CASE RetargetByCall(s)
    <3>1. Request(s, authorized[s], "vardiff") \in Call
      BY <2>6 DEF RetargetByCall, TypeOK, ConnectedAuthorized, Request, Call, Caller
    <3> QED
      BY <2>6, <3>1 DEF RetargetByCall, Send, TypeOK, ConnectedAuthorized
  <2>7. CASE \E id \in 1 .. latestJobId - 1, n \in Nonce, p \in Spelling, good \in BOOLEAN :
                Submit(s, <<id, n, p>>, good)
    <3> PICK id \in 1 .. latestJobId - 1, n \in Nonce, p \in Spelling, good \in BOOLEAN :
                Submit(s, <<id, n, p>>, good)
      BY <2>7
    <3>1. <<id, n, p>> \in Share
      BY DEF TypeOK, Share
    <3> QED
      BY <3>1 DEF Submit, Accepted, TypeOK, ConnectedAuthorized
  <2> QED
    BY <1>4, <2>1, <2>2, <2>3, <2>4, <2>5, <2>6, <2>7 DEF SessionStep
<1>5. ASSUME NEW c \in calls, CallStep(c) PROVE TypeInv'
  <2>1. CASE NodeAnswers(c)
    <3>1. [c EXCEPT !.answer = tip] \in Call
      BY DEF TypeOK, Call
    <3> QED
      BY <2>1, <3>1 DEF NodeAnswers, TypeOK, ConnectedAuthorized
  <2>2. CASE BlockCallFails(c) \/ TimerCallFails(c) \/ VardiffCallFails(c)
    <3>1. CASE BlockCallFails(c)
      BY <3>1 DEF BlockCallFails, Hangup, TypeOK, ConnectedAuthorized, Call
    <3>2. CASE TimerCallFails(c)
      BY <3>2 DEF TimerCallFails, TypeOK, ConnectedAuthorized
    <3>3. CASE VardiffCallFails(c)
      BY <3>3 DEF VardiffCallFails, TypeOK, ConnectedAuthorized
    <3> QED
      BY <2>2, <3>1, <3>2, <3>3
  <2>3. CASE ResumeRefresh(c) \/ ResumeVardiff(c)
    <3>1. PICK t \in {NewTemplate(c)} :
             /\ StoreTemplate(t)
             /\ CacheTemplate(c.sess, t)
             /\ \/ SendJob(c.sess, t, t.clear, Kept(t, jobs))
                \/ SendJob(c.sess, t, TRUE, Kept(t, jobs))
      BY <2>3 DEF ResumeRefresh, ResumeVardiff
    <3>2. t \in Template /\ t.clear \in BOOLEAN /\ c.sess \in Session
      BY <2>3, NewTemplateType DEF ResumeRefresh, ResumeVardiff, TypeOK, Call, Template
    <3>3. /\ latestJobTemplateId' \in Nat
          /\ lastTemplateHeight' \in [Address -> Nat]
          /\ blocks' \subseteq Template
          /\ Kept(t, jobs) \subseteq Job
      BY <3>1, <3>2, StoreTemplateType
    <3>4. /\ latestJobId' \in Nat
          /\ jobs' \subseteq Job
          /\ notified' \in [Session -> Notify]
      <4>1. CASE c.sess \in connected
        BY <3>1, <3>2, <3>3, <4>1, SendJobType DEF ConnectedAuthorized
      <4>2. CASE c.sess \notin connected
        BY <3>1, <3>3, <4>2 DEF SendJob, TypeOK
      <4> QED
        BY <4>1, <4>2
    <3>5. currentJobTemplate' \in [Session -> SUBSET Template]
      BY <3>1, <3>2 DEF CacheTemplate, TypeOK
    <3>6. submissionHashes' \in [Session -> SUBSET Share]
      BY <2>3, <3>2 DEF ResumeRefresh, ResumeVardiff, ForgetShares, TypeOK
    <3> QED
      BY <2>3, <3>3, <3>4, <3>5, <3>6
      DEF ResumeRefresh, ResumeVardiff, TypeOK, ConnectedAuthorized
  <2> QED
    BY <1>5, <2>1, <2>2, <2>3 DEF CallStep
<1>6. CASE UNCHANGED vars
  BY <1>6 DEF vars, TypeOK, ConnectedAuthorized
<1> QED
  BY <1>1, <1>2, <1>3, <1>4, <1>5, <1>6 DEF Next

\* Every variable keeps its type: in particular, no job is ever built for a
\* session that has no payout address.
THEOREM TypeCorrect == Spec => []TypeOK
<1>1. TypeInv => TypeOK
  BY DEF TypeInv
<1> QED
  BY TypeInvInit, TypeInvStep, <1>1, PTL DEF Spec

-----------------------------------------------------------------------------
(* The templates of one address are of one height. *)

\* Storing a template either drops all others or is of the height the others
\* of its address have.
LEMMA StoreKeepsOneHeight ==
    ASSUME TypeOK, LiveTemplatesOneHeight, NEW c \in calls, c.answer # NoTip,
           NEW t \in {NewTemplate(c)}, StoreTemplate(t)
    PROVE  LiveTemplatesOneHeight'
<1>1. t \in Template /\ t.addr \in Address
  BY NewTemplateType DEF Template
<1>2. lastTemplateHeight'[t.addr] = Height[t.tip]
  BY <1>1 DEF StoreTemplate, TypeOK
<1>3. CASE t.clear
  BY <1>2, <1>3 DEF StoreTemplate, Kept, LiveTemplatesOneHeight
<1>4. CASE ~t.clear
  <2>1. lastTemplateHeight[t.addr] = Height[t.tip]
    <3>1. /\ t.addr = c.addr /\ t.tip = c.answer
          /\ t.clear = (lastTemplateHeight[c.addr] # Height[c.answer])
      BY DEF NewTemplate
    <3> QED
      BY <1>4, <3>1
  <2>2. lastTemplateHeight' = lastTemplateHeight
    BY <1>1, <2>1 DEF StoreTemplate, TypeOK
  <2>3. blocks' \subseteq blocks \cup {t}
    BY DEF StoreTemplate, Kept
  <2> QED
    BY <2>1, <2>2, <2>3 DEF LiveTemplatesOneHeight
<1> QED
  BY <1>3, <1>4

\* No answer, however late, leaves templates of two heights for an address.
LEMMA OneHeightStep ==
    TypeInv /\ LiveTemplatesOneHeight /\ [Next]_vars => LiveTemplatesOneHeight'
<1> SUFFICES ASSUME TypeInv, LiveTemplatesOneHeight, [Next]_vars
             PROVE  LiveTemplatesOneHeight'
  OBVIOUS
<1>1. CASE \E c \in calls : ResumeRefresh(c) \/ ResumeVardiff(c)
  <2> PICK c \in calls : ResumeRefresh(c) \/ ResumeVardiff(c)
    BY <1>1
  <2>1. c.answer # NoTip /\ \E t \in {NewTemplate(c)} : StoreTemplate(t)
    BY DEF ResumeRefresh, ResumeVardiff
  <2> QED
    BY <2>1, StoreKeepsOneHeight DEF TypeInv
<1>2. CASE ~ \E c \in calls : ResumeRefresh(c) \/ ResumeVardiff(c)
  <2>1. UNCHANGED <<blocks, lastTemplateHeight>>
    BY <1>2
    DEF Next, SessionStep, CallStep, NodeAdvances, Tick, PollNewBlock, Open,
        AuthorizeAgain, Disconnect, TimerRefresh, LocalRefresh, RetargetFromCache,
        RetargetByCall, Submit, NodeAnswers, BlockCallFails, TimerCallFails,
        VardiffCallFails, registry, vars
  <2> QED
    BY <2>1 DEF LiveTemplatesOneHeight
<1> QED
  BY <1>1, <1>2

\* Whatever order template answers arrive in, the templates a share can be
\* checked against are all of the height last fetched for their address.
THEOREM OneHeight == Spec => []LiveTemplatesOneHeight
<1>1. Init => LiveTemplatesOneHeight
  BY DEF Init, LiveTemplatesOneHeight
<1> QED
  BY TypeInvInit, TypeInvStep, OneHeightStep, <1>1, PTL DEF Spec

-----------------------------------------------------------------------------
(* The registry implements JobLedger. *)

\* The ids of live jobs have been issued.
IdsIssued == latestJobId >= 1 /\ \A j \in jobs : j.id \in 1 .. latestJobId - 1

\* A step issues the next id to one job, or no id at all.
LEMMA JobsGrow ==
    ASSUME TypeInv, [Next]_vars
    PROVE  \/ jobs' \subseteq jobs /\ latestJobId' = latestJobId
           \/ \E j \in jobs' : /\ j.id = latestJobId
                              /\ jobs' \subseteq jobs \cup {j}
                              /\ latestJobId' = latestJobId + 1
<1> DEFINE Goal == \/ jobs' \subseteq jobs /\ latestJobId' = latestJobId
                   \/ \E j \in jobs' : /\ j.id = latestJobId
                                      /\ jobs' \subseteq jobs \cup {j}
                                      /\ latestJobId' = latestJobId + 1
<1>1. ASSUME NEW s, NEW t, NEW clean, NEW kept \in SUBSET jobs,
             SendJob(s, t, clean, kept)
      PROVE  Goal
  <2>1. CASE s \in connected
    <3> DEFINE j == [id |-> latestJobId, tmpl |-> t.id, payout |-> authorized[s],
                     attested |-> t.addr, height |-> Height[t.tip], creation |-> clock]
    <3>1. jobs' = kept \cup {j} /\ latestJobId' = latestJobId + 1
      BY <1>1, <2>1 DEF SendJob, ConsumeJobId
    <3>2. j.id = latestJobId
      OBVIOUS
    <3> QED
      BY <3>1, <3>2
  <2>2. CASE s \notin connected
    BY <1>1, <2>2 DEF SendJob
  <2> QED
    BY <2>1, <2>2
<1>2. CASE \E c \in calls : ResumeRefresh(c) \/ ResumeVardiff(c)
  <2> PICK c \in calls : ResumeRefresh(c) \/ ResumeVardiff(c)
    BY <1>2
  <2>1. PICK t \in {NewTemplate(c)} :
           \/ SendJob(c.sess, t, t.clear, Kept(t, jobs))
           \/ SendJob(c.sess, t, TRUE, Kept(t, jobs))
    BY DEF ResumeRefresh, ResumeVardiff
  <2>2. Kept(t, jobs) \subseteq jobs
    BY DEF Kept
  <2> QED
    BY <1>1, <2>1, <2>2
<1>3. CASE \E s \in Session : LocalRefresh(s) \/ RetargetFromCache(s)
  BY <1>1, <1>3 DEF LocalRefresh, RetargetFromCache
<1>4. CASE /\ ~ \E c \in calls : ResumeRefresh(c) \/ ResumeVardiff(c)
           /\ ~ \E s \in Session : LocalRefresh(s) \/ RetargetFromCache(s)
  <2>1. UNCHANGED <<jobs, latestJobId>>
    BY <1>4
    DEF Next, SessionStep, CallStep, NodeAdvances, Tick, PollNewBlock, Open,
        AuthorizeAgain, Disconnect, TimerRefresh, RetargetByCall, Submit,
        NodeAnswers, BlockCallFails, TimerCallFails, VardiffCallFails, registry, vars
  <2> QED
    BY <2>1
<1> QED
  BY <1>2, <1>3, <1>4

\* Every step leaves live only jobs with issued ids.
LEMMA IdsIssuedStep == TypeInv /\ IdsIssued /\ [Next]_vars => IdsIssued'
BY JobsGrow DEF IdsIssued, TypeInv, TypeOK

\* Every step of the registry is a step of the ledger, or none.
LEMMA LedgerStep ==
    TypeInv /\ IdsIssued /\ [Next]_vars => [Ledger!LedgerNext]_(Ledger!ledgerVars)
<1> SUFFICES ASSUME TypeInv, IdsIssued, [Next]_vars
             PROVE  Ledger!LedgerNext
  OBVIOUS
<1>1. CASE jobs' \subseteq jobs /\ latestJobId' = latestJobId
  BY <1>1 DEF Ledger!LedgerNext, Ledger!Revoke
<1>2. ASSUME NEW j \in jobs', j.id = latestJobId, jobs' \subseteq jobs \cup {j},
             latestJobId' = latestJobId + 1
      PROVE  Ledger!LedgerNext
  <2>1. j.id \notin 1 .. latestJobId - 1
    BY <1>2 DEF TypeInv, TypeOK
  <2>2. (1 .. latestJobId - 1)' = (1 .. latestJobId - 1) \cup {j.id}
    BY <1>2 DEF TypeInv, TypeOK, IdsIssued
  <2>3. Ledger!Issue(j)
    BY <1>2, <2>1, <2>2 DEF Ledger!Issue
  <2> QED
    BY <1>2, <2>3 DEF Ledger!LedgerNext
<1> QED
  BY <1>1, <1>2, JobsGrow

\* The registry implements JobLedger: an id names one job for ever and a removed
\* job does not come back, however template answers and refreshes interleave.
THEOREM LedgerImplemented == Spec => ImplementsLedger
<1>1. Init => IdsIssued /\ Ledger!LedgerInit
  BY DEF Init, IdsIssued, Ledger!LedgerInit
<1> QED
  BY TypeInvInit, TypeInvStep, IdsIssuedStep, LedgerStep, <1>1, PTL
  DEF Spec, ImplementsLedger, Ledger!Spec

-----------------------------------------------------------------------------
(* Jobs pay the address they were attested for. *)

\* With one authorization per session the address read for a template call is
\* still the session's when the call resumes and when a cached template is used.
AttestationInv ==
    /\ \A c \in calls : c.sess \in connected \cup closed /\ c.addr = authorized[c.sess]
    /\ \A s \in Session : \A t \in currentJobTemplate[s] :
          s \in connected \cup closed /\ t.addr = authorized[s]
    /\ AttestationBound

\* A job of a template of the session's address pays that address.
LEMMA SendJobAttested ==
    ASSUME AttestationBound, NEW s, NEW t, t.addr = authorized[s], NEW clean,
           NEW kept \in SUBSET jobs, SendJob(s, t, clean, kept)
    PROVE  AttestationBound'
<1>1. CASE s \in connected
  <2> DEFINE j == [id |-> latestJobId, tmpl |-> t.id, payout |-> authorized[s],
                   attested |-> t.addr, height |-> Height[t.tip], creation |-> clock]
  <2>1. jobs' = kept \cup {j}
    BY <1>1 DEF SendJob
  <2>2. j.payout = j.attested
    OBVIOUS
  <2> QED
    BY <2>1, <2>2 DEF AttestationBound
<1>2. CASE s \notin connected
  BY <1>2 DEF SendJob, AttestationBound
<1> QED
  BY <1>1, <1>2

\* Without a second authorization every step keeps the address that templates wait with.
LEMMA AttestationStep ==
    ASSUME ~Reauthorize
    PROVE  TypeInv /\ AttestationInv /\ [Next]_vars => AttestationInv'
<1> SUFFICES ASSUME TypeInv, AttestationInv, [Next]_vars PROVE AttestationInv'
  OBVIOUS
<1> USE DEF node, session, registry, shares, TypeInv
<1>1. CASE NodeAdvances \/ Tick \/ UNCHANGED vars
  BY <1>1 DEF NodeAdvances, Tick, vars, AttestationInv, AttestationBound
<1>2. CASE PollNewBlock
  BY <1>2 DEF PollNewBlock, Send, Request, AttestationInv, AttestationBound
<1>3. ASSUME NEW s \in Session, SessionStep(s) PROVE AttestationInv'
  <2>1. CASE \E a \in Address : Open(s, a)
    <3> PICK a \in Address : Open(s, a)
      BY <2>1
    <3>1. authorized' = [authorized EXCEPT ![s] = a] /\ authorized'[s] = a
      BY DEF Open, TypeOK
    <3>2. \A c \in calls' : c \in calls \/ (c.sess = s /\ c.addr = a)
      BY DEF Open, Send, Request
    <3>3. \A c \in calls : c.sess \in Session /\ c.sess # s
      BY DEF Open, AttestationInv, TypeOK, Call
    <3> QED
      BY <3>1, <3>2, <3>3 DEF Open, AttestationInv, AttestationBound, TypeOK
  <2>2. CASE \E a \in Address : AuthorizeAgain(s, a)
    BY <2>2 DEF AuthorizeAgain
  <2>3. CASE Disconnect(s)
    BY <2>3 DEF Disconnect, Hangup, AttestationInv, AttestationBound, TypeOK
  <2>4. CASE TimerRefresh(s) \/ RetargetByCall(s)
    BY <2>4 DEF TimerRefresh, RetargetByCall, Send, Request, AttestationInv,
                AttestationBound
  <2>5. CASE LocalRefresh(s) \/ RetargetFromCache(s)
    <3>1. PICK t \in currentJobTemplate[s], clean \in BOOLEAN :
             SendJob(s, t, clean, jobs)
      BY <2>5 DEF LocalRefresh, RetargetFromCache
    <3>2. AttestationBound'
      BY <3>1, SendJobAttested DEF AttestationInv
    <3> QED
      BY <2>5, <3>2 DEF LocalRefresh, RetargetFromCache, AttestationInv
  <2>6. CASE \E id \in 1 .. latestJobId - 1, n \in Nonce, p \in Spelling, good \in BOOLEAN :
                Submit(s, <<id, n, p>>, good)
    BY <2>6 DEF Submit, AttestationInv, AttestationBound
  <2> QED
    BY <1>3, <2>1, <2>2, <2>3, <2>4, <2>5, <2>6 DEF SessionStep
<1>4. ASSUME NEW c \in calls, CallStep(c) PROVE AttestationInv'
  <2>1. CASE NodeAnswers(c)
    <3>1. /\ [c EXCEPT !.answer = tip].sess = c.sess
          /\ [c EXCEPT !.answer = tip].addr = c.addr
      BY DEF TypeOK, Call
    <3> QED
      BY <2>1, <3>1 DEF NodeAnswers, AttestationInv, AttestationBound
  <2>2. CASE BlockCallFails(c) \/ TimerCallFails(c)
    BY <2>2 DEF BlockCallFails, TimerCallFails, Hangup, AttestationInv,
                AttestationBound, TypeOK
  <2>3. CASE VardiffCallFails(c)
    BY <2>3 DEF VardiffCallFails, AttestationInv, AttestationBound
  <2>4. CASE ResumeRefresh(c) \/ ResumeVardiff(c)
    <3>1. PICK t \in {NewTemplate(c)} :
             /\ CacheTemplate(c.sess, t)
             /\ \/ SendJob(c.sess, t, t.clear, Kept(t, jobs))
                \/ SendJob(c.sess, t, TRUE, Kept(t, jobs))
      BY <2>4 DEF ResumeRefresh, ResumeVardiff
    <3>2. t.addr = authorized[c.sess] /\ c.sess \in connected \cup closed
      <4>1. t.addr = c.addr
        BY DEF NewTemplate
      <4> QED
        BY <4>1 DEF AttestationInv
    <3>3. AttestationBound'
      <4>1. Kept(t, jobs) \in SUBSET jobs
        BY DEF Kept
      <4> QED
        BY <3>1, <3>2, <4>1, SendJobAttested DEF AttestationInv
    <3>4. \A s \in Session : \A u \in currentJobTemplate'[s] :
             u \in currentJobTemplate[s] \/ (s = c.sess /\ u = t)
      BY <3>1 DEF CacheTemplate, TypeOK
    <3> QED
      BY <2>4, <3>2, <3>3, <3>4 DEF ResumeRefresh, ResumeVardiff, AttestationInv
  <2> QED
    BY <1>4, <2>1, <2>2, <2>3, <2>4 DEF CallStep
<1> QED
  BY <1>1, <1>2, <1>3, <1>4 DEF Next

\* When no session authorizes twice, every job pays the address its template
\* was attested for, though the address is read again when the job is built.
THEOREM Attestation ==
    ASSUME ~Reauthorize
    PROVE  Spec => []AttestationBound
<1>1. Init => AttestationInv
  BY DEF Init, AttestationInv, AttestationBound
<1>2. AttestationInv => AttestationBound
  BY DEF AttestationInv
<1>3. TypeInv /\ AttestationInv /\ [Next]_vars => AttestationInv'
  BY AttestationStep
<1> QED
  BY TypeInvInit, TypeInvStep, <1>1, <1>2, <1>3, PTL DEF Spec

-----------------------------------------------------------------------------
(* No submission is accepted twice in a session. *)

\* A share accepted earlier is still in the set of shares seen as long as its
\* job can be looked up, so a second submission of it is refused; and ids yet to
\* be issued occur in no accepted share.
AcceptedInv ==
    /\ \A s \in Session : IsFiniteSet(accepted[s])
    /\ AcceptedOnce
    /\ \A s \in Session : \A x \in accepted[s] : x[1] < latestJobId
    /\ \A s \in Session : \A x \in accepted[s] : \A j \in jobs :
          j.id = x[1] => x \in submissionHashes[s]

\* A step that accepts nothing and forgets no share seen keeps AcceptedInv,
\* since a job it adds has a new id.
LEMMA AcceptedFrame ==
    ASSUME TypeInv, IdsIssued, AcceptedInv, [Next]_vars,
           UNCHANGED <<accepted, acceptedCount>>,
           \A s \in Session : submissionHashes[s] \subseteq submissionHashes'[s]
    PROVE  AcceptedInv'
<1>1. AcceptedOnce'
  BY DEF AcceptedInv, AcceptedOnce
<1>2. CASE jobs' \subseteq jobs /\ latestJobId' = latestJobId
  BY <1>1, <1>2 DEF AcceptedInv
<1>3. ASSUME NEW j \in jobs', j.id = latestJobId, jobs' \subseteq jobs \cup {j},
             latestJobId' = latestJobId + 1
      PROVE  AcceptedInv'
  <2>1. \A s \in Session : \A x \in accepted[s] : x[1] \in Nat
    BY DEF TypeInv, TypeOK, Share
  <2>2. \A s \in Session : \A x \in accepted'[s] : x[1] < latestJobId'
    BY <1>3, <2>1 DEF AcceptedInv, TypeInv, TypeOK
  <2>3. \A s \in Session : \A x \in accepted'[s] : \A i \in jobs' :
           i.id = x[1] => x \in submissionHashes'[s]
    BY <1>3, <2>1 DEF AcceptedInv, TypeInv, TypeOK
  <2> QED
    BY <1>1, <2>2, <2>3 DEF AcceptedInv
<1> QED
  BY <1>2, <1>3, JobsGrow

\* A refresh that forgets the shares seen has just emptied the registry.
LEMMA AcceptedRefresh ==
    ASSUME TypeInv, IdsIssued, AcceptedInv, [Next]_vars,
           NEW c \in calls, ResumeRefresh(c)
    PROVE  AcceptedInv'
<1>1. PICK t \in {NewTemplate(c)} :
         /\ ForgetShares(c.sess, t)
         /\ SendJob(c.sess, t, t.clear, Kept(t, jobs))
  BY DEF ResumeRefresh
<1>2. UNCHANGED <<accepted, acceptedCount>>
  BY DEF ResumeRefresh, shares
<1>3. CASE t.clear
  <2>1. \A j \in jobs' : j.id = latestJobId
    BY <1>1, <1>3 DEF SendJob, Kept
  <2>2. latestJobId' \in Nat /\ latestJobId' >= latestJobId
    BY JobsGrow DEF TypeInv, TypeOK
  <2>3. \A s \in Session : \A x \in accepted[s] : x[1] \in Nat /\ x[1] < latestJobId
    BY DEF AcceptedInv, TypeInv, TypeOK, Share
  <2>4. \A s \in Session : \A x \in accepted'[s] : x[1] < latestJobId'
    BY <1>2, <2>2, <2>3 DEF TypeInv, TypeOK
  <2>5. \A s \in Session : \A x \in accepted'[s] : \A j \in jobs' : j.id # x[1]
    BY <1>2, <2>1, <2>3 DEF TypeInv, TypeOK
  <2> QED
    BY <1>2, <2>4, <2>5 DEF AcceptedInv, AcceptedOnce
<1>4. CASE ~t.clear
  <2>1. submissionHashes' = submissionHashes
    BY <1>1, <1>4 DEF ForgetShares
  <2> QED
    BY <1>2, <2>1, AcceptedFrame
<1> QED
  BY <1>3, <1>4

\* A share that is accepted was not seen before, so it was not accepted before.
LEMMA AcceptedSubmit ==
    ASSUME TypeInv, AcceptedInv, NEW s \in Session, NEW x \in Share,
           NEW good \in BOOLEAN, x[1] < latestJobId, Submit(s, x, good)
    PROVE  AcceptedInv'
<1>1. UNCHANGED <<jobs, latestJobId>>
  BY DEF Submit, registry
<1>2. submissionHashes' = [submissionHashes EXCEPT ![s] = @ \cup {x}]
  BY DEF Submit
<1>3. CASE good
  <2>1. /\ accepted' = [accepted EXCEPT ![s] = @ \cup {x}]
        /\ acceptedCount' = [acceptedCount EXCEPT ![s] = @ + 1]
    BY <1>3 DEF Submit, Accepted
  <2>2. x \notin accepted[s]
    BY DEF Submit, LiveJob, AcceptedInv
  <2>3. /\ IsFiniteSet(accepted[s] \cup {x})
        /\ Cardinality(accepted[s] \cup {x}) = Cardinality(accepted[s]) + 1
    BY <2>2, FS_AddElement DEF AcceptedInv
  <2>4. \A r \in Session : IsFiniteSet(accepted'[r])
    BY <2>1, <2>3 DEF AcceptedInv, TypeInv, TypeOK
  <2>5. AcceptedOnce'
    BY <2>1, <2>3 DEF AcceptedInv, AcceptedOnce, TypeInv, TypeOK
  <2>6. \A r \in Session : \A y \in accepted'[r] :
           y \in accepted[r] \/ (r = s /\ y = x)
    BY <2>1 DEF TypeInv, TypeOK
  <2>7. \A r \in Session : \A y \in accepted'[r] : y[1] < latestJobId'
    BY <1>1, <2>6 DEF AcceptedInv
  <2>8. \A r \in Session : \A y \in accepted'[r] : \A j \in jobs' :
           j.id = y[1] => y \in submissionHashes'[r]
    BY <1>1, <1>2, <2>6 DEF AcceptedInv, TypeInv, TypeOK
  <2> QED
    BY <2>4, <2>5, <2>7, <2>8 DEF AcceptedInv
<1>4. CASE ~good
  <2>1. UNCHANGED <<accepted, acceptedCount>>
    BY <1>4 DEF Submit, shares
  <2> QED
    BY <1>1, <1>2, <2>1 DEF AcceptedInv, AcceptedOnce, TypeInv, TypeOK
<1> QED
  BY <1>3, <1>4

\* Every step keeps what is known of accepted shares.
LEMMA AcceptedStep ==
    TypeInv /\ IdsIssued /\ AcceptedInv /\ [Next]_vars => AcceptedInv'
<1> SUFFICES ASSUME TypeInv, IdsIssued, AcceptedInv, [Next]_vars PROVE AcceptedInv'
  OBVIOUS
<1>1. CASE \E c \in calls : ResumeRefresh(c)
  BY <1>1, AcceptedRefresh
<1>2. CASE \E s \in Session :
              \E id \in 1 .. latestJobId - 1, n \in Nonce, p \in Spelling, good \in BOOLEAN :
                 Submit(s, <<id, n, p>>, good)
  <2> PICK s \in Session, id \in 1 .. latestJobId - 1, n \in Nonce, p \in Spelling,
           good \in BOOLEAN :
              Submit(s, <<id, n, p>>, good)
    BY <1>2
  <2>1. <<id, n, p>> \in Share /\ <<id, n, p>>[1] < latestJobId
    BY DEF Share, TypeInv, TypeOK
  <2> QED
    BY <2>1, AcceptedSubmit
<1>3. CASE /\ ~ \E c \in calls : ResumeRefresh(c)
           /\ ~ \E s \in Session :
                   \E id \in 1 .. latestJobId - 1, n \in Nonce, p \in Spelling, good \in BOOLEAN :
                      Submit(s, <<id, n, p>>, good)
  <2>1. UNCHANGED <<submissionHashes, accepted, acceptedCount>>
    BY <1>3
    DEF Next, SessionStep, CallStep, NodeAdvances, Tick, PollNewBlock, Open,
        AuthorizeAgain, Disconnect, TimerRefresh, LocalRefresh, RetargetFromCache,
        RetargetByCall, NodeAnswers, BlockCallFails, TimerCallFails,
        VardiffCallFails, ResumeVardiff, shares, vars
  <2> QED
    BY <2>1, AcceptedFrame
<1> QED
  BY <1>1, <1>2, <1>3

\* No submission is accepted twice in the spelling it was sent in, although refreshes
\* empty the set of submissions seen: the jobs they were for have left the registry.
\* Another spelling of the same solution is another submission.
THEOREM NoShareTwice == Spec => []AcceptedOnce
<1>1. Init => IdsIssued /\ AcceptedInv
  BY FS_EmptySet DEF Init, IdsIssued, AcceptedInv, AcceptedOnce
<1>2. AcceptedInv => AcceptedOnce
  BY DEF AcceptedInv
<1> QED
  BY TypeInvInit, TypeInvStep, IdsIssuedStep, AcceptedStep, <1>1, <1>2, PTL DEF Spec
-----------------------------------------------------------------------------
(* A miner alone on its address is told to drop its jobs at a new height. *)

\* An address nobody has authorized with has no height. For a session that has its
\* address to itself, the height recorded for the address is the one the session was
\* last given work for, and that of the template it has cached.
HeightInv ==
    /\ \A s \in Session : s \notin connected \cup closed
          => authorized[s] = NoAddress /\ notified[s].height = 0
    /\ \A a \in Address : (\A s \in Session : authorized[s] # a) => lastTemplateHeight[a] = 0
    /\ \A s \in connected : Lone(s) =>
          /\ lastTemplateHeight[authorized[s]] = notified[s].height
          /\ \A t \in currentJobTemplate[s] : Height[t.tip] = notified[s].height

\* The property as a step: whose height changes, is told to drop its jobs.
DropsOld ==
    \A s \in Session :
        (notified'[s].height # notified[s].height /\ Lone(s)') => notified'[s].clean

\* A session that has been alone on its address since its last step was so before.
LEMMA LoneBefore ==
    ASSUME TypeInv, HeightInv, ~Reauthorize, [Next]_vars, NEW s \in connected, Lone(s)'
    PROVE  Lone(s) /\ authorized'[s] = authorized[s]
<1>1. authorized[s] # NoAddress /\ s \in Session
  BY DEF TypeInv, ConnectedAuthorized, TypeOK
<1>2. CASE \E r \in Session, a \in Address : Open(r, a)
  <2> PICK r \in Session, a \in Address : Open(r, a)
    BY <1>2
  <2>1. r # s /\ authorized' = [authorized EXCEPT ![r] = a]
    BY DEF Open
  <2>2. authorized'[s] = authorized[s] /\ \A q \in Session \ {r} : authorized'[q] = authorized[q]
    BY <1>1, <2>1 DEF TypeInv, TypeOK
  <2>3. authorized[r] # authorized[s]
    BY <1>1 DEF Open, HeightInv
  <2> QED
    BY <1>1, <2>1, <2>2, <2>3 DEF Lone
<1>3. CASE ~ \E r \in Session, a \in Address : Open(r, a)
  <2>1. authorized' = authorized
    BY <1>3
    DEF Next, SessionStep, CallStep, NodeAdvances, Tick, PollNewBlock, AuthorizeAgain,
        Disconnect, TimerRefresh, LocalRefresh, RetargetFromCache, RetargetByCall, Submit,
        NodeAnswers, BlockCallFails, TimerCallFails, VardiffCallFails, ResumeRefresh,
        ResumeVardiff, Hangup, session, vars
  <2> QED
    BY <2>1 DEF Lone
<1> QED
  BY <1>2, <1>3

\* A step that gives nobody work and reports no height keeps HeightInv.
LEMMA HeightFrame ==
    ASSUME HeightInv,
           UNCHANGED <<notified, authorized, lastTemplateHeight>>,
           connected' \subseteq connected,
           connected \cup closed \subseteq connected' \cup closed',
           \A s \in connected' : currentJobTemplate'[s] = currentJobTemplate[s]
    PROVE  HeightInv' /\ DropsOld
<1>1. \A s : Lone(s)' = Lone(s)
  BY DEF Lone
<1>2. HeightInv'
  BY <1>1 DEF HeightInv
<1> QED
  BY <1>2 DEF DropsOld

\* A session opens: alone on its address, it is the first with it.
LEMMA HeightOpen ==
    ASSUME TypeInv, AttestationInv, HeightInv, ~Reauthorize, [Next]_vars,
           NEW r \in Session, NEW a \in Address, Open(r, a)
    PROVE  HeightInv' /\ DropsOld
<1>1. /\ r \notin connected \cup closed
      /\ connected' = connected \cup {r}
      /\ authorized' = [authorized EXCEPT ![r] = a]
      /\ UNCHANGED <<closed, lastTemplateHeight, currentJobTemplate, notified>>
  BY DEF Open, registry
<1>2. authorized'[r] = a /\ \A s \in Session \ {r} : authorized'[s] = authorized[s]
  BY <1>1 DEF TypeInv, TypeOK
<1>3. notified[r].height = 0 /\ currentJobTemplate[r] = {} /\ authorized[r] = NoAddress
  BY <1>1 DEF HeightInv, AttestationInv
<1>4. \A b \in Address : (\A s \in Session : authorized'[s] # b) => lastTemplateHeight'[b] = 0
  <2> SUFFICES ASSUME NEW b \in Address, \A s \in Session : authorized'[s] # b
               PROVE  lastTemplateHeight[b] = 0
    BY <1>1
  <2>1. \A s \in Session : authorized[s] # b
    BY <1>2, <1>3, ConstantsAssumption
  <2> QED
    BY <2>1 DEF HeightInv
<1>5. ASSUME NEW s \in connected', Lone(s)'
      PROVE  /\ lastTemplateHeight'[authorized'[s]] = notified'[s].height
             /\ \A t \in currentJobTemplate'[s] : Height[t.tip] = notified'[s].height
  <2>1. CASE s = r
    <3>1. \A q \in Session : authorized[q] # a
      BY <1>2, <1>3, <1>5, <2>1, ConstantsAssumption DEF Lone
    <3>2. lastTemplateHeight[a] = 0
      BY <3>1 DEF HeightInv
    <3> QED
      BY <1>1, <1>2, <1>3, <2>1, <3>2
  <2>2. CASE s # r
    <3>1. s \in connected
      BY <1>1, <1>5, <2>2
    <3>2. Lone(s) /\ authorized'[s] = authorized[s]
      BY <1>5, <3>1, LoneBefore
    <3> QED
      BY <1>1, <3>1, <3>2 DEF HeightInv
  <2> QED
    BY <2>1, <2>2
<1>6. HeightInv'
  BY <1>1, <1>2, <1>4, <1>5 DEF HeightInv
<1> QED
  BY <1>1, <1>6 DEF DropsOld

\* A job of a cached template is of the height the session had work for.
LEMMA HeightLocal ==
    ASSUME TypeInv, HeightInv, NEW r \in Session, LocalRefresh(r) \/ RetargetFromCache(r)
    PROVE  HeightInv' /\ DropsOld
<1>1. PICK t \in currentJobTemplate[r], clean \in BOOLEAN : SendJob(r, t, clean, jobs)
  BY DEF LocalRefresh, RetargetFromCache
<1>2. /\ r \in connected
      /\ UNCHANGED <<connected, closed, authorized, lastTemplateHeight, currentJobTemplate>>
  BY DEF LocalRefresh, RetargetFromCache, session
<1>3. /\ notified'[r].height = Height[t.tip]
      /\ \A s \in Session \ {r} : notified'[s] = notified[s]
  BY <1>1, <1>2 DEF SendJob, TypeInv, TypeOK
<1>4. \A s : Lone(s)' = Lone(s)
  BY <1>2 DEF Lone
<1>5. Lone(r) => notified'[r].height = notified[r].height
  BY <1>2, <1>3 DEF HeightInv
<1>6. connected \subseteq Session
  BY DEF TypeInv, TypeOK
<1>7. HeightInv'
  BY <1>2, <1>3, <1>4, <1>5, <1>6 DEF HeightInv
<1> QED
  BY <1>3, <1>4, <1>5, <1>7 DEF DropsOld

\* A template of another height than the address had clears, and the session is told.
LEMMA HeightResume ==
    ASSUME TypeInv, AttestationInv, HeightInv, NEW c \in calls,
           ResumeRefresh(c) \/ ResumeVardiff(c)
    PROVE  HeightInv' /\ DropsOld
<1> DEFINE r == c.sess
<1> DEFINE t == NewTemplate(c)
<1>1. PICK clean \in BOOLEAN :
         /\ clean \in {t.clear, TRUE}
         /\ StoreTemplate(t)
         /\ CacheTemplate(r, t)
         /\ SendJob(r, t, clean, Kept(t, jobs))
  <2>1. t.clear \in BOOLEAN
    BY DEF NewTemplate
  <2> QED
    BY <2>1 DEF ResumeRefresh, ResumeVardiff
<1>2. /\ r \in Session /\ r \in connected \cup closed
      /\ t.addr = authorized[r] /\ t.addr \in Address
      /\ t.clear = (lastTemplateHeight[t.addr] # Height[t.tip])
  BY DEF NewTemplate, AttestationInv, TypeInv, TypeOK, Call
<1>3. UNCHANGED <<connected, closed, authorized>>
  BY DEF ResumeRefresh, ResumeVardiff, session
<1>4. /\ lastTemplateHeight'[t.addr] = Height[t.tip]
      /\ \A a \in Address \ {t.addr} : lastTemplateHeight'[a] = lastTemplateHeight[a]
  BY <1>1, <1>2 DEF StoreTemplate, TypeInv, TypeOK
<1>5. /\ currentJobTemplate'[r] = {t}
      /\ \A s \in Session \ {r} : currentJobTemplate'[s] = currentJobTemplate[s]
  BY <1>1, <1>2 DEF CacheTemplate, TypeInv, TypeOK
<1>6. /\ r \in connected => /\ notified'[r].height = Height[t.tip]
                           /\ notified'[r].clean = clean
      /\ r \notin connected => notified' = notified
      /\ \A s \in Session \ {r} : notified'[s] = notified[s]
  BY <1>1, <1>2 DEF SendJob, TypeInv, TypeOK
<1>7. \A s : Lone(s)' = Lone(s)
  BY <1>3 DEF Lone
<1>8. connected \subseteq Session
  BY DEF TypeInv, TypeOK
<1>9. ASSUME NEW s \in connected', Lone(s)'
      PROVE  /\ lastTemplateHeight'[authorized'[s]] = notified'[s].height
             /\ \A u \in currentJobTemplate'[s] : Height[u.tip] = notified'[s].height
  <2>1. CASE s = r
    BY <1>2, <1>3, <1>4, <1>5, <1>6, <1>9, <2>1
  <2>2. CASE s # r
    <3>1. s \in connected /\ s \in Session /\ Lone(s)
      BY <1>3, <1>7, <1>8, <1>9
    <3>2. authorized[s] # t.addr /\ authorized[s] \in Address
      BY <1>2, <2>2, <3>1 DEF Lone, TypeInv, TypeOK, ConnectedAuthorized
    <3> QED
      BY <1>3, <1>4, <1>5, <1>6, <2>2, <3>1, <3>2 DEF HeightInv
  <2> QED
    BY <2>1, <2>2
<1>10. HeightInv'
  <2>1. \A s \in Session : s \notin connected' \cup closed'
            => authorized'[s] = NoAddress /\ notified'[s].height = 0
    BY <1>2, <1>3, <1>6 DEF HeightInv
  <2>2. \A a \in Address : (\A s \in Session : authorized'[s] # a) => lastTemplateHeight'[a] = 0
    BY <1>2, <1>3, <1>4 DEF HeightInv
  <2> QED
    BY <1>9, <2>1, <2>2 DEF HeightInv
<1>11. ASSUME NEW s \in Session, notified'[s].height # notified[s].height, Lone(s)'
       PROVE  notified'[s].clean
  <2>1. s = r /\ r \in connected
    BY <1>6, <1>11
  <2>2. lastTemplateHeight[t.addr] = notified[r].height
    BY <1>2, <1>7, <1>11, <2>1 DEF HeightInv
  <2>3. t.clear = TRUE
    BY <1>2, <1>6, <1>11, <2>1, <2>2
  <2> QED
    BY <1>1, <1>6, <2>1, <2>3
<1> QED
  BY <1>10, <1>11 DEF DropsOld

\* Every step keeps HeightInv, and drops old jobs at a new height.
LEMMA HeightStep ==
    ASSUME ~Reauthorize
    PROVE  TypeInv /\ AttestationInv /\ HeightInv /\ [Next]_vars => HeightInv' /\ DropsOld
<1> SUFFICES ASSUME TypeInv, AttestationInv, HeightInv, [Next]_vars
             PROVE  HeightInv' /\ DropsOld
  OBVIOUS
<1>1. CASE \E r \in Session, a \in Address : Open(r, a)
  BY <1>1, HeightOpen
<1>2. CASE \E r \in Session : LocalRefresh(r) \/ RetargetFromCache(r)
  BY <1>2, HeightLocal
<1>3. CASE \E c \in calls : ResumeRefresh(c) \/ ResumeVardiff(c)
  BY <1>3, HeightResume
<1>4. CASE \E r \in Session : Disconnect(r)
  BY <1>4, HeightFrame DEF Disconnect, Hangup, registry, TypeInv, TypeOK
<1>5. CASE \E c \in calls : BlockCallFails(c) \/ VardiffCallFails(c)
  BY <1>5, HeightFrame DEF BlockCallFails, VardiffCallFails, Hangup, registry, TypeInv, TypeOK
<1>6. CASE /\ ~ \E r \in Session, a \in Address : Open(r, a)
           /\ ~ \E r \in Session : LocalRefresh(r) \/ RetargetFromCache(r) \/ Disconnect(r)
           /\ ~ \E c \in calls : \/ ResumeRefresh(c) \/ ResumeVardiff(c)
                                \/ BlockCallFails(c) \/ VardiffCallFails(c)
  <2>1. UNCHANGED <<notified, authorized, lastTemplateHeight, connected, closed,
                    currentJobTemplate>>
    BY <1>6
    DEF Next, SessionStep, CallStep, NodeAdvances, Tick, PollNewBlock, AuthorizeAgain,
        TimerRefresh, RetargetByCall, Submit, NodeAnswers, TimerCallFails, registry, session,
        vars
  <2> QED
    BY <2>1, HeightFrame
<1> QED
  BY <1>1, <1>2, <1>3, <1>4, <1>5, <1>6

\* When no session authorizes twice, a miner alone on its address is told to drop its
\* old jobs whenever the height it is given work for changes, whatever answers come
\* late and whatever other addresses do to the registry.
THEOREM CleanAtNewHeight ==
    ASSUME ~Reauthorize
    PROVE  Spec => CleanOnNewHeight
<1>1. Init => AttestationInv /\ HeightInv
  BY DEF Init, AttestationInv, AttestationBound, HeightInv, NoNotify
<1>2. TypeInv /\ AttestationInv /\ [Next]_vars => AttestationInv'
  BY AttestationStep
<1>3. TypeInv /\ AttestationInv /\ HeightInv /\ [Next]_vars => HeightInv' /\ [DropsOld]_vars
  BY HeightStep
<1> QED
  BY TypeInvInit, TypeInvStep, <1>1, <1>2, <1>3, PTL DEF Spec, CleanOnNewHeight, DropsOld
=============================================================================
