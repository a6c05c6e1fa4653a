------------------------------ MODULE JobLedger ------------------------------
(* What a registry of jobs promises to those who name a job by its id: the  *)
(* miner that submits a share for it, and the duplicate check that keys the *)
(* shares it has seen by job id. An id is issued once, the job it names     *)
(* never changes, and a job that has been revoked does not come back.       *)
EXTENDS Naturals

VARIABLES
    issued,     \* the ids handed out
    live        \* the jobs that can be looked up, records with an id

ledgerVars == <<issued, live>>

LedgerInit == issued = {} /\ live = {}

\* Jobs are withdrawn.
Revoke ==
    /\ live' \subseteq live
    /\ UNCHANGED issued

\* A job with an id never used before becomes live; others may be withdrawn
\* with it.
Issue(j) ==
    /\ j.id \notin issued
    /\ issued' = issued \cup {j.id}
    /\ live' \subseteq live \cup {j}

LedgerNext == Revoke \/ \E j \in live' : Issue(j)

Spec == LedgerInit /\ [][LedgerNext]_ledgerVars
=============================================================================
