-------------------------- MODULE MCAcceptedShares --------------------------
(* AcceptedShares on small instances.                                       *)
EXTENDS AcceptedShares

\* Every session mines for the same address.
OneAddress == [s \in Session |-> "a1"]
=============================================================================
