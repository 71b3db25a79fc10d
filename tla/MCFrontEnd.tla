----------------------------- MODULE MCFrontEnd -----------------------------
(***************************************************************************)
(* Instances of FrontEnd for TLC.                                          *)
(***************************************************************************)
EXTENDS FrontEnd

CONSTANT NumRequests

MCRequests == 1 .. NumRequests

\* The first request streams, the others do not; each takes one or two steps.
MCKind == [r \in MCRequests |-> IF r = 1 THEN "DELTA" ELSE "FINAL_ONLY"]
MCLength == [r \in MCRequests |-> 2]

\* The requests are spread over the servers.
MCHome == [r \in MCRequests |-> 1 + ((r - 1) % NumServers)]

=============================================================================
