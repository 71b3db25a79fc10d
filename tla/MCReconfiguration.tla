------------------------- MODULE MCReconfiguration -------------------------
(***************************************************************************)
(* Instances of Reconfiguration for TLC.                                   *)
(***************************************************************************)
EXTENDS Reconfiguration

CONSTANT MaxId   \* bound on executor ids, and so on the reconfigurations

MCExecutors == 0 .. MaxId

OneNode == <<0 .. 3>>
TwoNodes == <<0 .. 1, 2 .. 3>>

TwoPairs == <<2, 2>>
TwoSingles == <<1, 1>>

=============================================================================
