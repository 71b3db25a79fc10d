--------------------------- MODULE MCLoadControl ---------------------------
(***************************************************************************)
(* Instances of LoadControl for TLC.                                       *)
(***************************************************************************)
EXTENDS LoadControl

\* Two thresholds.  With supply 3 two requests do not both get the highest one,
\* with supply 1 they do not even fit at the lowest.
MCDemands == {<<2, 1>>}
MCSupplies == {1, 3}

=============================================================================
