--------------------------- MODULE MCDirectReads ---------------------------
(***************************************************************************)
(* Values of the constants of DirectReads for model checking.              *)
(***************************************************************************)
EXTENDS DirectReadsInv

\* The first two peers share a region of one provider.
TwoScopes == [r \in Reads |-> IF r <= 2 THEN "shared" ELSE "own"]

\* A stamp that is no integer, one that is too old, and a recent one.
AnyTags ==
  {[ts |-> 0, role |-> "standby"], [ts |-> 1, role |-> "leader"], [ts |-> Now, role |-> "leader"]}
=============================================================================
