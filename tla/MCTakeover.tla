----------------------------- MODULE MCTakeover -----------------------------
(***************************************************************************)
(* How often every dispatch is sent: a copy of the first execution's may   *)
(* come again; or each comes once at most, and late.                       *)
(***************************************************************************)
EXTENDS Takeover

FirstTwice == [e \in Execution |-> IF e = 1 THEN 2 ELSE 1]
OnceEach   == [e \in Execution |-> 1]
=============================================================================
