------------------------------- MODULE MCPvp -------------------------------
(* Two players who may attack each other, themselves and uid 0.            *)
EXTENDS Pvp, TLC

Even == [p \in Uids |-> IF p = 0 THEN 0 ELSE 100]
=============================================================================
