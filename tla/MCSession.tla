----------------------------- MODULE MCSession -----------------------------
(* Small instances of the session layer.                                   *)
EXTENDS Session, TLC

CONSTANTS s1, s2, t1

OneThread == [s \in Sessions |-> t1]

\* The first connection sends a message of its own after the challenge; the second
\* only has the challenge, which is what a connection sends that takes over its id.
TwoAndOne == [s \in Sessions |-> IF s = s1 THEN 2 ELSE 1]
=============================================================================
