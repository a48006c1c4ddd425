------------------------------- MODULE MCSdk -------------------------------
(***************************************************************************)
(* Two parts of the gateway's sdk that touch nothing of each other: the    *)
(* ids of the connections, and the messages.  A behaviour of both is one   *)
(* of each; `part` names the part that moves.                              *)
(***************************************************************************)
EXTENDS IdGenerator, Wire

VARIABLE part

\* Pairs that overlap, that undo each other, and of one number with itself, at the ends
\* of the box and at the numbers where the tables of both sides hold the texts.
Draws == {<<0, 1, 1, 255>>, <<7, 7, 143, 0>>}

CONSTANTS s1, s2
MCSessions == {s1, s2}
Interchangeable == Permutations(MCSessions)

sdkVars == <<vars, wireVars, part>>

SdkInit == Init /\ WireInit /\ part \in {"ids", "wire"}

InIds(A) == part = "ids" /\ A /\ UNCHANGED <<wireVars, part>>
InWire(A) == part = "wire" /\ A /\ UNCHANGED <<vars, part>>

SdkNext == InIds(Next) \/ InWire(WireNext)

SdkSpec == SdkInit /\ [][SdkNext]_sdkVars
=============================================================================
