----------------------------- MODULE MCPresence -----------------------------
(* Small instances of the gateway's presence tables.                       *)
EXTENDS Presence, TLC

CONSTANTS h1, h2, h3, p1, p2

\* Everything at once, no second account on a connection, and one point per player
\* with the idle check and the workers as they are.
AllEnvs == {Behaviours, Behaviours \ {"register"}, {"idle", "push"}}

\* Connections and players are interchangeable.
Interchangeable ==
    Permutations(Handlers) \cup Permutations(Players)
=============================================================================
