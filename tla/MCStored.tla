------------------------------ MODULE MCStored ------------------------------
(***************************************************************************)
(* What is kept in redis and MySQL for all players: the army groups of the *)
(* Python worker, the world map, the configuration the gateway reads, with *)
(* the connections to MySQL, accounts with their names, and the defenders  *)
(* of a town.  They share neither data nor requests, so that a behaviour   *)
(* of all is one of each; `part` names the part that moves.                *)
(***************************************************************************)
EXTENDS Groups, WorldMap, Config, Pool, Accounts, Defence

VARIABLE part

\* Two users and two groups.  Users and names are only compared, so they may be
\* exchanged with each other.
CONSTANTS u1, u2, a, b

MCUsers == {u1, u2}
MCNames == {a, b}
Interchangeable == Permutations(MCUsers) \cup Permutations(MCNames)

\* Nine places in two areas: three for cities, wood, stone, iron and monsters, some
\* of them on places whose mirror image matters.
Land == [c \in Places |->
    CASE c \in {<<0, 0>>, <<1, 1>>, <<2, 0>>} -> 6
      [] c = <<0, 2>> -> 3
      [] c = <<1, 2>> -> 4
      [] c = <<2, 1>> -> 5
      [] c = <<2, 2>> -> 2
      [] OTHER -> 1]
Column(c) == IF c[1] = 0 THEN 0 ELSE 1

storedVars ==
    <<vars, worldVars, configVars, poolVars, accountVars, defenceVars, part>>

StoredInit ==
    /\ Init /\ WorldInit /\ ConfigInit /\ PoolInit /\ AccountsInit /\ DefenceInit
    /\ part \in {"groups", "world", "config", "pool", "accounts", "defence"}

InGroups(A) == part = "groups" /\ A
    /\ UNCHANGED <<worldVars, configVars, poolVars, accountVars, defenceVars, part>>
InWorld(A) == part = "world" /\ A
    /\ UNCHANGED <<vars, configVars, poolVars, accountVars, defenceVars, part>>
InConfig(A) == part = "config" /\ A
    /\ UNCHANGED <<vars, worldVars, poolVars, accountVars, defenceVars, part>>
InPool(A) == part = "pool" /\ A
    /\ UNCHANGED <<vars, worldVars, configVars, accountVars, defenceVars, part>>
InAccounts(A) == part = "accounts" /\ A
    /\ UNCHANGED <<vars, worldVars, configVars, poolVars, defenceVars, part>>
InDefence(A) == part = "defence" /\ A
    /\ UNCHANGED <<vars, worldVars, configVars, poolVars, accountVars, part>>

StoredNext ==
    \/ InGroups(Next) \/ InWorld(WorldNext) \/ InConfig(ConfigNext) \/ InPool(PoolNext)
    \/ InAccounts(AccountsNext) \/ InDefence(DefenceNext)

StoredSpec == StoredInit /\ [][StoredNext]_storedVars
=============================================================================
