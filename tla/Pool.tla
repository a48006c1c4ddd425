-------------------------------- MODULE Pool --------------------------------
(***************************************************************************)
(* The connections to MySQL of a process (mysql_base.cpp).  A Reader or a  *)
(* Writer takes a connection when it is constructed and gives it back when *)
(* its scope ends, so that those alive form a stack.  Some connections stay *)
(* open, the others are closed when they come back; the vector keeps their *)
(* places.                                                                 *)
(***************************************************************************)
EXTENDS Integers, Sequences, SequencesExt, Functions

CONSTANTS
    MinConnects,    \* connect_min_num, 5
    MaxConnects,    \* connect_max_num, 20000
    Depth,          \* bound on the Readers and Writers alive
    MaxOpened       \* bound on the connections opened and on index_list

ASSUME PoolAssumption ==
    /\ MinConnects \in Nat /\ MaxConnects \in Nat /\ Depth \in Nat /\ MaxOpened \in Nat

VARIABLES
    connects,   \* mysql_connect_pool, by index from 0: which are open
    indexList,  \* index_list
    useNum,     \* use_connect_num
    alive       \* the indices of the Readers and Writers, the latest last

poolVars == <<connects, indexList, useNum, alive>>

Refused == -3
-----------------------------------------------------------------------------
PoolInit ==
    /\ connects = [i \in 1..MinConnects |-> "open"]
    /\ indexList = [i \in 1..MinConnects |-> i - 1]
    /\ useNum = 0 /\ alive = <<>>

\* Faulty variant: use_connect_num is taken for the index of a new connection also when
\* closed ones are left in the vector.
ExpandByUse ==
    /\ connects' = Append(connects, "open")
    /\ alive' = Append(alive, useNum)
    /\ UNCHANGED indexList

\* The vector is longer than the number in use when expanded connections came back.
ExpandAtEnd ==
    /\ connects' = Append(connects, "open")
    /\ alive' = Append(alive, Len(connects))
    /\ UNCHANGED indexList

\* get_connect.  What is refused counts as in use all the same, and its index comes
\* into index_list when it is released.
GetConnect ==
    /\ Len(alive) < Depth /\ Len(connects) < MaxOpened /\ Len(indexList) < MaxOpened
    /\ useNum' = useNum + 1
    /\ IF useNum + 1 > Len(connects)
       THEN IF useNum + 1 > MaxConnects
            THEN alive' = Append(alive, Refused) /\ UNCHANGED <<connects, indexList>>
            ELSE /\ connects' = Append(connects, "open")
                 /\ alive' = Append(alive, useNum)
                 /\ UNCHANGED indexList
       ELSE IF indexList # <<>>
            THEN /\ alive' = Append(alive, Last(indexList))
                 /\ indexList' = Front(indexList)
                 /\ UNCHANGED connects
            ELSE ExpandAtEnd

\* release_connect.
ReleaseConnect ==
    /\ alive # <<>>
    /\ LET index == Last(alive) IN
       IF index >= MinConnects
       THEN connects' = [connects EXCEPT ![index + 1] = "closed"] /\ UNCHANGED indexList
       ELSE indexList' = Append(indexList, index) /\ UNCHANGED connects
    /\ alive' = Front(alive)
    /\ useNum' = useNum - 1

PoolNext == GetConnect \/ ReleaseConnect

PoolSpec == PoolInit /\ [][PoolNext]_poolVars
-----------------------------------------------------------------------------
\* ConnectionsApart: no two Readers or Writers that are alive use the same connection, and
\* none uses a closed one, although closed connections keep their places in the
\* vector, which are never used again, and the number in use stands for the length
\* of the vector in one place.  A constructor that is refused has no connection.
ConnectionsApart ==
    \A j \in DOMAIN alive : alive[j] # Refused =>
        /\ alive[j] + 1 \in DOMAIN connects /\ connects[alive[j] + 1] = "open"
        /\ \A k \in DOMAIN alive : alive[k] = alive[j] => k = j
=============================================================================
