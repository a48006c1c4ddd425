---------------------------- MODULE StoredProofs ----------------------------
(***************************************************************************)
(* Theorems about what is kept in redis and MySQL for all players, module  *)
(* by module: the army groups, the connections to MySQL, the world map,    *)
(* accounts with their names and the defenders of a town.                  *)
(***************************************************************************)
EXTENDS Groups, WorldMap, Pool, Accounts, Defence, SequenceTheorems,
        FiniteSetTheorems, WellFoundedInduction, TLAPS

-----------------------------------------------------------------------------
(* Groups: for any number of users and groups, the records of the users    *)
(* and the lists of the groups agree, and a row of army_group has members. *)

\* TornOnFailure: only a request that ended half way leaves lists behind.
TornOnFailure == failures = 0 => torn = {}

\* Consistent: the three properties need each other and the types.  RecordBacked: an
\* owner who promotes has a group (so that the list that grows is one).
\* GroupHasMembers: when choosing the next owner raises, the row stays, and the
\* leaders that made it raise are members, as nothing is torn.
Consistent ==
    /\ TypeOK /\ TornOnFailure
    /\ RecordBacked /\ LeadersAreMembers /\ GroupHasMembers

\* InitConsistent: nobody has a group and there is none.
LEMMA InitConsistent == Init => Consistent
BY GroupsAssumption DEF Init, Consistent, TypeOK, RecordBacked, LeadersAreMembers,
   GroupHasMembers, TornOnFailure, Ids, NoGroup, Positions, Exists

\* OneFailure: what ends half way is counted, and still a number within the bound.
LEMMA OneFailure ==
    ASSUME TypeOK, Breaks
    PROVE  failures' \in 0..MaxFailures /\ failures' # 0
BY GroupsAssumption DEF TypeOK, Breaks

\* Backed: what must hold of one user and one group for the lists to agree with his record.
Backed(v, mem, lead, grp, pos, half) ==
    /\ grp = NoGroup => pos = 0
    /\ grp # NoGroup /\ <<v, grp>> \notin half =>
          /\ v \in mem[grp]
          /\ pos = 2 => v \in lead[grp]

\* RecordsBacked: RecordBacked user by user.
LEMMA RecordsBacked ==
    /\ RecordBacked <=>
          \A v \in Users : Backed(v, members, leaders, groupId[v], position[v], torn)
    /\ RecordBacked' <=>
          \A v \in Users : Backed(v, members', leaders', groupId'[v], position'[v], torn')
BY DEF RecordBacked, Backed

\* AddKeeps: addUserIntoGroup keeps records and lists in agreement, where it ends half
\* way but for the user and group it was for.
LEMMA AddKeeps ==
    ASSUME TypeOK, RecordBacked, LeadersAreMembers,
           NEW u \in Users, NEW g \in Ids, NEW pos \in 1..3, AddUserIntoGroup(u, g, pos)
    PROVE  /\ groupId' \in [Users -> Ids \cup {NoGroup}]
           /\ position' \in [Users -> Positions]
           /\ members' \in [Ids -> SUBSET Users]
           /\ leaders' \in [Ids -> SUBSET Users]
           /\ torn' \subseteq Users \X Ids
           /\ failures' \in 0..MaxFailures
           /\ failures' = 0 => failures = 0 /\ u \in members'[g] /\ torn' \subseteq torn
           /\ RecordBacked' /\ LeadersAreMembers'
           /\ \A h \in Ids : members[h] \subseteq members'[h]
<1>1. g # NoGroup BY DEF Ids, NoGroup
<1>2. /\ groupId' = [groupId EXCEPT ![u] = g]
      /\ position' = [position EXCEPT ![u] = pos]
  BY DEF AddUserIntoGroup, Records
<1>3. groupId' \in [Users -> Ids \cup {NoGroup}] /\ position' \in [Users -> Positions]
  BY <1>2 DEF TypeOK, Positions
<1>4. groupId'[u] = g /\ position'[u] = pos
  BY <1>2 DEF TypeOK
<1>5. \A v \in Users : v # u => groupId'[v] = groupId[v] /\ position'[v] = position[v]
  BY <1>2 DEF TypeOK
<1>6. members' = members \/ members' = WithMember(u, g)
  BY DEF AddUserIntoGroup
<1>7. /\ members' \in [Ids -> SUBSET Users]
      /\ \A h \in Ids : members[h] \subseteq members'[h]
  BY <1>6 DEF WithMember, TypeOK
<1>8. leaders' = leaders \/ leaders' = [leaders EXCEPT ![g] = @ \cup {u}]
  BY DEF AddUserIntoGroup
<1>9. /\ leaders' \in [Ids -> SUBSET Users]
      /\ \A h \in Ids : leaders[h] \subseteq leaders'[h]
      /\ \A h \in Ids : \A v \in leaders'[h] : v \in leaders[h] \/ (v = u /\ h = g)
  BY <1>8 DEF TypeOK
<1>10. torn' = torn \cup {<<u, g>>} \/ torn' = torn \ {<<u, g>>}
  BY DEF AddUserIntoGroup
<1>11. torn' \subseteq Users \X Ids BY <1>10 DEF TypeOK
<1>12. \A p : p \notin torn' /\ p # <<u, g>> => p \notin torn BY <1>10
<1>13. <<u, g>> \in torn' \/
       (u \in members'[g] /\ (pos = 2 => u \in leaders'[g]) /\ failures' = failures)
  BY DEF AddUserIntoGroup, WithMember, TypeOK
<1>14. /\ failures' \in 0..MaxFailures
       /\ failures' = 0 => failures = 0 /\ u \in members'[g] /\ torn' \subseteq torn
  <2>1. CASE /\ UNCHANGED failures /\ members' = WithMember(u, g)
             /\ torn' = torn \ {<<u, g>>}
    BY <2>1 DEF TypeOK, WithMember
  <2>2. CASE Breaks BY <2>2, OneFailure
  <2> QED BY <2>1, <2>2 DEF AddUserIntoGroup
<1>15. LeadersAreMembers'
  <2> SUFFICES ASSUME NEW h \in Ids, NEW v \in leaders'[h]
               PROVE  v \in members'[h] \/ <<v, h>> \in torn'
    BY DEF LeadersAreMembers
  <2>1. CASE v = u /\ h = g BY <2>1, <1>13
  <2>2. CASE ~(v = u /\ h = g)
    <3>1. v \in leaders[h] BY <2>2, <1>9
    <3>2. v \in members[h] \/ <<v, h>> \in torn BY <3>1 DEF LeadersAreMembers
    <3>3. <<v, h>> # <<u, g>> BY <2>2
    <3> QED BY <3>2, <3>3, <1>7, <1>12
  <2> QED BY <2>1, <2>2
<1>16. RecordBacked'
  <2> SUFFICES ASSUME NEW v \in Users
               PROVE  Backed(v, members', leaders', groupId'[v], position'[v], torn')
    BY RecordsBacked
  <2>1. CASE v = u BY <2>1, <1>1, <1>4, <1>13 DEF Backed
  <2>2. CASE v # u
    <3>1. Backed(v, members, leaders, groupId[v], position[v], torn) BY RecordsBacked
    <3>2. groupId[v] # NoGroup => groupId[v] \in Ids BY DEF TypeOK
    <3>3. <<v, groupId[v]>> # <<u, g>> BY <2>2
    <3> QED BY <2>2, <3>1, <3>2, <3>3, <1>5, <1>7, <1>9, <1>12 DEF Backed
  <2> QED BY <2>1, <2>2
<1> QED BY <1>3, <1>7, <1>9, <1>11, <1>14, <1>15, <1>16

\* Leaves: what deleteUserFromGroup has done to the lists when it ends.
Leaves(u, g) ==
    /\ \/ members' = members
       \/ members' = WithoutMember(u, g)
    /\ \/ leaders' = leaders /\ (<<u, g>> \in torn' \/ members' = members \/ u \notin leaders[g])
       \/ leaders' = WithoutLeader(u, g) /\ members' = WithoutMember(u, g)
    /\ \/ torn' \in {torn, torn \cup {<<u, g>>}}
       \/ leaders' = WithoutLeader(u, g) /\ torn' = torn \ {<<u, g>>}

\* LeaveKeeps: whatever part of the lists u is taken off, they agree with the records of
\* the others, and the leaders are members.
LEMMA LeaveKeeps ==
    ASSUME TypeOK, RecordBacked, LeadersAreMembers,
           NEW u \in Users, NEW g \in Ids, Leaves(u, g)
    PROVE  /\ members' \in [Ids -> SUBSET Users]
           /\ leaders' \in [Ids -> SUBSET Users]
           /\ torn' \subseteq Users \X Ids
           /\ LeadersAreMembers'
           /\ \A h \in Ids : h # g => members'[h] = members[h]
           /\ \A v \in Users : v # u =>
                 Backed(v, members', leaders', groupId[v], position[v], torn')
<1>1. /\ members' \in [Ids -> SUBSET Users]
      /\ \A h \in Ids : members[h] \ {u} \subseteq members'[h]
      /\ \A h \in Ids : h # g => members'[h] = members[h]
  BY DEF Leaves, WithoutMember, TypeOK
<1>2. /\ leaders' \in [Ids -> SUBSET Users]
      /\ \A h \in Ids : leaders[h] \ {u} \subseteq leaders'[h]
      /\ \A h \in Ids : leaders'[h] \subseteq leaders[h]
  BY DEF Leaves, WithoutLeader, TypeOK
<1>3. torn' \subseteq Users \X Ids BY DEF Leaves, TypeOK
<1>4. \A p : p # <<u, g>> => (p \in torn' <=> p \in torn) BY DEF Leaves
<1>5. u \in leaders'[g] => u \in members'[g] \/ <<u, g>> \in torn'
  <2> SUFFICES ASSUME u \in leaders'[g] PROVE u \in members'[g] \/ <<u, g>> \in torn'
    OBVIOUS
  <2>1. leaders' # WithoutLeader(u, g) BY DEF WithoutLeader, TypeOK
  <2>2. leaders' = leaders /\ (<<u, g>> \in torn' \/ members' = members)
    BY <2>1 DEF Leaves
  <2>3. torn' \in {torn, torn \cup {<<u, g>>}} BY <2>1 DEF Leaves
  <2> QED BY <2>2, <2>3 DEF LeadersAreMembers
<1>6. LeadersAreMembers'
  <2> SUFFICES ASSUME NEW h \in Ids, NEW v \in leaders'[h]
               PROVE  v \in members'[h] \/ <<v, h>> \in torn'
    BY DEF LeadersAreMembers
  <2>1. CASE v = u /\ h = g BY <2>1, <1>5
  <2>2. CASE ~(v = u /\ h = g)
    <3>1. v \in members[h] \/ <<v, h>> \in torn BY <1>2 DEF LeadersAreMembers
    <3>2. <<v, h>> # <<u, g>> BY <2>2
    <3>3. v \in members[h] => v \in members'[h] BY <2>2, <1>1
    <3> QED BY <3>1, <3>2, <3>3, <1>4
  <2> QED BY <2>1, <2>2
<1>7. ASSUME NEW v \in Users, v # u
      PROVE  Backed(v, members', leaders', groupId[v], position[v], torn')
  <2>1. Backed(v, members, leaders, groupId[v], position[v], torn) BY RecordsBacked
  <2>2. groupId[v] # NoGroup => groupId[v] \in Ids BY DEF TypeOK
  <2>3. <<v, groupId[v]>> # <<u, g>> BY <1>7
  <2> QED BY <2>1, <2>2, <2>3, <1>1, <1>2, <1>4, <1>7 DEF Backed
<1> QED BY <1>1, <1>2, <1>3, <1>6, <1>7

\* DeleteKeeps: deleteUserFromGroup keeps the agreement, whoever it makes the owner.
LEMMA DeleteKeeps ==
    ASSUME TypeOK, RecordBacked, LeadersAreMembers,
           NEW u \in Users, NEW g \in Ids, DeleteUserFromGroup(u, g)
    PROVE  /\ groupId' \in [Users -> Ids \cup {NoGroup}]
           /\ position' \in [Users -> Positions]
           /\ members' \in [Ids -> SUBSET Users]
           /\ leaders' \in [Ids -> SUBSET Users]
           /\ torn' \subseteq Users \X Ids
           /\ RecordBacked' /\ LeadersAreMembers'
           /\ \A h \in Ids : h # g => members'[h] = members[h]
           /\ members'[g] = WithoutMember(u, g)[g]
           /\ torn' \subseteq torn
<1>1. g # NoGroup BY DEF Ids, NoGroup
<1>2. Leaves(u, g) BY DEF DeleteUserFromGroup, Leaves
<1>3. /\ members' \in [Ids -> SUBSET Users]
      /\ leaders' \in [Ids -> SUBSET Users]
      /\ torn' \subseteq Users \X Ids
      /\ LeadersAreMembers'
      /\ \A h \in Ids : h # g => members'[h] = members[h]
      /\ \A v \in Users : v # u =>
            Backed(v, members', leaders', groupId[v], position[v], torn')
  BY <1>2, LeaveKeeps
<1>4. members'[g] = WithoutMember(u, g)[g] /\ torn' \subseteq torn
  BY DEF DeleteUserFromGroup
<1>5. CASE ChosenOwners(u, g) = {}
  <2>1. /\ groupId' = [groupId EXCEPT ![u] = NoGroup]
        /\ position' = [position EXCEPT ![u] = 0]
    BY <1>5 DEF DeleteUserFromGroup, Records
  <2>2. groupId' \in [Users -> Ids \cup {NoGroup}] /\ position' \in [Users -> Positions]
    BY <2>1 DEF TypeOK, Positions
  <2>3. groupId'[u] = NoGroup /\ position'[u] = 0 BY <2>1 DEF TypeOK
  <2>4. \A v \in Users : v # u => groupId'[v] = groupId[v] /\ position'[v] = position[v]
    BY <2>1 DEF TypeOK
  <2>5. RecordBacked'
    <3> SUFFICES ASSUME NEW v \in Users
                 PROVE  Backed(v, members', leaders', groupId'[v], position'[v], torn')
      BY RecordsBacked
    <3>1. CASE v = u BY <3>1, <2>3 DEF Backed
    <3>2. CASE v # u BY <3>2, <2>4, <1>3
    <3> QED BY <3>1, <3>2
  <2> QED BY <1>3, <1>4, <2>2, <2>5
<1>6. CASE ChosenOwners(u, g) # {}
  <2>1. PICK o \in ChosenOwners(u, g) :
          /\ groupId' = [groupId EXCEPT ![u] = NoGroup, ![o] = g]
          /\ position' = [position EXCEPT ![u] = 0, ![o] = 3]
    BY <1>6 DEF DeleteUserFromGroup
  <2>2. o \in members'[g] /\ o \in Users /\ o # u
    <3>1. ChosenOwners(u, g) \subseteq WithoutMember(u, g)[g]
      BY DEF ChosenOwners
    <3>2. WithoutMember(u, g)[g] = members[g] \ {u} BY DEF WithoutMember, TypeOK
    <3> QED BY <3>1, <3>2, <1>3, <1>4, <2>1 DEF TypeOK
  <2>3. groupId' \in [Users -> Ids \cup {NoGroup}] /\ position' \in [Users -> Positions]
    BY <2>1, <2>2 DEF TypeOK, Positions
  <2>4. groupId'[u] = NoGroup /\ position'[u] = 0 /\ groupId'[o] = g /\ position'[o] = 3
    BY <2>1, <2>2 DEF TypeOK
  <2>5. \A v \in Users : v # u /\ v # o =>
           groupId'[v] = groupId[v] /\ position'[v] = position[v]
    BY <2>1 DEF TypeOK
  <2>6. RecordBacked'
    <3> SUFFICES ASSUME NEW v \in Users
                 PROVE  Backed(v, members', leaders', groupId'[v], position'[v], torn')
      BY RecordsBacked
    <3>1. CASE v = u BY <3>1, <2>4 DEF Backed
    <3>2. CASE v = o BY <3>2, <2>2, <2>4, <1>1 DEF Backed
    <3>3. CASE v # u /\ v # o BY <3>3, <2>5, <1>3
    <3> QED BY <3>1, <3>2, <3>3
  <2> QED BY <1>3, <1>4, <2>3, <2>6
<1> QED BY <1>5, <1>6

\* CutKeeps: so does a deleteUserFromGroup that ends half way.
LEMMA CutKeeps ==
    ASSUME TypeOK, RecordBacked, LeadersAreMembers,
           NEW u \in Users, NEW g \in Ids, DeleteCut(u, g)
    PROVE  /\ groupId' \in [Users -> Ids \cup {NoGroup}]
           /\ position' \in [Users -> Positions]
           /\ members' \in [Ids -> SUBSET Users]
           /\ leaders' \in [Ids -> SUBSET Users]
           /\ torn' \subseteq Users \X Ids
           /\ RecordBacked' /\ LeadersAreMembers'
<1>1. Leaves(u, g) BY DEF DeleteCut, Leaves, lists
<1>2. /\ members' \in [Ids -> SUBSET Users]
      /\ leaders' \in [Ids -> SUBSET Users]
      /\ torn' \subseteq Users \X Ids
      /\ LeadersAreMembers'
      /\ \A v \in Users : v # u =>
            Backed(v, members', leaders', groupId[v], position[v], torn')
  BY <1>1, LeaveKeeps
<1>3. /\ groupId' = [groupId EXCEPT ![u] = NoGroup]
      /\ position' = [position EXCEPT ![u] = 0]
  BY DEF DeleteCut, Records
<1>4. groupId' \in [Users -> Ids \cup {NoGroup}] /\ position' \in [Users -> Positions]
  BY <1>3 DEF TypeOK, Positions
<1>5. groupId'[u] = NoGroup /\ position'[u] = 0 BY <1>3 DEF TypeOK
<1>6. \A v \in Users : v # u => groupId'[v] = groupId[v] /\ position'[v] = position[v]
  BY <1>3 DEF TypeOK
<1>7. RecordBacked'
  <2> SUFFICES ASSUME NEW v \in Users
               PROVE  Backed(v, members', leaders', groupId'[v], position'[v], torn')
    BY RecordsBacked
  <2>1. CASE v = u BY <2>1, <1>5 DEF Backed
  <2>2. CASE v # u BY <2>2, <1>6, <1>2
  <2> QED BY <2>1, <2>2
<1> QED BY <1>2, <1>4, <1>7

\* ExitKeeps: exitGroup keeps Consistent.  The row goes with the last member; where it
\* stays although the choice of an owner raised, a leader is left.
LEMMA ExitKeeps ==
    ASSUME Consistent, NEW u \in Users, NEW g \in Ids, ExitGroup(u, g)
    PROVE  Consistent'
<1>1. CASE DeleteCut(u, g) /\ UNCHANGED table
  <2>1. failures' \in 0..MaxFailures /\ failures' # 0
    BY <1>1, OneFailure DEF DeleteCut, Consistent
  <2>2. TypeOK'
    BY <1>1, <2>1, CutKeeps DEF Consistent, TypeOK, ExitGroup
  <2>3. GroupHasMembers' /\ TornOnFailure' BY <2>1 DEF GroupHasMembers, TornOnFailure
  <2> QED BY <1>1, <2>2, <2>3, CutKeeps DEF Consistent
<1>2. CASE /\ DeleteUserFromGroup(u, g)
           /\ IF ~ChooseRaises(u, g) /\ WithoutMember(u, g)[g] = {}
              THEN DeleteGroup(g) ELSE UNCHANGED <<table, failures>>
  <2>1. /\ groupId' \in [Users -> Ids \cup {NoGroup}]
        /\ position' \in [Users -> Positions]
        /\ members' \in [Ids -> SUBSET Users]
        /\ leaders' \in [Ids -> SUBSET Users]
        /\ torn' \subseteq Users \X Ids
        /\ RecordBacked' /\ LeadersAreMembers'
        /\ \A h \in Ids : h # g => members'[h] = members[h]
        /\ members'[g] = WithoutMember(u, g)[g]
        /\ torn' \subseteq torn
    BY <1>2, DeleteKeeps DEF Consistent
  <2>2. /\ failures' \in 0..MaxFailures
        /\ failures' = 0 => failures = 0
        /\ table' \in [Ids -> [name : Names, type : Types] \cup {None}]
        /\ \A h \in Ids : h # g => table'[h] = table[h]
    <3>1. CASE UNCHANGED <<table, failures>> BY <3>1 DEF Consistent, TypeOK
    <3>2. CASE DeleteGroup(g)
      <4>1. table' = table \/ table' = [table EXCEPT ![g] = None]
        BY <3>2 DEF DeleteGroup
      <4>2. failures' = failures \/ Breaks BY <3>2 DEF DeleteGroup
      <4> QED BY <4>1, <4>2, OneFailure DEF Consistent, TypeOK
    <3> QED BY <1>2, <3>1, <3>2
  <2>3. TypeOK'
    BY <2>1, <2>2 DEF Consistent, TypeOK, ExitGroup
  <2>4. GroupHasMembers'
    <3> SUFFICES ASSUME failures' = 0, NEW h \in Ids, table'[h] # None
                 PROVE  members'[h] # {}
      BY DEF GroupHasMembers, Exists
    <3>1. CASE h # g
      BY <3>1, <2>1, <2>2 DEF Consistent, GroupHasMembers, Exists
    <3>2. CASE h = g /\ WithoutMember(u, g)[g] # {} BY <3>2, <2>1
    <3>3. CASE h = g /\ WithoutMember(u, g)[g] = {} /\ ~ChooseRaises(u, g)
      <4>1. DeleteGroup(g) BY <1>2, <3>3
      <4>2. ~Breaks BY OneFailure DEF Consistent
      <4>3. table' = [table EXCEPT ![g] = None]
        BY <4>1, <4>2 DEF DeleteGroup
      <4> QED BY <4>3, <3>3 DEF Consistent, TypeOK
    <3>4. CASE h = g /\ WithoutMember(u, g)[g] = {} /\ ChooseRaises(u, g)
      <4>1. PICK v \in WithoutLeader(u, g)[g] : TRUE BY <3>4 DEF ChooseRaises
      <4>2. v \in leaders[g] /\ v # u BY <4>1 DEF WithoutLeader, Consistent, TypeOK
      <4>3. v \notin members[g] BY <3>4, <4>2 DEF WithoutMember, Consistent, TypeOK
      <4>4. <<v, g>> \in torn BY <4>2, <4>3 DEF Consistent, LeadersAreMembers
      <4>5. failures = 0 BY <2>2
      <4> QED BY <4>4, <4>5 DEF Consistent, TornOnFailure
    <3> QED BY <3>1, <3>2, <3>3, <3>4
  <2>5. TornOnFailure' BY <2>1, <2>2 DEF Consistent, TornOnFailure
  <2> QED BY <2>1, <2>3, <2>4, <2>5 DEF Consistent
<1> QED BY <1>1, <1>2 DEF ExitGroup

\* NextKeeps: every request keeps Consistent.
LEMMA NextKeeps == Consistent /\ [Next]_vars => Consistent'
<1> SUFFICES ASSUME Consistent, [Next]_vars PROVE Consistent'
  OBVIOUS
<1> USE GroupsAssumption
<1>1. ASSUME NEW u \in Users, NEW n \in Names, NEW ty \in Types, CreateGroup(u, n, ty)
      PROVE  Consistent'
  <2>1. nextId \in Ids /\ AddUserIntoGroup(u, nextId, 3) BY <1>1 DEF CreateGroup
  <2>2. /\ table' \in [Ids -> [name : Names, type : Types] \cup {None}]
        /\ \A h \in Ids : h # nextId => table'[h] = table[h]
    BY <1>1 DEF CreateGroup, Consistent, TypeOK
  <2>3. TypeOK'
    BY <1>1, <2>1, <2>2, AddKeeps DEF CreateGroup, Consistent, TypeOK, Ids
  <2>4. GroupHasMembers' /\ TornOnFailure'
    BY <1>1, <2>1, <2>2, AddKeeps
       DEF CreateGroup, Consistent, GroupHasMembers, TornOnFailure, Exists, TypeOK
  <2> QED BY <2>1, <2>3, <2>4, AddKeeps DEF Consistent
<1>2. ASSUME NEW u \in Users, NEW n \in Names, NEW ty \in Types, CreateGroupFails(u, n, ty)
      PROVE  Consistent'
  <2>1. failures' \in 0..MaxFailures /\ failures' # 0
    BY <1>2, OneFailure DEF CreateGroupFails, Consistent
  <2>2. TypeOK' BY <1>2, <2>1 DEF CreateGroupFails, Consistent, TypeOK, Ids, records, lists
  <2>3. GroupHasMembers' /\ TornOnFailure' BY <2>1 DEF GroupHasMembers, TornOnFailure
  <2>4. RecordBacked' /\ LeadersAreMembers'
    BY <1>2 DEF CreateGroupFails, Consistent, RecordBacked, LeadersAreMembers, records, lists
  <2> QED BY <2>2, <2>3, <2>4 DEF Consistent
<1>3. ASSUME NEW u \in Users, NEW g \in Ids, NEW pos \in 1..3, AddUserIntoGroup(u, g, pos),
             UNCHANGED <<table, nextId, requests>>
      PROVE  Consistent'
  <2>1. TypeOK' BY <1>3, AddKeeps DEF Consistent, TypeOK
  <2>2. GroupHasMembers' /\ TornOnFailure'
    BY <1>3, AddKeeps DEF Consistent, GroupHasMembers, TornOnFailure, Exists, TypeOK
  <2> QED BY <1>3, <2>1, <2>2, AddKeeps DEF Consistent
<1>4. ASSUME NEW u \in Users, NEW g \in Ids, SendJoinRequest(u, g)
      PROVE  Consistent'
  <2>1. TypeOK' BY <1>4 DEF SendJoinRequest, Consistent, TypeOK, records, lists
  <2> QED BY <1>4, <2>1 DEF SendJoinRequest, Consistent, RecordBacked, LeadersAreMembers,
             GroupHasMembers, TornOnFailure, Exists, records, lists
<1>5. ASSUME NEW u \in Users, NEW g \in Ids, NEW ty \in Types, UpdateGroupInfo(u, g, ty)
      PROVE  Consistent'
  <2>1. /\ table' \in [Ids -> [name : Names, type : Types] \cup {None}]
        /\ \A h \in Ids : table[h] = None => table'[h] = None
    <3>1. CASE table' = table BY <3>1 DEF Consistent, TypeOK
    <3>2. CASE Exists(g) /\ table' = [table EXCEPT ![g].type = ty]
      <4>1. table[g] \in [name : Names, type : Types]
        BY <3>2 DEF Consistent, TypeOK, Exists
      <4>2. [table[g] EXCEPT !.type = ty] \in [name : Names, type : Types]
        BY <4>1
      <4> QED BY <3>2, <4>2 DEF Consistent, TypeOK, Exists
    <3> QED BY <1>5, <3>1, <3>2 DEF UpdateGroupInfo
  <2>2. failures' \in 0..MaxFailures /\ (failures' = 0 => failures = 0)
    BY <1>5, OneFailure DEF UpdateGroupInfo, Consistent, TypeOK
  <2>3. TypeOK' BY <1>5, <2>1, <2>2 DEF UpdateGroupInfo, Consistent, TypeOK, records, lists
  <2>4. GroupHasMembers' /\ TornOnFailure'
    BY <1>5, <2>1, <2>2
       DEF UpdateGroupInfo, Consistent, GroupHasMembers, TornOnFailure, Exists, TypeOK, lists
  <2>5. RecordBacked' /\ LeadersAreMembers'
    BY <1>5 DEF UpdateGroupInfo, Consistent, RecordBacked, LeadersAreMembers, records, lists
  <2> QED BY <2>3, <2>4, <2>5 DEF Consistent
<1>6. ASSUME NEW u \in Users, NEW p \in Users, PromoteUser(u, p)
      PROVE  Consistent'
  <2>1. groupId[u] \in Ids
    <3>1. position[u] # 0 BY <1>6 DEF PromoteUser
    <3>2. groupId[u] # NoGroup BY <3>1 DEF Consistent, RecordBacked
    <3> QED BY <3>2 DEF Consistent, TypeOK
  <2> QED BY <1>6, <1>3, <2>1 DEF PromoteUser
<1>7. ASSUME NEW u \in Users, NEW g \in Ids, JoinDirectly(u, g) \/ AcceptJoin(u, g)
      PROVE  Consistent'
  BY <1>7, <1>3 DEF JoinDirectly, AcceptJoin
<1>8. CASE UNCHANGED vars
  BY <1>8 DEF vars, Consistent, TypeOK, RecordBacked, LeadersAreMembers, GroupHasMembers,
     TornOnFailure, Exists
<1> QED BY <1>1, <1>2, <1>4, <1>5, <1>6, <1>7, <1>8, ExitKeeps DEF Next

\* AlwaysRecordBacked: whatever requests arrive and wherever they end, a user's record
\* and the lists of the group it names agree, but for the one his request was cut for.
THEOREM AlwaysRecordBacked == Spec => []RecordBacked
<1>1. Consistent => RecordBacked BY DEF Consistent
<1> QED BY <1>1, InitConsistent, NextKeeps, PTL DEF Spec

\* AlwaysLeadersAreMembers: a group's leaders are among its members, but for one whose
\* leaving ended half way.
THEOREM AlwaysLeadersAreMembers == Spec => []LeadersAreMembers
<1>1. Consistent => LeadersAreMembers BY DEF Consistent
<1> QED BY <1>1, InitConsistent, NextKeeps, PTL DEF Spec

\* AlwaysGroupHasMembers: until a request ends half way, a row of army_group has members.
THEOREM AlwaysGroupHasMembers == Spec => []GroupHasMembers
<1>1. Consistent => GroupHasMembers BY DEF Consistent
<1> QED BY <1>1, InitConsistent, NextKeeps, PTL DEF Spec
-----------------------------------------------------------------------------
(* Pool: no connection to MySQL is used twice at a time, for every number  *)
(* of connections that stay open and every limit.                          *)

PoolTypes ==
    /\ connects \in Seq({"open", "closed"}) /\ Len(connects) >= MinConnects
    /\ indexList \in Seq(Int) /\ alive \in Seq(Int) /\ useNum \in Int

\* The connections that stay open are open; index_list has some of them, each once, and
\* what refused ones left; none of them is in use.
IndexListFree ==
    /\ \A i \in 1 .. MinConnects : connects[i] = "open"
    /\ \A k \in DOMAIN indexList : indexList[k] # Refused =>
          /\ indexList[k] \in 0 .. MinConnects - 1
          /\ \A m \in DOMAIN indexList : indexList[m] = indexList[k] => m = k
          /\ \A j \in DOMAIN alive : alive[j] # indexList[k]

InVector == \A j \in DOMAIN alive : alive[j] = Refused \/ alive[j] \in 0 .. Len(connects) - 1

\* The number in use exceeds the length of the vector only when the limit is reached,
\* and then nothing is added any more: in the branch that takes the number for an
\* index it is the length.
UseBounded == useNum <= Len(connects) \/ Len(connects) >= MaxConnects

PoolInv == PoolTypes /\ IndexListFree /\ InVector /\ UseBounded /\ ConnectionsApart

\* A sequence without its last element.
LEMMA FrontOf ==
    ASSUME NEW s \in Seq(Int), s # <<>>
    PROVE  /\ Front(s) \in Seq(Int) /\ Len(Front(s)) = Len(s) - 1
           /\ DOMAIN Front(s) = 1 .. Len(s) - 1
           /\ DOMAIN s = 1 .. Len(s) /\ Len(s) \in Nat
           /\ \A i \in 1 .. Len(s) - 1 : Front(s)[i] = s[i]
           /\ Last(s) = s[Len(s)] /\ Len(s) \in DOMAIN s /\ Last(s) \in Int
  <1>1. Len(s) \in Nat \ {0} /\ DOMAIN s = 1 .. Len(s)
    BY EmptySeq
  <1>2. Front(s) = [i \in 1 .. Len(s) - 1 |-> s[i]]
    BY DEF Front
  <1>3. QED
    BY <1>1, <1>2 DEF Last

\* An element put at the end of a sequence.
LEMMA AppendOf ==
    ASSUME NEW S, NEW s \in Seq(S), NEW e \in S
    PROVE  /\ Append(s, e) \in Seq(S) /\ Len(Append(s, e)) = Len(s) + 1
           /\ DOMAIN Append(s, e) = 1 .. Len(s) + 1 /\ DOMAIN s = 1 .. Len(s)
           /\ Len(s) \in Nat
           /\ \A i \in 1 .. Len(s) : Append(s, e)[i] = s[i]
           /\ Append(s, e)[Len(s) + 1] = e
  BY AppendProperties

\* MysqlManager::Init fills the pool with its smallest number of connections.
LEMMA InitPool == PoolInit => PoolInv
  <1> SUFFICES ASSUME PoolInit PROVE PoolInv
    OBVIOUS
  <1> USE PoolAssumption
  <1>1. /\ connects = [i \in 1 .. MinConnects |-> "open"]
        /\ indexList = [i \in 1 .. MinConnects |-> i - 1]
        /\ useNum = 0 /\ alive = <<>>
    BY DEF PoolInit
  <1>2. connects \in Seq({"open", "closed"}) /\ Len(connects) = MinConnects
    BY <1>1
  <1>3. indexList \in Seq(Int) /\ DOMAIN indexList = 1 .. MinConnects
    BY <1>1
  <1>4. PoolTypes
    BY <1>1, <1>2, <1>3 DEF PoolTypes
  <1>5. IndexListFree
    BY <1>1, <1>3 DEF IndexListFree, Refused
  <1>6. InVector /\ UseBounded /\ ConnectionsApart
    BY <1>1, <1>2 DEF InVector, UseBounded, ConnectionsApart
  <1>7. QED
    BY <1>4, <1>5, <1>6 DEF PoolInv

\* A new connection at the end of the vector, whose index nobody has.
LEMMA Expanded ==
    ASSUME PoolInv, connects' = Append(connects, "open"),
           alive' = Append(alive, Len(connects)), indexList' = indexList,
           useNum' = useNum + 1, useNum' <= Len(connects) + 1
    PROVE  PoolInv'
  <1> USE PoolAssumption
  <1> DEFINE n == Len(connects)
             a == Len(alive)
  <1>1. /\ connects' \in Seq({"open", "closed"}) /\ Len(connects') = n + 1
        /\ n \in Nat /\ DOMAIN connects' = 1 .. n + 1 /\ DOMAIN connects = 1 .. n
        /\ \A i \in 1 .. n : connects'[i] = connects[i]
        /\ connects'[n + 1] = "open"
    BY AppendOf DEF PoolInv, PoolTypes
  <1>2. /\ alive' \in Seq(Int) /\ a \in Nat /\ DOMAIN alive' = 1 .. a + 1
        /\ DOMAIN alive = 1 .. a
        /\ \A j \in 1 .. a : alive'[j] = alive[j]
        /\ alive'[a + 1] = n
    BY <1>1, AppendOf DEF PoolInv, PoolTypes
  <1>3. PoolTypes'
    BY <1>1, <1>2 DEF PoolInv, PoolTypes
  <1>4. MinConnects <= n
    BY DEF PoolInv, PoolTypes
  <1>5. IndexListFree'
    <2>1. \A i \in 1 .. MinConnects : connects'[i] = "open"
      BY <1>1, <1>4 DEF PoolInv, IndexListFree
    <2>2. ASSUME NEW k \in DOMAIN indexList, indexList[k] # Refused
          PROVE  /\ indexList[k] \in 0 .. MinConnects - 1
                 /\ \A m \in DOMAIN indexList : indexList[m] = indexList[k] => m = k
                 /\ \A j \in DOMAIN alive' : alive'[j] # indexList[k]
      BY <1>1, <1>2, <1>4, <2>2 DEF PoolInv, IndexListFree
    <2>3. QED
      BY <2>1, <2>2 DEF IndexListFree
  <1>6. InVector'
    BY <1>1, <1>2 DEF PoolInv, InVector
  <1>7. UseBounded'
    BY <1>1, <1>3 DEF PoolTypes, UseBounded
  <1>8. ConnectionsApart'
    <2>1. \A j \in 1 .. a : alive[j] # n
      BY <1>1, <1>2 DEF PoolInv, InVector, Refused
    <2>2. \A j \in 1 .. a : alive[j] # Refused => alive[j] \in 0 .. n - 1
      BY <1>2 DEF PoolInv, InVector
    <2>3. QED
      BY <1>1, <1>2, <2>1, <2>2 DEF PoolInv, ConnectionsApart
  <1>9. QED
    BY <1>3, <1>5, <1>6, <1>7, <1>8 DEF PoolInv

\* A constructor that is refused, at the limit.
LEMMA RefusedKeeps ==
    ASSUME PoolInv, alive' = Append(alive, Refused), connects' = connects,
           indexList' = indexList, useNum' = useNum + 1,
           useNum + 1 > Len(connects), useNum + 1 > MaxConnects
    PROVE  PoolInv'
  <1> USE PoolAssumption
  <1> DEFINE a == Len(alive)
  <1>1. Refused \in Int
    BY DEF Refused
  <1>2. /\ alive' \in Seq(Int) /\ a \in Nat /\ DOMAIN alive' = 1 .. a + 1
        /\ DOMAIN alive = 1 .. a
        /\ \A j \in 1 .. a : alive'[j] = alive[j]
        /\ alive'[a + 1] = Refused
    BY <1>1, AppendOf DEF PoolInv, PoolTypes
  <1>3. PoolTypes'
    BY <1>2 DEF PoolInv, PoolTypes
  <1>4. IndexListFree'
    BY <1>2 DEF PoolInv, IndexListFree
  <1>5. InVector'
    BY <1>2 DEF PoolInv, InVector
  <1>6. UseBounded'
    BY DEF PoolInv, PoolTypes, UseBounded
  <1>7. ConnectionsApart'
    BY <1>2 DEF PoolInv, ConnectionsApart
  <1>8. QED
    BY <1>3, <1>4, <1>5, <1>6, <1>7 DEF PoolInv

\* The last index of index_list comes into use.
LEMMA Reused ==
    PoolInv /\ useNum + 1 <= Len(connects) /\ indexList # <<>>
      /\ alive' = Append(alive, Last(indexList)) /\ indexList' = Front(indexList)
      /\ connects' = connects /\ useNum' = useNum + 1
    => PoolInv'
  <1>1. SUFFICES ASSUME PoolInv, useNum + 1 <= Len(connects), indexList # <<>>,
                        alive' = Append(alive, Last(indexList)),
                        indexList' = Front(indexList), connects' = connects,
                        useNum' = useNum + 1
                 PROVE  PoolInv'
    OBVIOUS
  <1> DEFINE a == Len(alive)
             z == Len(indexList)
             n == Len(connects)
             e == Last(indexList)
  <1>2. /\ PoolTypes /\ IndexListFree /\ InVector /\ ConnectionsApart
        /\ indexList \in Seq(Int) /\ alive \in Seq(Int)
        /\ n \in Nat /\ DOMAIN connects = 1 .. n /\ MinConnects <= n
    BY <1>1, PoolAssumption DEF PoolInv, PoolTypes
  <1>3. /\ Front(indexList) \in Seq(Int) /\ DOMAIN Front(indexList) = 1 .. z - 1
        /\ \A i \in 1 .. z - 1 : Front(indexList)[i] = indexList[i]
        /\ e = indexList[z] /\ z \in DOMAIN indexList /\ e \in Int
        /\ DOMAIN indexList = 1 .. z /\ z \in Nat
    <2>1. Front(indexList) \in Seq(Int) /\ e \in Int
      BY <1>1, <1>2, FrontOf
    <2>2. DOMAIN indexList = 1 .. z /\ z \in Nat /\ DOMAIN Front(indexList) = 1 .. z - 1
      BY <1>1, <1>2, FrontOf
    <2>3. /\ \A i \in 1 .. z - 1 : Front(indexList)[i] = indexList[i]
          /\ e = indexList[z] /\ z \in DOMAIN indexList
      BY <1>1, <1>2, FrontOf
    <2>4. QED
      BY <2>1, <2>2, <2>3
  <1>4. /\ Append(alive, e) \in Seq(Int) /\ a \in Nat
        /\ DOMAIN Append(alive, e) = 1 .. a + 1 /\ DOMAIN alive = 1 .. a
        /\ \A j \in 1 .. a : Append(alive, e)[j] = alive[j]
        /\ Append(alive, e)[a + 1] = e
    BY <1>2, <1>3, AppendOf
  <1>5. alive' = Append(alive, e) /\ n' = n
    BY <1>1
  <1> HIDE DEF a, z, n, e
  <1>6. PoolTypes'
    BY <1>1, <1>2, <1>3, <1>4, <1>5 DEF PoolTypes
  <1>7. e # Refused =>
          /\ e \in 0 .. MinConnects - 1
          /\ \A m \in 1 .. z - 1 : indexList[m] # e
          /\ \A j \in 1 .. a : alive[j] # e
    <2>1. ASSUME e # Refused
          PROVE  /\ e \in 0 .. MinConnects - 1
                 /\ \A m \in DOMAIN indexList : indexList[m] = e => m = z
                 /\ \A j \in DOMAIN alive : alive[j] # e
      BY <1>2, <1>3, <2>1 DEF IndexListFree
    <2>2. \A m \in 1 .. z - 1 : m \in DOMAIN indexList /\ m # z
      BY <1>3
    <2>3. QED
      BY <1>4, <2>1, <2>2
  <1>8. IndexListFree'
    <2>1. ASSUME NEW k \in 1 .. z - 1, indexList[k] # Refused
          PROVE  /\ indexList[k] \in 0 .. MinConnects - 1
                 /\ \A m \in 1 .. z - 1 : indexList[m] = indexList[k] => m = k
                 /\ \A j \in 1 .. a + 1 : Append(alive, e)[j] # indexList[k]
      <3>1. k \in DOMAIN indexList /\ indexList[k] # e
        BY <1>3, <1>7, <2>1
      <3>2. /\ indexList[k] \in 0 .. MinConnects - 1
            /\ \A m \in DOMAIN indexList : indexList[m] = indexList[k] => m = k
            /\ \A j \in 1 .. a : alive[j] # indexList[k]
        BY <1>2, <1>4, <2>1, <3>1 DEF IndexListFree
      <3>3. \A j \in 1 .. a + 1 : j \in 1 .. a \/ j = a + 1
        BY <1>4
      <3>4. \A m \in 1 .. z - 1 : m \in DOMAIN indexList
        BY <1>3
      <3>5. \A j \in 1 .. a + 1 : Append(alive, e)[j] # indexList[k]
        BY <1>4, <3>1, <3>2, <3>3
      <3>6. QED
        BY <3>2, <3>4, <3>5
    <2>2. \A i \in 1 .. MinConnects : connects[i] = "open"
      BY <1>2 DEF IndexListFree
    <2>3. QED
      BY <1>1, <1>3, <1>4, <1>5, <2>1, <2>2 DEF IndexListFree
  <1>9. InVector'
    <2>1. \A j \in 1 .. a + 1 : j \in 1 .. a \/ j = a + 1
      BY <1>4
    <2>2. \A j \in 1 .. a : alive[j] = Refused \/ alive[j] \in 0 .. n - 1
      BY <1>2, <1>4 DEF InVector, n
    <2>3. e = Refused \/ e \in 0 .. n - 1
      BY <1>2, <1>3, <1>7, PoolAssumption
    <2>4. ASSUME NEW j \in 1 .. a + 1
          PROVE  Append(alive, e)[j] = Refused \/ Append(alive, e)[j] \in 0 .. n - 1
      BY <1>4, <2>1, <2>2, <2>3
    <2>5. QED
      BY <1>1, <1>4, <1>5, <2>4 DEF InVector, n
  <1>10. UseBounded'
    BY <1>1, <1>2 DEF PoolTypes, UseBounded
  <1>11. ConnectionsApart'
    <2>1. e # Refused => e + 1 \in DOMAIN connects /\ connects[e + 1] = "open"
      BY <1>2, <1>7, PoolAssumption DEF IndexListFree
    <2>2. QED
      BY <1>1, <1>2, <1>4, <1>5, <1>7, <2>1 DEF ConnectionsApart
  <1>12. QED
    BY <1>6, <1>8, <1>9, <1>10, <1>11 DEF PoolInv

\* GetConnect refuses, opens a connection or hands out one that nobody has.
LEMMA GetKeeps == PoolInv /\ GetConnect => PoolInv'
  <1> SUFFICES ASSUME PoolInv, GetConnect PROVE PoolInv'
    OBVIOUS
  <1> USE PoolAssumption
  <1>1. useNum \in Int /\ Len(connects) \in Nat /\ useNum' = useNum + 1
    BY DEF PoolInv, PoolTypes, GetConnect
  <1>2. CASE useNum + 1 > Len(connects) /\ useNum + 1 > MaxConnects
    BY <1>1, <1>2, RefusedKeeps DEF GetConnect
  <1>3. CASE useNum + 1 > Len(connects) /\ ~(useNum + 1 > MaxConnects)
    <2>1. useNum = Len(connects)
      BY <1>1, <1>3 DEF PoolInv, UseBounded
    <2>2. QED
      BY <1>1, <1>3, <2>1, Expanded DEF GetConnect
  <1>4. CASE ~(useNum + 1 > Len(connects)) /\ indexList # <<>>
    BY <1>1, <1>4, Reused DEF GetConnect
  <1>5. CASE ~(useNum + 1 > Len(connects)) /\ indexList = <<>>
    BY <1>1, <1>5, Expanded DEF GetConnect, ExpandAtEnd
  <1>6. QED
    BY <1>2, <1>3, <1>4, <1>5

\* The index of what ends is in nobody else's hands: it is closed, or listed again.
LEMMA ReleaseKeeps == PoolInv /\ ReleaseConnect => PoolInv'
  <1>1. SUFFICES ASSUME PoolInv, ReleaseConnect PROVE PoolInv'
    OBVIOUS
  <1> DEFINE a == Len(alive)
             n == Len(connects)
             z == Len(indexList)
             e == Last(alive)
  <1>2. /\ PoolTypes /\ IndexListFree /\ InVector /\ UseBounded /\ ConnectionsApart
        /\ connects \in Seq({"open", "closed"}) /\ indexList \in Seq(Int)
        /\ alive \in Seq(Int) /\ useNum \in Int
        /\ n \in Nat /\ DOMAIN connects = 1 .. n /\ MinConnects <= n
        /\ MinConnects \in Nat /\ MaxConnects \in Nat
    BY <1>1, PoolAssumption DEF PoolInv, PoolTypes
  <1>3. /\ alive # <<>> /\ alive' = Front(alive) /\ useNum' = useNum - 1
        /\ IF e >= MinConnects
           THEN connects' = [connects EXCEPT ![e + 1] = "closed"] /\ indexList' = indexList
           ELSE indexList' = Append(indexList, e) /\ connects' = connects
    BY <1>1 DEF ReleaseConnect
  <1>4. /\ Front(alive) \in Seq(Int) /\ DOMAIN Front(alive) = 1 .. a - 1
        /\ \A j \in 1 .. a - 1 : Front(alive)[j] = alive[j]
        /\ e = alive[a] /\ a \in DOMAIN alive /\ e \in Int
        /\ DOMAIN alive = 1 .. a /\ a \in Nat
    <2>1. Front(alive) \in Seq(Int) /\ e \in Int
      BY <1>2, <1>3, FrontOf
    <2>2. DOMAIN alive = 1 .. a /\ a \in Nat /\ DOMAIN Front(alive) = 1 .. a - 1
      BY <1>2, <1>3, FrontOf
    <2>3. /\ \A i \in 1 .. a - 1 : Front(alive)[i] = alive[i]
          /\ e = alive[a] /\ a \in DOMAIN alive
      BY <1>2, <1>3, FrontOf
    <2>4. QED
      BY <2>1, <2>2, <2>3
  <1>5. /\ Append(indexList, e) \in Seq(Int) /\ z \in Nat
        /\ DOMAIN Append(indexList, e) = 1 .. z + 1 /\ DOMAIN indexList = 1 .. z
        /\ \A k \in 1 .. z : Append(indexList, e)[k] = indexList[k]
        /\ Append(indexList, e)[z + 1] = e
    BY <1>2, <1>4, AppendOf
  <1> HIDE DEF a, z, e
  <1>6. e # Refused =>
          /\ e \in 0 .. n - 1
          /\ \A j \in 1 .. a - 1 : alive[j] # e
          /\ \A k \in 1 .. z : indexList[k] # e
    <2>1. e # Refused => e \in 0 .. n - 1
      BY <1>2, <1>4 DEF InVector
    <2>2. e # Refused => \A j \in 1 .. a - 1 : alive[j] # e
      <3>1. ASSUME e # Refused, NEW j \in 1 .. a - 1, alive[j] = e PROVE FALSE
        <4>1. j \in DOMAIN alive /\ j # a
          BY <1>4, <3>1
        <4>2. QED
          BY <1>2, <1>4, <3>1, <4>1 DEF ConnectionsApart
      <3>2. QED
        BY <3>1
    <2>3. e # Refused => \A k \in 1 .. z : indexList[k] # e
      BY <1>2, <1>4, <1>5 DEF IndexListFree
    <2>4. QED
      BY <2>1, <2>2, <2>3
  <1>7. CASE e >= MinConnects
    <2>1. e # Refused
      BY <1>2, <1>4, <1>7 DEF Refused
    <2>2. connects' = [connects EXCEPT ![e + 1] = "closed"] /\ indexList' = indexList
      BY <1>3, <1>7
    <2>3. /\ connects' \in Seq({"open", "closed"}) /\ n' = n
          /\ DOMAIN connects' = 1 .. n
          /\ \A i \in 1 .. n : i # e + 1 => connects'[i] = connects[i]
      <3>1. connects \in [1 .. n -> {"open", "closed"}] /\ n \in Nat
        BY <1>2
      <3>2. connects' \in [1 .. n -> {"open", "closed"}]
        BY <2>2, <3>1
      <3>3. connects' \in Seq({"open", "closed"})
        BY <3>1, <3>2
      <3>4. Len(connects') = Len(connects) /\ DOMAIN connects' = 1 .. n
        BY <2>2, <3>1
      <3>5. QED
        BY <2>2, <3>1, <3>3, <3>4
    <2> HIDE DEF n
    <2>4. PoolTypes'
      BY <1>2, <1>3, <1>4, <2>2, <2>3 DEF PoolTypes, n
    <2>5. IndexListFree'
      <3>1. \A i \in 1 .. MinConnects : connects'[i] = "open"
        BY <1>2, <1>4, <1>7, <2>3 DEF IndexListFree
      <3>2. \A j \in 1 .. a - 1 : j \in DOMAIN alive
        BY <1>4
      <3>3. QED
        BY <1>2, <1>3, <1>4, <2>2, <3>1, <3>2 DEF IndexListFree
    <2>6. InVector'
      BY <1>2, <1>3, <1>4, <2>3 DEF InVector, n
    <2>7. UseBounded'
      BY <1>2, <1>3, <2>3 DEF UseBounded, n
    <2>8. ConnectionsApart'
      <3>1. ASSUME NEW j \in 1 .. a - 1, alive[j] # Refused
            PROVE  /\ alive[j] + 1 \in 1 .. n /\ connects'[alive[j] + 1] = "open"
                   /\ \A k \in 1 .. a - 1 : alive[k] = alive[j] => k = j
        <4>1. j \in DOMAIN alive /\ alive[j] \in Int
          BY <1>2, <1>4
        <4>2. /\ alive[j] + 1 \in 1 .. n /\ connects[alive[j] + 1] = "open"
              /\ \A k \in DOMAIN alive : alive[k] = alive[j] => k = j
          BY <1>2, <3>1, <4>1 DEF ConnectionsApart
        <4>3. alive[j] + 1 # e + 1
          BY <1>4, <1>6, <2>1, <4>1
        <4>4. connects'[alive[j] + 1] = "open"
          BY <2>3, <4>2, <4>3
        <4>5. \A k \in 1 .. a - 1 : k \in DOMAIN alive
          BY <1>4
        <4>6. QED
          BY <4>2, <4>4, <4>5
      <3>2. QED
        BY <1>3, <1>4, <2>3, <3>1 DEF ConnectionsApart
    <2>9. QED
      BY <2>4, <2>5, <2>6, <2>7, <2>8 DEF PoolInv
  <1>8. CASE ~(e >= MinConnects)
    <2>1. connects' = connects /\ indexList' = Append(indexList, e)
      BY <1>3, <1>8
    <2>2. PoolTypes'
      BY <1>2, <1>3, <1>4, <1>5, <2>1 DEF PoolTypes
    <2> HIDE DEF n
    <2>3. IndexListFree'
      <3>1. ASSUME NEW k \in 1 .. z + 1, Append(indexList, e)[k] # Refused
            PROVE  /\ Append(indexList, e)[k] \in 0 .. MinConnects - 1
                   /\ \A m \in 1 .. z + 1 :
                         Append(indexList, e)[m] = Append(indexList, e)[k] => m = k
                   /\ \A j \in 1 .. a - 1 : alive[j] # Append(indexList, e)[k]
        <4>1. CASE k = z + 1
          <5>1. e # Refused
            BY <1>5, <3>1, <4>1
          <5>2. \A m \in 1 .. z + 1 : m # z + 1 => m \in 1 .. z
            BY <1>5
          <5>3. e \in 0 .. MinConnects - 1
            BY <1>2, <1>4, <1>6, <1>8, <5>1
          <5>4. QED
            BY <1>5, <1>6, <4>1, <5>1, <5>2, <5>3
        <4>2. CASE k \in 1 .. z
          <5>1. indexList[k] # Refused
            BY <1>5, <3>1, <4>2
          <5>2. indexList[k] # e
            BY <1>6, <4>2, <5>1
          <5>3. /\ indexList[k] \in 0 .. MinConnects - 1
                /\ \A m \in 1 .. z : indexList[m] = indexList[k] => m = k
                /\ \A j \in DOMAIN alive : alive[j] # indexList[k]
            BY <1>2, <1>5, <4>2, <5>1 DEF IndexListFree
          <5>4. \A m \in 1 .. z + 1 : m = z + 1 \/ m \in 1 .. z
            BY <1>5
          <5>5. \A j \in 1 .. a - 1 : j \in DOMAIN alive
            BY <1>4
          <5>6. QED
            BY <1>5, <4>2, <5>2, <5>3, <5>4, <5>5
        <4>3. QED
          BY <1>5, <4>1, <4>2
      <3>2. \A i \in 1 .. MinConnects : connects[i] = "open"
        BY <1>2 DEF IndexListFree
      <3>3. /\ DOMAIN indexList' = 1 .. z + 1 /\ DOMAIN alive' = 1 .. a - 1
            /\ \A j \in 1 .. a - 1 : alive'[j] = alive[j]
        BY <1>3, <1>4, <1>5, <2>1
      <3>4. QED
        BY <2>1, <3>1, <3>2, <3>3 DEF IndexListFree
    <2>4. InVector'
      BY <1>2, <1>3, <1>4, <2>1 DEF InVector, n
    <2>5. UseBounded'
      BY <1>2, <1>3, <2>1 DEF UseBounded, n
    <2>6. ConnectionsApart'
      <3>1. \A j \in 1 .. a - 1 : j \in DOMAIN alive
        BY <1>4
      <3>2. QED
        BY <1>2, <1>3, <1>4, <2>1, <3>1 DEF ConnectionsApart
    <2>7. QED
      BY <2>2, <2>3, <2>4, <2>5, <2>6 DEF PoolInv
  <1>9. QED
    BY <1>7, <1>8

\* AlwaysApart: whatever Readers and Writers begin and end, however deep, two that are
\* alive never share a connection and none has a closed one (get_connect and
\* release_connect of mysql_base.cpp).
THEOREM AlwaysApart == PoolSpec => []ConnectionsApart
  <1>1. PoolInv /\ [PoolNext]_poolVars => PoolInv'
    <2>1. PoolInv /\ UNCHANGED poolVars => PoolInv'
      BY DEF PoolInv, PoolTypes, IndexListFree, InVector, UseBounded,
             ConnectionsApart, poolVars
    <2>2. QED
      BY <2>1, GetKeeps, ReleaseKeeps DEF PoolNext
  <1>2. PoolInv => ConnectionsApart
    BY DEF PoolInv
  <1>3. QED
    BY <1>1, <1>2, InitPool, PTL DEF PoolSpec

-----------------------------------------------------------------------------
(* Naturals and sequences.                                                 *)

\* A set of naturals that is not empty has a least element.
LEMMA LeastElement ==
    ASSUME NEW T \in SUBSET Nat, T # {}
    PROVE  \E x \in T : \A y \in T : x <= y
<1> DEFINE F == {0 .. n : n \in T}
<1>1. F # {} /\ F \subseteq FiniteSubsetsOf(Nat)
  <2>1. \A n \in T : IsFiniteSet(0 .. n) /\ 0 .. n \in SUBSET Nat
    <3> TAKE n \in T
    <3>1. n \in Int /\ 0 \in Int
      OBVIOUS
    <3>2. IsFiniteSet(0 .. n)
      BY <3>1, FS_Interval
    <3> QED
      BY <3>2
  <2> QED
    BY <2>1 DEF FiniteSubsetsOf
<1>2. \E x \in F : \A y \in F : ~(<<y, x>> \in StrictSubsetOrdering(Nat))
  BY <1>1, FS_StrictSubsetOrderingWellFounded, WFMin
<1>3. PICK x \in T : \A y \in T : ~(<<0 .. y, 0 .. x>> \in StrictSubsetOrdering(Nat))
  BY <1>2
<1>4. ASSUME NEW y \in T, y < x PROVE FALSE
  <2>1. 0 .. y \in SUBSET Nat /\ 0 .. x \in SUBSET Nat /\ 0 .. y \subseteq 0 .. x
    BY <1>4
  <2>2. x \in 0 .. x /\ x \notin 0 .. y
    BY <1>4
  <2> QED
    BY <1>3, <2>1, <2>2 DEF StrictSubsetOrdering
<1>5. \A y \in T : x <= y
  BY <1>4
<1> QED
  BY <1>5

\* What holds of 0 and of each number with its predecessor holds up to n: I says where.
LEMMA Upwards ==
    ASSUME NEW n \in Nat, NEW I, 0 \in I, \A k \in 1 .. n : k - 1 \in I => k \in I
    PROVE  \A k \in 0 .. n : k \in I
<1> DEFINE T == {k \in 0 .. n : k \notin I}
<1> SUFFICES ASSUME T # {} PROVE FALSE
  OBVIOUS
<1>1. T \in SUBSET Nat
  OBVIOUS
<1>2. PICK m \in T : \A k \in T : m <= k
  BY <1>1, LeastElement
<1>3. m \in 1 .. n /\ m - 1 \in 0 .. n /\ ~(m <= m - 1)
  BY <1>1
<1>4. m - 1 \in I
  BY <1>2, <1>3
<1> QED
  BY <1>3, <1>4

\* f starts with b and goes on, up to n, by the table g.
Goes(f, n, V, b, g) ==
    /\ f \in [0 .. n -> V] /\ f[0] = b
    /\ \A k \in 1 .. n : f[k] = g[<<k, f[k - 1]>>]

\* There is a function that starts with b and goes on by the table g.
LEMMA Recursion ==
    ASSUME NEW n \in Nat, NEW V, NEW b \in V, NEW g \in [(1 .. n) \X V -> V]
    PROVE  \E f : Goes(f, n, V, b, g)
<1> DEFINE Fits(f, m) == /\ f \in [0 .. m -> V] /\ f[0] = b
                         /\ \A k \in 1 .. m : f[k] = g[<<k, f[k - 1]>>]
           I == {m \in 0 .. n : \E f : Fits(f, m)}
<1>1. 0 \in I
  <2> DEFINE h == [k \in 0 .. 0 |-> b]
  <2>1. Fits(h, 0)
    OBVIOUS
  <2> HIDE DEF h, Fits
  <2> QED
    BY <2>1
<1>2. ASSUME NEW m \in 1 .. n, m - 1 \in I PROVE m \in I
  <2>1. PICK f : Fits(f, m - 1)
    BY <1>2
  <2> DEFINE h == [k \in 0 .. m |-> IF k = m THEN g[<<m, f[m - 1]>>] ELSE f[k]]
  <2>2. g[<<m, f[m - 1]>>] \in V
    BY <2>1
  <2>3. h \in [0 .. m -> V] /\ h[0] = b
    BY <2>1, <2>2
  <2>4. ASSUME NEW k \in 1 .. m PROVE h[k] = g[<<k, h[k - 1]>>]
    <3>1. CASE k = m
      <4>1. m - 1 \in 0 .. m /\ m - 1 # m /\ m \in 0 .. m
        OBVIOUS
      <4>2. h[m] = g[<<m, f[m - 1]>>] /\ h[m - 1] = f[m - 1]
        BY <4>1
      <4> QED
        BY <3>1, <4>2
    <3>2. CASE k # m
      <4>1. k \in 1 .. m - 1 /\ k \in 0 .. m /\ k - 1 \in 0 .. m /\ k - 1 # m
        BY <3>2
      <4>2. f[k] = g[<<k, f[k - 1]>>]
        BY <2>1, <4>1
      <4> QED
        BY <3>2, <4>1, <4>2
    <3> QED
      BY <3>1, <3>2
  <2>5. Fits(h, m)
    BY <2>3, <2>4
  <2> HIDE DEF h, Fits
  <2> QED
    BY <2>5
<1> HIDE DEF I
<1>3. \A k \in 0 .. n : k \in I
  BY <1>1, <1>2, Upwards
<1>4. n \in I
  BY <1>3
<1> QED
  BY <1>4 DEF I, Goes

\* A sequence whose elements differ, with an element more.
LEMMA OneMore ==
    ASSUME NEW S, NEW s \in Seq(S), IsInjective(s), NEW x \in S, x \notin Range(s)
    PROVE  /\ Append(s, x) \in Seq(S) /\ IsInjective(Append(s, x))
           /\ Range(Append(s, x)) = Range(s) \cup {x}
<1> PICK r : r = Append(s, x)
  OBVIOUS
<1>1. /\ r \in Seq(S) /\ Len(r) = Len(s) + 1 /\ Len(s) \in Nat
      /\ \A i \in 1 .. Len(s) : r[i] = s[i]
      /\ r[Len(s) + 1] = x
      /\ DOMAIN s = 1 .. Len(s) /\ DOMAIN r = 1 .. Len(s) + 1
  BY AppendProperties, LenProperties
<1>2. \A i \in 1 .. Len(s) : s[i] # x
  BY <1>1 DEF Range
<1>3. IsInjective(r)
  <2> SUFFICES ASSUME NEW i \in DOMAIN r, NEW j \in DOMAIN r, r[i] = r[j] PROVE i = j
    BY DEF IsInjective
  <2>1. CASE i \in 1 .. Len(s) /\ j \in 1 .. Len(s)
    BY <2>1, <1>1 DEF IsInjective
  <2>2. CASE ~(i \in 1 .. Len(s) /\ j \in 1 .. Len(s))
    <3>1. i \in 1 .. Len(s) \/ i = Len(s) + 1
      BY <1>1
    <3>2. j \in 1 .. Len(s) \/ j = Len(s) + 1
      BY <1>1
    <3> QED
      BY <2>2, <3>1, <3>2, <1>1, <1>2
  <2> QED
    BY <2>1, <2>2
<1>4. Range(r) = Range(s) \cup {x}
  <2>1. \A i \in DOMAIN r : r[i] \in Range(s) \cup {x}
    BY <1>1 DEF Range
  <2>2. \A y \in Range(s) : \E i \in DOMAIN r : r[i] = y
    BY <1>1 DEF Range
  <2>3. \E i \in DOMAIN r : r[i] = x
    BY <1>1
  <2> QED
    BY <2>1, <2>2, <2>3 DEF Range
<1> QED
  BY <1>1, <1>3, <1>4

\* A sequence whose elements differ, without one of them.
LEMMA OneLess ==
    ASSUME NEW S, NEW s \in Seq(S), IsInjective(s), NEW i \in 1 .. Len(s),
           NEW r, r = SwapRemove(s, i)
    PROVE  r \in Seq(S) /\ IsInjective(r) /\ Range(r) = Range(s) \ {s[i]}
<1> PICK n : n = Len(s)
  OBVIOUS
<1>1. n \in Nat \ {0} /\ DOMAIN s = 1 .. n /\ s \in [1 .. n -> S]
  BY LenProperties
<1> DEFINE t == [s EXCEPT ![i] = s[n]]
<1>2. t \in Seq(S) /\ Len(t) = n
  <2>1. t \in [1 .. n -> S]
    BY <1>1
  <2> QED
    BY <2>1, <1>1, SeqDef, LenProperties
<1>3. /\ r \in Seq(S) /\ DOMAIN r = 1 .. n - 1
      /\ \A k \in 1 .. n - 1 : r[k] = t[k]
  <2>1. r = SubSeq(t, 1, n - 1)
    BY DEF SwapRemove
  <2> HIDE DEF t
  <2>2. /\ r \in Seq(S) /\ Len(r) = n - 1
        /\ \A k \in 1 .. n - 1 : r[k] = t[k]
    BY <2>1, <1>1, <1>2, SubSeqProperties
  <2> QED
    BY <2>2, LenProperties
<1>4. \A k \in 1 .. n - 1 : r[k] = IF k = i THEN s[n] ELSE s[k]
  BY <1>1, <1>3
<1>5. IsInjective(r)
  <2> SUFFICES ASSUME NEW j \in 1 .. n - 1, NEW k \in 1 .. n - 1, r[j] = r[k] PROVE j = k
    BY <1>3 DEF IsInjective
  <2>1. \A x, y \in 1 .. n : s[x] = s[y] => x = y
    BY <1>1 DEF IsInjective
  <2> QED
    BY <1>1, <1>4, <2>1
<1>6. Range(r) = Range(s) \ {s[i]}
  <2>1. \A x, y \in 1 .. n : s[x] = s[y] => x = y
    BY <1>1 DEF IsInjective
  <2>2. \A k \in 1 .. n - 1 : \E x \in 1 .. n : r[k] = s[x] /\ x # i
    BY <1>1, <1>4
  <2>3. ASSUME NEW x \in 1 .. n, x # i PROVE \E k \in 1 .. n - 1 : r[k] = s[x]
    <3>1. CASE x = n
      BY <1>1, <1>4, <2>3, <3>1
    <3>2. CASE x # n
      BY <1>1, <1>4, <2>3, <3>2
    <3> QED
      BY <3>1, <3>2
  <2>4. \A y : y \in Range(r) <=> \E k \in 1 .. n - 1 : r[k] = y
    BY <1>3 DEF Range
  <2>5. \A y : y \in Range(s) <=> \E x \in 1 .. n : s[x] = y
    BY <1>1 DEF Range
  <2>6. \A y : y \in Range(r) => y \in Range(s) \ {s[i]}
    BY <2>1, <2>2, <2>4, <2>5
  <2>7. \A y : y \in Range(s) \ {s[i]} => y \in Range(r)
    BY <2>3, <2>4, <2>5
  <2> QED
    BY <2>6, <2>7
<1> QED
  BY <1>3, <1>5, <1>6

\* A sequence whose elements differ has as many as it is long.
LEMMA AsLong ==
    ASSUME NEW S, NEW s \in Seq(S), IsInjective(s)
    PROVE  Cardinality(Range(s)) = Len(s)
<1> PICK n, T : n = Len(s) /\ T = Range(s)
  OBVIOUS
<1>1. n \in Nat /\ DOMAIN s = 1 .. n /\ s = [i \in 1 .. n |-> s[i]]
  BY LenProperties
<1>2. s \in [1 .. n -> T] /\ \A y \in T : \E i \in 1 .. n : s[i] = y
  BY <1>1 DEF Range
<1>3. \A i, j \in 1 .. n : s[i] = s[j] => i = j
  BY <1>1 DEF IsInjective
<1>4. IsFiniteSet(1 .. n) /\ Cardinality(1 .. n) = n
  <2>1. 1 \in Int /\ n \in Int
    BY <1>1
  <2>2. IsFiniteSet(1 .. n) /\ Cardinality(1 .. n) = IF 1 > n THEN 0 ELSE n - 1 + 1
    BY <2>1, FS_Interval
  <2> QED
    BY <1>1, <2>2
<1>5. ExistsBijection(1 .. n, T)
  <2>1. s \in Injection(1 .. n, T) /\ s \in Surjection(1 .. n, T)
    BY <1>2, <1>3 DEF Injection, Surjection, IsInjective
  <2> QED
    BY <2>1 DEF ExistsBijection, Bijection
<1> QED
  BY <1>4, <1>5, FS_Bijection

\* No element is in the empty sequence.
LEMMA NothingIn ==
    ASSUME NEW S
    PROVE  /\ <<>> \in Seq(S) /\ IsInjective(<<>>) /\ Range(<<>>) = {} /\ DOMAIN <<>> = {}
<1>1. <<>> \in Seq(S) /\ Len(<<>>) = 0 /\ DOMAIN <<>> = {}
  OBVIOUS
<1> QED
  BY <1>1 DEF IsInjective, Range

\* A sequence with an element more.
LEMMA Appended ==
    ASSUME NEW S, NEW s \in Seq(S), NEW x \in S
    PROVE  Append(s, x) \in Seq(S) /\ Range(Append(s, x)) = Range(s) \cup {x}
<1> PICK r : r = Append(s, x)
  OBVIOUS
<1>1. /\ r \in Seq(S) /\ Len(r) = Len(s) + 1 /\ Len(s) \in Nat
      /\ \A i \in 1 .. Len(s) : r[i] = s[i]
      /\ r[Len(s) + 1] = x
      /\ DOMAIN s = 1 .. Len(s) /\ DOMAIN r = 1 .. Len(s) + 1
  BY AppendProperties, LenProperties
<1>2. \A i \in DOMAIN r : r[i] \in Range(s) \cup {x}
  BY <1>1 DEF Range
<1>3. \A y \in Range(s) : \E i \in DOMAIN r : r[i] = y
  BY <1>1 DEF Range
<1>4. \E i \in DOMAIN r : r[i] = x
  BY <1>1
<1> QED
  BY <1>1, <1>2, <1>3, <1>4 DEF Range

\* A sequence whose elements differ, without the last one.
LEMMA LastTaken ==
    ASSUME NEW S, NEW s \in Seq(S), IsInjective(s), s # <<>>
    PROVE  /\ Front(s) \in Seq(S) /\ IsInjective(Front(s)) /\ Last(s) \in S
           /\ Last(s) \in Range(s) /\ Range(Front(s)) = Range(s) \ {Last(s)}
<1> PICK n, r : n = Len(s) /\ r = Front(s)
  OBVIOUS
<1>1. n \in Nat \ {0} /\ DOMAIN s = 1 .. n /\ s \in [1 .. n -> S] /\ Last(s) = s[n]
  <2>1. Len(s) \in Nat /\ DOMAIN s = 1 .. Len(s) /\ s \in [1 .. Len(s) -> S] /\ Len(s) # 0
    BY LenProperties, EmptySeq
  <2> QED
    BY <2>1 DEF Last
<1>2. /\ r \in Seq(S) /\ DOMAIN r = 1 .. n - 1 /\ \A k \in 1 .. n - 1 : r[k] = s[k]
  <2>1. r = SubSeq(s, 1, n - 1)
    BY DEF Front
  <2>2. /\ r \in Seq(S) /\ Len(r) = n - 1 /\ \A k \in 1 .. n - 1 : r[k] = s[k]
    BY <1>1, <2>1, SubSeqProperties
  <2> QED
    BY <2>2, LenProperties
<1>3. \A x, y \in 1 .. n : s[x] = s[y] => x = y
  BY <1>1 DEF IsInjective
<1>4. IsInjective(r)
  BY <1>1, <1>2, <1>3 DEF IsInjective
<1>5. \A y : y \in Range(r) <=> \E k \in 1 .. n - 1 : s[k] = y
  BY <1>2 DEF Range
<1>6. \A y : y \in Range(s) <=> \E k \in 1 .. n : s[k] = y
  BY <1>1 DEF Range
<1>7. Last(s) \in Range(s) /\ Last(s) \in S
  BY <1>1, <1>6
<1>8. \A k \in 1 .. n : k # n => k \in 1 .. n - 1
  BY <1>1
<1>9. \A k \in 1 .. n - 1 : k \in 1 .. n /\ k # n
  BY <1>1
<1>10. \A y : y \in Range(r) <=> (y \in Range(s) /\ y # s[n])
  BY <1>1, <1>3, <1>5, <1>6, <1>8, <1>9
<1>11. Range(r) = Range(s) \ {Last(s)}
  BY <1>1, <1>10
<1> QED
  BY <1>2, <1>4, <1>7, <1>11

\* f collects the values v of the numbers in K, in their order.
Collects(f, n, K, v) ==
    f = [k \in 0 .. n |-> IF k = 0 THEN <<>>
                          ELSE IF k \in K THEN Append(f[k - 1], v[k]) ELSE f[k - 1]]

\* These values, and that they differ.
Picked(n, K, v) == {v[k] : k \in {i \in 1 .. n : i \in K}}
Differ(n, K, v) == \A j, k \in 1 .. n : j \in K /\ k \in K /\ v[j] = v[k] => j = k

\* There is a function that does so,
LEMMA Collector ==
    ASSUME NEW K, NEW S, NEW v \in Seq(S)
    PROVE  \E f : Collects(f, Len(v), K, v)
<1> PICK n : n = Len(v)
  OBVIOUS
<1>a. n \in Nat /\ v \in [1 .. n -> S]
  BY LenProperties
<1> DEFINE V == Seq(S)
           next(s, k) == IF k \in K THEN Append(s, v[k]) ELSE s
           g == [x \in (1 .. n) \X V |-> next(x[2], x[1])]
<1>1. <<>> \in V
  BY NothingIn
<1>2. ASSUME NEW k \in 1 .. n, NEW s \in V PROVE next(s, k) \in V
  BY <1>a, Appended
<1>3. g \in [(1 .. n) \X V -> V] /\ \A k \in 1 .. n, s \in V : g[<<k, s>>] = next(s, k)
  BY <1>2
<1> HIDE DEF V, g
<1>4. PICK f : Goes(f, n, V, <<>>, g)
  BY <1>a, <1>1, <1>3, Recursion
<1>5. f \in [0 .. n -> V] /\ f[0] = <<>>
  BY <1>a, <1>4 DEF Goes
<1>6. ASSUME NEW k \in 1 .. n PROVE f[k] = next(f[k - 1], k)
  <2>1. f[k - 1] \in V
    BY <1>a, <1>5
  <2> QED
    BY <1>3, <1>4, <2>1 DEF Goes
<1> DEFINE h(k) == IF k = 0 THEN <<>> ELSE IF k \in K THEN Append(f[k - 1], v[k]) ELSE f[k - 1]
<1>7. f = [k \in 0 .. n |-> h(k)]
  <2>1. ASSUME NEW k \in 0 .. n PROVE f[k] = h(k)
    <3>1. CASE k = 0
      BY <1>5, <3>1
    <3>2. CASE k \in 1 .. n
      <4>1. h(k) = next(f[k - 1], k)
        BY <3>2
      <4> HIDE DEF h, next
      <4> QED
        BY <1>6, <3>2, <4>1
    <3>3. k = 0 \/ k \in 1 .. n
      BY <1>a
    <3> QED
      BY <3>1, <3>2, <3>3
  <2> HIDE DEF h
  <2> QED
    BY <1>5, <2>1
<1>8. Collects(f, n, K, v)
  BY <1>7 DEF Collects
<1> QED
  BY <1>8

\* and what it has collected up to n are these values, once if they differ.
LEMMA Collected ==
    ASSUME NEW K, NEW S, NEW v \in Seq(S), NEW n, n = Len(v), NEW f, Collects(f, n, K, v)
    PROVE  /\ f[n] \in Seq(S) /\ Range(f[n]) = Picked(n, K, v)
           /\ Differ(n, K, v) => IsInjective(f[n])
<1>a. n \in Nat /\ v \in [1 .. n -> S]
  BY LenProperties
<1>1. f[0] = <<>> /\ \A k \in 1 .. n : f[k] = IF k \in K THEN Append(f[k - 1], v[k]) ELSE f[k - 1]
  <2> DEFINE h(k) == IF k = 0 THEN <<>> ELSE IF k \in K THEN Append(f[k - 1], v[k]) ELSE f[k - 1]
  <2>1. f = [k \in 0 .. n |-> h(k)]
    BY DEF Collects
  <2>2. \A k \in 0 .. n : f[k] = h(k)
    <3> HIDE DEF h
    <3> QED
      BY <1>a, <2>1
  <2> QED
    BY <1>a, <2>2
<1> DEFINE Apart == \A j, k \in 1 .. n : j \in K /\ k \in K /\ v[j] = v[k] => j = k
           Has(m) == {v[k] : k \in {i \in 1 .. m : i \in K}}
           I == {m \in 0 .. n : /\ f[m] \in Seq(S) /\ Range(f[m]) = Has(m)
                                /\ Apart => IsInjective(f[m])}
<1>2. 0 \in I
  <2>1. Has(0) = {}
    OBVIOUS
  <2>2. <<>> \in Seq(S) /\ IsInjective(<<>>) /\ Range(<<>>) = {}
    BY NothingIn
  <2> QED
    <3>1. f[0] \in Seq(S) /\ Range(f[0]) = Has(0) /\ IsInjective(f[0]) /\ 0 \in 0 .. n
      BY <1>a, <1>1, <2>1, <2>2
    <3> HIDE DEF Has, Apart
    <3> QED
      BY <3>1
<1>3. ASSUME NEW m \in 1 .. n, m - 1 \in I PROVE m \in I
  <2>1. f[m - 1] \in Seq(S) /\ Range(f[m - 1]) = Has(m - 1) /\ (Apart => IsInjective(f[m - 1]))
    BY <1>3
  <2>2. \A i \in 1 .. m : i \in 1 .. m - 1 \/ i = m
    BY <1>a
  <2>3. \A i \in 1 .. m - 1 : i \in 1 .. m /\ i \in 1 .. n /\ i # m
    BY <1>a
  <2>4. CASE m \in K
    <3>1. Has(m) = Has(m - 1) \cup {v[m]}
      BY <2>2, <2>3, <2>4
    <3>2. PICK s, x : s = f[m - 1] /\ x = v[m]
      OBVIOUS
    <3>3. f[m] = Append(s, x) /\ x \in S /\ s \in Seq(S) /\ Range(s) = Has(m - 1)
      BY <1>a, <1>1, <2>1, <2>4, <3>2
    <3>4. Append(s, x) \in Seq(S) /\ Range(Append(s, x)) = Range(s) \cup {x}
      BY <3>3, Appended
    <3>5. Apart => IsInjective(Append(s, x))
      <4>1. SUFFICES ASSUME Apart PROVE IsInjective(Append(s, x))
        OBVIOUS
      <4>2. x \notin Has(m - 1)
        BY <2>3, <2>4, <3>2, <4>1
      <4>3. IsInjective(s) /\ x \notin Range(s)
        BY <2>1, <3>2, <3>3, <4>1, <4>2
      <4> QED
        BY <3>3, <4>3, OneMore
    <3>6. f[m] \in Seq(S) /\ Range(f[m]) = Has(m) /\ (Apart => IsInjective(f[m]))
      <4> HIDE DEF Has, Apart
      <4> QED
        BY <3>1, <3>2, <3>3, <3>4, <3>5
    <3>7. m \in 0 .. n
      BY <1>a
    <3> HIDE DEF Has, Apart
    <3> QED
      BY <3>6, <3>7
  <2>5. CASE m \notin K
    <3>1. Has(m) = Has(m - 1)
      BY <2>2, <2>3, <2>5
    <3>2. f[m] = f[m - 1]
      BY <1>1, <2>5
    <3> HIDE DEF Has, Apart
    <3> QED
      BY <2>1, <3>1, <3>2
  <2> QED
    BY <2>4, <2>5
<1> HIDE DEF I
<1>4. n \in I
  <2>1. \A m \in 0 .. n : m \in I
    BY <1>a, <1>2, <1>3, Upwards
  <2> QED
    BY <1>a, <2>1
<1>5. /\ f[n] \in Seq(S) /\ Range(f[n]) = Has(n) /\ (Apart => IsInjective(f[n]))
  BY <1>4 DEF I
<1> QED
  BY <1>5 DEF Picked, Differ

\* A sequence without its first element.
LEMMA FirstTaken ==
    ASSUME NEW S, NEW s \in Seq(S), IsInjective(s), s # <<>>
    PROVE  /\ Tail(s) \in Seq(S) /\ IsInjective(Tail(s)) /\ Head(s) \in S
           /\ Range(Tail(s)) = Range(s) \ {Head(s)}
<1> PICK n, r : n = Len(s) /\ r = Tail(s)
  OBVIOUS
<1>1. n \in Nat \ {0} /\ DOMAIN s = 1 .. n /\ s \in [1 .. n -> S] /\ Head(s) = s[1]
  <2>1. Len(s) \in Nat /\ DOMAIN s = 1 .. Len(s) /\ s \in [1 .. Len(s) -> S] /\ Len(s) # 0
    BY LenProperties, EmptySeq
  <2> QED
    BY <2>1, HeadTailProperties
<1>2. /\ r \in Seq(S) /\ DOMAIN r = 1 .. n - 1 /\ \A k \in 1 .. n - 1 : r[k] = s[k + 1]
  BY <1>1, HeadTailProperties, LenProperties
<1>3. \A x, y \in 1 .. n : s[x] = s[y] => x = y
  BY <1>1 DEF IsInjective
<1>4. IsInjective(r)
  <2> SUFFICES ASSUME NEW x \in 1 .. n - 1, NEW y \in 1 .. n - 1, r[x] = r[y] PROVE x = y
    BY <1>2 DEF IsInjective
  <2>1. x + 1 \in 1 .. n /\ y + 1 \in 1 .. n
    BY <1>1
  <2>2. x + 1 = y + 1
    BY <1>2, <1>3, <2>1
  <2> QED
    BY <1>1, <2>2
<1>5. \A y : y \in Range(r) <=> \E k \in 1 .. n - 1 : s[k + 1] = y
  BY <1>2 DEF Range
<1>6. \A y : y \in Range(s) <=> \E k \in 1 .. n : s[k] = y
  BY <1>1 DEF Range
<1>7. \A k \in 1 .. n : k # 1 => k - 1 \in 1 .. n - 1 /\ (k - 1) + 1 = k
  BY <1>1
<1>8. \A k \in 1 .. n - 1 : k + 1 \in 1 .. n /\ k + 1 # 1
  BY <1>1
<1>9. 1 \in 1 .. n
  BY <1>1
<1>10. \A y : y \in Range(r) <=> (y \in Range(s) /\ y # s[1])
  <2> TAKE y
  <2>1. y \in Range(r) => (y \in Range(s) /\ y # s[1])
    BY <1>3, <1>5, <1>6, <1>8, <1>9
  <2>2. ASSUME y \in Range(s), y # s[1] PROVE y \in Range(r)
    <3>1. PICK k \in 1 .. n : s[k] = y
      BY <1>6, <2>2
    <3>2. k - 1 \in 1 .. n - 1 /\ s[(k - 1) + 1] = y
      BY <1>7, <2>2, <3>1
    <3> QED
      BY <1>5, <3>2
  <2> QED
    BY <2>1, <2>2
<1>11. Range(r) = Range(s) \ {Head(s)}
  BY <1>1, <1>10
<1> QED
  BY <1>1, <1>2, <1>4, <1>11

-----------------------------------------------------------------------------
(* The world map: vector, hash and records, and the tables of watchers.    *)

\* The places for cities.
CityPlaces == {c \in Places : Block[c] = 6}
Coords == {"coord#x", "coord#y"}

\* The vector has each place for a city that is not in the hash, once; a record that is
\* not empty has a place that is the player's in the hash, and nothing under "coodrd#y".
PlacesOK(key, map, rec) ==
    /\ key \in Seq(Places) /\ IsInjective(key)
    /\ Range(key) = CityPlaces \ DOMAIN map
    /\ rec = [p \in Players |-> rec[p]]
    /\ \A p \in Players : rec[p] # <<>> =>
         /\ DOMAIN rec[p] = Coords
         /\ \E c \in Places : /\ rec[p]["coord#x"] = c[1] /\ rec[p]["coord#y"] = c[2]
                              /\ c \in DOMAIN map /\ map[c] = p

\* What is shown is in the hash.
ShownOK(info, map) == \A c \in DOMAIN info : c \in DOMAIN map /\ map[c] = info[c]

\* The tables of watchers have the same players.
WatchersOK(watching, last, areas) ==
    /\ watching \in Seq(Players) /\ IsInjective(watching)
    /\ Range(watching) = last /\ DOMAIN areas = last

WorldInv ==
    /\ PlacesOK(mapKey, worldmap, record)
    /\ ShownOK(playerInfo, worldmap)
    /\ WatchersOK(onMap, lastUpdate, seen)

\* Quotient and remainder.
LEMMA DividedBack ==
    ASSUME NEW x \in Nat, NEW y \in Nat, NEW b \in Nat, x < b
    PROVE  (b * y + x) % b = x
OBVIOUS

LEMMA Divided ==
    ASSUME NEW a \in Nat, NEW b \in Nat \ {0}
    PROVE  \E y \in Nat, x \in 0 .. b - 1 : y = a \div b /\ x = a % b /\ a = b * y + x
<1>1. a \div b \in Nat /\ b * (a \div b) <= a /\ a < b * ((a \div b) + 1)
  OBVIOUS
<1>2. PICK y, x : y = a \div b /\ x = a - b * y
  OBVIOUS
<1>3. x \in Nat /\ y \in Nat /\ x < b /\ a = b * y + x /\ x \in 0 .. b - 1
  BY <1>1, <1>2
<1>4. x = a % b
  BY <1>3, DividedBack
<1> QED
  BY <1>2, <1>3, <1>4

\* Multiplying by a natural keeps an order.
LEMMA Multiplied == ASSUME NEW a \in Nat, NEW b \in Nat, a <= b, NEW c \in Nat PROVE c * a <= c * b
OBVIOUS

\* The places row by row: each has its number.
LEMMA NumberOf ==
    ASSUME WorldMapAssumption
    PROVE  /\ \A n \in 0 .. Size * Size - 1 : PlaceAt(n) \in Places
           /\ \A n, k \in 0 .. Size * Size - 1 : PlaceAt(n) = PlaceAt(k) => n = k
           /\ \A c \in Places : \E n \in 0 .. Size * Size - 1 : PlaceAt(n) = c
<1>1. Size \in Nat \ {0} /\ Size * Size \in Nat
  BY DEF WorldMapAssumption
<1>3. ASSUME NEW n \in 0 .. Size * Size - 1 PROVE PlaceAt(n) \in Places
  <2>1. n \in Nat /\ n < Size * Size
    BY <1>1
  <2>2. PICK q \in Nat, r \in 0 .. Size - 1 : q = n \div Size /\ r = n % Size /\ n = Size * q + r
    BY <1>1, <2>1, Divided
  <2>3. PICK u, v : u = Size * q /\ v = Size * Size
    OBVIOUS
  <2>4. q < Size
    <3> SUFFICES ASSUME Size <= q PROVE FALSE
      BY <1>1
    <3>1. v <= u
      BY <1>1, <2>3, Multiplied
    <3>2. u \in Nat /\ v \in Nat /\ r \in Nat
      BY <1>1, <2>3
    <3>3. n = u + r /\ n < v
      BY <2>1, <2>2, <2>3
    <3> QED
      BY <3>1, <3>2, <3>3
  <2>5. q \in 0 .. Size - 1
    BY <1>1, <2>4
  <2>6. PlaceAt(n) = <<r, q>>
    BY <2>2 DEF PlaceAt
  <2> QED
    BY <2>5, <2>6 DEF Places
<1>4. ASSUME NEW n \in 0 .. Size * Size - 1, NEW k \in 0 .. Size * Size - 1,
             PlaceAt(n) = PlaceAt(k)
      PROVE  n = k
  <2>1. n \in Nat /\ k \in Nat
    BY <1>1
  <2>2. PICK q \in Nat, r \in 0 .. Size - 1 : q = n \div Size /\ r = n % Size /\ n = Size * q + r
    BY <1>1, <2>1, Divided
  <2>3. PICK y \in Nat, x \in 0 .. Size - 1 : y = k \div Size /\ x = k % Size /\ k = Size * y + x
    BY <1>1, <2>1, Divided
  <2>4. <<r, q>> = <<x, y>>
    BY <1>4, <2>2, <2>3 DEF PlaceAt
  <2>5. r = x /\ q = y
    BY <2>4
  <2> QED
    BY <2>2, <2>3, <2>5
<1>5. ASSUME NEW c \in Places PROVE \E n \in 0 .. Size * Size - 1 : PlaceAt(n) = c
  <2>1. PICK x \in 0 .. Size - 1, y \in 0 .. Size - 1 : c = <<x, y>>
    BY DEF Places
  <2>2. PICK n : n = Size * y + x
    OBVIOUS
  <2>3. x \in Nat /\ y \in Nat /\ n \in Nat
    BY <1>1, <2>2
  <2>4. Size * y <= Size * (Size - 1)
    BY <1>1, <2>1, <2>3, Multiplied
  <2>5. n \in 0 .. Size * Size - 1
    BY <1>1, <2>1, <2>2, <2>3, <2>4
  <2>6. n % Size = x /\ n \div Size = y
    BY <1>1, <2>1, <2>2, <2>3
  <2> QED
    BY <2>1, <2>5, <2>6 DEF PlaceAt
<1> QED
  BY <1>3, <1>4, <1>5

\* The tables that remaining_position can be.
Tables == UNION {[D -> Nat] : D \in SUBSET Places}

\* A place more, in the vector and in the table.
LEMMA PlaceAdded ==
    ASSUME NEW key \in Seq(Places), NEW rem \in Tables, NEW c \in Places,
           NEW m, m = [key |-> key, rem |-> rem]
    PROVE  /\ AddNewPositionToMap(m, c) \in [key : Seq(Places), rem : Tables]
           /\ AddNewPositionToMap(m, c).key = Append(key, c)
<1> DEFINE r == With(rem, c, Len(key) + 1)
<1>1. AddNewPositionToMap(m, c) = [key |-> Append(key, c), rem |-> r]
  BY DEF AddNewPositionToMap
<1>2. PICK D \in SUBSET Places : rem \in [D -> Nat]
  BY DEF Tables
<1>3. Len(key) + 1 \in Nat
  BY LenProperties
<1>4. r \in [D \cup {c} -> Nat]
  BY <1>2, <1>3 DEF With
<1>5. r \in Tables
  BY <1>4 DEF Tables
<1>6. Append(key, c) \in Seq(Places)
  BY AppendProperties
<1> HIDE DEF r
<1> QED
  BY <1>1, <1>5, <1>6

\* check_remaining_position finds each place for a city that is not in use, once.
LEMMA FreePlaces ==
    ASSUME WorldMapAssumption, NEW w
    PROVE  LET key == CheckRemainingPosition(w).key
           IN /\ key \in Seq(Places) /\ IsInjective(key)
              /\ Range(key) = {c \in Places : w[c] = 6}
<1> PICK n : n = Size * Size
  OBVIOUS
<1>1. n \in Nat
  BY DEF WorldMapAssumption
<1> DEFINE V == [key : Seq(Places), rem : Tables]
           none == [key |-> <<>>, rem |-> <<>>]
           next(v, k) == IF w[PlaceAt(k - 1)] = 6 THEN AddNewPositionToMap(v, PlaceAt(k - 1)) ELSE v
           g == [x \in (1 .. n) \X V |-> next(x[2], x[1])]
           Scans(s) == s = [k \in 0 .. n |-> IF k = 0 THEN none ELSE next(s[k - 1], k)]
           scan == CHOOSE s : Scans(s)
<1>2. \A k \in 1 .. n : PlaceAt(k - 1) \in Places
  BY <1>1, NumberOf
<1>3. none \in V
  <2>1. <<>> \in [{} -> Nat] /\ {} \in SUBSET Places /\ <<>> \in Seq(Places)
    OBVIOUS
  <2> QED
    BY <2>1 DEF Tables
<1>4. \A k \in 1 .. n, v \in V : next(v, k) \in V
  BY <1>2, PlaceAdded
<1>5. g \in [(1 .. n) \X V -> V] /\ \A k \in 1 .. n, v \in V : g[<<k, v>>] = next(v, k)
  BY <1>4
<1> HIDE DEF V, none, next, g
<1>6. PICK f \in [0 .. n -> V] : f[0] = none /\ \A k \in 1 .. n : f[k] = g[<<k, f[k - 1]>>]
  <2>1. PICK f : Goes(f, n, V, none, g)
    BY <1>1, <1>3, <1>5, Recursion
  <2> QED
    BY <2>1 DEF Goes
<1>7. Scans(f)
  <2>1. ASSUME NEW k \in 1 .. n PROVE f[k] = next(f[k - 1], k)
    <3>1. k - 1 \in 0 .. n
      BY <1>1
    <3>2. f[k - 1] \in V
      BY <1>6, <3>1
    <3> QED
      BY <1>5, <1>6, <3>2
  <2> QED
    BY <1>1, <1>6, <2>1
<1> HIDE DEF Scans
<1>8. Scans(scan)
  BY <1>7
<1>9. CheckRemainingPosition(w) = scan[n]
  BY DEF CheckRemainingPosition, scan, Scans, none, next
<1> HIDE DEF scan
<1>10. scan[0] = none /\ \A k \in 1 .. n : scan[k] = next(scan[k - 1], k)
  BY <1>1, <1>8 DEF Scans
<1> DEFINE Free(k) == {PlaceAt(j) : j \in {i \in 0 .. k - 1 : w[PlaceAt(i)] = 6}}
           I == {k \in 0 .. n : \E key \in Seq(Places), rem \in Tables :
                   /\ scan[k] = [key |-> key, rem |-> rem]
                   /\ IsInjective(key) /\ Range(key) = Free(k)}
<1>11. 0 \in I
  <2>1. <<>> \in Seq(Places) /\ IsInjective(<<>>) /\ Range(<<>>) = {}
    BY NothingIn
  <2>2. Free(0) = {}
    OBVIOUS
  <2>3. <<>> \in Tables
    <3>1. <<>> \in [{} -> Nat]
      OBVIOUS
    <3> QED
      BY <3>1 DEF Tables
  <2>4. scan[0] = [key |-> <<>>, rem |-> <<>>]
    BY <1>10 DEF none
  <2>5. Range(<<>>) = Free(0)
    BY <2>1, <2>2
  <2>6. \E key \in Seq(Places), rem \in Tables :
           /\ scan[0] = [key |-> key, rem |-> rem]
           /\ IsInjective(key) /\ Range(key) = Free(0)
    <3> HIDE DEF Free
    <3> QED
      BY <2>1, <2>3, <2>4, <2>5
  <2>7. 0 \in 0 .. n
    BY <1>1
  <2> HIDE DEF Free
  <2> QED
    BY <2>6, <2>7
<1>12. ASSUME NEW k \in 1 .. n, k - 1 \in I PROVE k \in I
  <2>1. PICK key \in Seq(Places), rem \in Tables :
          /\ scan[k - 1] = [key |-> key, rem |-> rem]
          /\ IsInjective(key) /\ Range(key) = Free(k - 1)
    BY <1>12
  <2>2. PICK c \in Places : c = PlaceAt(k - 1)
    BY <1>2
  <2>3. \A i \in 0 .. k - 1 : i \in 0 .. k - 1 - 1 \/ i = k - 1
    OBVIOUS
  <2>4. \A i \in 0 .. k - 1 - 1 : i \in 0 .. k - 1 /\ PlaceAt(i) # c
    BY <1>1, <2>2, NumberOf
  <2>5. k - 1 \in 0 .. k - 1
    OBVIOUS
  <2>6. CASE w[c] = 6
    <3>1. Free(k) = Free(k - 1) \cup {c}
      BY <2>2, <2>3, <2>4, <2>5, <2>6
    <3>2. c \notin Free(k - 1)
      BY <2>4
    <3>a. IsInjective(key) /\ Range(key) = Free(k - 1) /\ key \in Seq(Places)
      BY <2>1
    <3>3. PICK m : m = AddNewPositionToMap(scan[k - 1], c)
      OBVIOUS
    <3>4. m \in [key : Seq(Places), rem : Tables] /\ m.key = Append(key, c)
      BY <2>1, <3>3, PlaceAdded
    <3>5. IsInjective(m.key) /\ Range(m.key) = Range(key) \cup {c}
      <4>1. c \notin Range(key)
        BY <3>a, <3>2
      <4>2. PICK t : t = Append(key, c)
        OBVIOUS
      <4> HIDE DEF Free
      <4>3. IsInjective(t) /\ Range(t) = Range(key) \cup {c}
        BY <3>a, <4>1, <4>2, OneMore
      <4> QED
        BY <3>4, <4>2, <4>3
    <3>6. scan[k] = m
      BY <1>10, <2>2, <2>6, <3>3 DEF next
    <3>7. m = [key |-> m.key, rem |-> m.rem] /\ m.key \in Seq(Places) /\ m.rem \in Tables
      BY <3>4
    <3>8. Range(m.key) = Free(k)
      BY <2>1, <3>1, <3>5
    <3>9. k \in 0 .. n
      BY <1>1
    <3> HIDE DEF Free
    <3> QED
      BY <3>5, <3>6, <3>7, <3>8, <3>9
  <2>7. CASE w[c] # 6
    <3>1. Free(k) = Free(k - 1)
      BY <2>2, <2>3, <2>4, <2>7
    <3>2. scan[k] = scan[k - 1]
      BY <1>10, <2>2, <2>7 DEF next
    <3> HIDE DEF Free
    <3> QED
      BY <2>1, <3>1, <3>2
  <2> QED
    BY <2>6, <2>7
<1> HIDE DEF I
<1>13. n \in I
  <2>1. \A k \in 0 .. n : k \in I
    BY <1>1, <1>11, <1>12, Upwards
  <2> QED
    BY <1>1, <2>1
<1>14. Free(n) = {c \in Places : w[c] = 6}
  <2>1. \A i \in 0 .. n - 1 : PlaceAt(i) \in Places
    BY <1>1, NumberOf
  <2>2. \A c \in Places : \E i \in 0 .. n - 1 : PlaceAt(i) = c
    BY <1>1, NumberOf
  <2>3. \A c \in Free(n) : c \in Places /\ w[c] = 6
    BY <2>1
  <2>4. \A c \in Places : w[c] = 6 => c \in Free(n)
    BY <2>2
  <2> HIDE DEF Free
  <2> QED
    BY <2>3, <2>4
<1>15. PICK key \in Seq(Places), rem \in Tables :
         scan[n] = [key |-> key, rem |-> rem] /\ IsInjective(key) /\ Range(key) = Free(n)
  BY <1>13 DEF I
<1>16. CheckRemainingPosition(w).key = key
  BY <1>9, <1>15
<1> HIDE DEF Free
<1> QED
  BY <1>14, <1>15, <1>16

\* A player whose record has no "coodrd#y" has no place that can be read.
LEMMA NotRead ==
    ASSUME NEW p \in Players, PlacesOK(mapKey, worldmap, record)
    PROVE  GetPlayerWorldinfo(p) = NoPlayer
<1>1. DOMAIN <<>> = {}
  BY NothingIn
<1>2. DOMAIN record[p] \subseteq Coords
  BY <1>1 DEF PlacesOK
<1> QED
  BY <1>2 DEF GetPlayerWorldinfo, Coords

\* A place that is drawn leaves the vector.
LEMMA Drawn ==
    ASSUME NEW m, m.key \in Seq(Places), IsInjective(m.key), NEW i \in 1 .. Len(m.key)
    PROVE  /\ Draw(m, i).key \in Seq(Places) /\ IsInjective(Draw(m, i).key)
           /\ Range(Draw(m, i).key) = Range(m.key) \ {m.key[i]}
<1> PICK key, r : key = m.key /\ r = Draw(m, i).key
  OBVIOUS
<1>1. key \in Seq(Places) /\ IsInjective(key) /\ i \in 1 .. Len(key)
  OBVIOUS
<1>2. CASE Len(key) = 1
  <2>1. r = <<>>
    BY <1>2 DEF Draw
  <2>2. i = 1 /\ DOMAIN key = {1}
    BY <1>1, <1>2, LenProperties
  <2>3. Range(key) = {key[i]}
    BY <2>2 DEF Range
  <2>4. <<>> \in Seq(Places) /\ IsInjective(<<>>) /\ Range(<<>>) = {}
    BY NothingIn
  <2> QED
    BY <2>1, <2>3, <2>4
<1>3. CASE Len(key) # 1
  <2>1. r = SwapRemove(key, i)
    BY <1>3 DEF Draw
  <2> QED
    BY <1>1, <2>1, OneLess
<1> QED
  BY <1>2, <1>3

\* The records after add_new_player.
Recorded(rec, p, c) == [rec EXCEPT ![p] = Record(rec[p], c)]

\* A city in a place that was free, in vector, hash, record and what is shown.
LEMMA Settled ==
    ASSUME NEW key, NEW map, NEW rec, NEW info, PlacesOK(key, map, rec), ShownOK(info, map),
           NEW p \in Players, NEW i \in 1 .. Len(key), NEW c, c = key[i],
           NEW key2, key2 \in Seq(Places), IsInjective(key2), Range(key2) = Range(key) \ {c},
           NEW map2, map2 = With(map, c, p),
           NEW rec2, rec2 = Recorded(rec, p, c),
           NEW info2, info2 = With(info, c, p)
    PROVE  /\ c \in Places /\ c \notin DOMAIN map
           /\ PlacesOK(key2, map2, rec2)
           /\ ShownOK(info, map2) /\ ShownOK(info2, map2)
<1>1. c \in Places /\ c \in Range(key)
  <2>1. DOMAIN key = 1 .. Len(key) /\ key \in [1 .. Len(key) -> Places]
    BY LenProperties DEF PlacesOK
  <2> QED
    BY <2>1 DEF Range
<1>2. c \notin DOMAIN map
  BY <1>1 DEF PlacesOK
<1>3. /\ DOMAIN map2 = DOMAIN map \cup {c} /\ map2[c] = p
      /\ \A d \in DOMAIN map : map2[d] = map[d]
  BY <1>2 DEF With
<1>4. Range(key2) = CityPlaces \ DOMAIN map2
  BY <1>3 DEF PlacesOK
<1>5. rec2 = [q \in Players |-> rec2[q]] /\ \A q \in Players : q # p => rec2[q] = rec[q]
  BY DEF PlacesOK, Recorded
<1>6. rec2[p] = Record(rec[p], c)
  BY DEF PlacesOK, Recorded
<1>7. DOMAIN rec[p] \subseteq Coords
  <2>1. DOMAIN <<>> = {}
    BY NothingIn
  <2> QED
    BY <2>1 DEF PlacesOK
<1>8. DOMAIN rec2[p] = Coords /\ rec2[p]["coord#x"] = c[1] /\ rec2[p]["coord#y"] = c[2]
  BY <1>6, <1>7 DEF Record, With, Coords
<1>9. ASSUME NEW q \in Players, rec2[q] # <<>>
      PROVE  /\ DOMAIN rec2[q] = Coords
             /\ \E d \in Places : /\ rec2[q]["coord#x"] = d[1] /\ rec2[q]["coord#y"] = d[2]
                                  /\ d \in DOMAIN map2 /\ map2[d] = q
  <2>1. CASE q = p
    BY <1>1, <1>3, <1>8, <2>1
  <2>2. CASE q # p
    <3>1. rec2[q] = rec[q]
      BY <1>5, <2>2
    <3>2. DOMAIN rec[q] = Coords
      BY <1>9, <3>1 DEF PlacesOK
    <3>3. PICK d \in Places : /\ rec[q]["coord#x"] = d[1] /\ rec[q]["coord#y"] = d[2]
                              /\ d \in DOMAIN map /\ map[d] = q
      BY <1>9, <3>1 DEF PlacesOK
    <3> QED
      BY <1>3, <3>1, <3>2, <3>3
  <2> QED
    BY <2>1, <2>2
<1>10. PlacesOK(key2, map2, rec2)
  BY <1>4, <1>5, <1>9 DEF PlacesOK
<1>11. ShownOK(info, map2)
  BY <1>3 DEF ShownOK
<1>12. ShownOK(info2, map2)
  <2>1. \A d \in DOMAIN info2 : d = c \/ (d \in DOMAIN info /\ info2[d] = info[d])
    BY DEF With
  <2>2. info2[c] = p
    BY DEF With
  <2> QED
    BY <1>3, <1>11, <2>1, <2>2 DEF ShownOK
<1> QED
  BY <1>1, <1>2, <1>10, <1>11, <1>12

\* A restarted worker finds the places that are not in the hash.
LEMMA Rebuilt ==
    ASSUME WorldMapAssumption, NEW key, NEW map, NEW rec, PlacesOK(key, map, rec),
           NEW hash, DOMAIN map \subseteq DOMAIN hash, \A c \in DOMAIN map : hash[c] = map[c],
           NEW key2, key2 = CheckRemainingPosition(WordMapPlayerInit(hash)).key
    PROVE  PlacesOK(key2, hash, rec)
<1>1. PICK w : w = WordMapPlayerInit(hash)
  OBVIOUS
<1>2. key2 \in Seq(Places) /\ IsInjective(key2) /\ Range(key2) = {c \in Places : w[c] = 6}
  BY <1>1, FreePlaces
<1>3. \A c \in Places : w[c] = 6 <=> (Block[c] = 6 /\ c \notin DOMAIN hash)
  BY <1>1 DEF WordMapPlayerInit, Used
<1>4. Range(key2) = CityPlaces \ DOMAIN hash
  BY <1>2, <1>3 DEF CityPlaces
<1>5. ASSUME NEW p \in Players, rec[p] # <<>>
      PROVE  /\ DOMAIN rec[p] = Coords
             /\ \E c \in Places : /\ rec[p]["coord#x"] = c[1] /\ rec[p]["coord#y"] = c[2]
                                  /\ c \in DOMAIN hash /\ hash[c] = p
  BY <1>5 DEF PlacesOK
<1>6. rec = [p \in Players |-> rec[p]]
  BY DEF PlacesOK
<1> QED
  BY <1>2, <1>4, <1>5, <1>6 DEF PlacesOK

\* The worker starts with nobody on the map.
LEMMA WorldInitially == WorldInit => WorldInv
<1> SUFFICES ASSUME WorldInit PROVE WorldInv
  OBVIOUS
<1>1. mapKey = CheckRemainingPosition(WordMapPlayerInit(<<>>)).key
  BY DEF WorldInit
<1>2. /\ worldmap = <<>> /\ playerInfo = <<>> /\ record = [p \in Players |-> <<>>]
      /\ lastUpdate = {} /\ onMap = <<>> /\ seen = <<>>
  BY DEF WorldInit
<1>3. DOMAIN <<>> = {} /\ Range(<<>>) = {} /\ <<>> \in Seq(Players) /\ IsInjective(<<>>)
  BY NothingIn
<1>4. PICK w : w = WordMapPlayerInit(<<>>)
  OBVIOUS
<1>5. \A c \in Places : w[c] = 6 <=> Block[c] = 6
  BY <1>3, <1>4 DEF WordMapPlayerInit, Used
<1>6. /\ mapKey \in Seq(Places) /\ IsInjective(mapKey)
      /\ Range(mapKey) = {c \in Places : w[c] = 6}
  BY <1>1, <1>4, WorldMapAssumption, FreePlaces
<1>7. Range(mapKey) = CityPlaces \ DOMAIN worldmap
  BY <1>2, <1>3, <1>5, <1>6 DEF CityPlaces
<1>8. PlacesOK(mapKey, worldmap, record)
  BY <1>2, <1>6, <1>7 DEF PlacesOK
<1>9. ShownOK(playerInfo, worldmap)
  BY <1>2, <1>3 DEF ShownOK
<1>10. WatchersOK(onMap, lastUpdate, seen)
  BY <1>2, <1>3 DEF WatchersOK
<1> QED
  BY <1>8, <1>9, <1>10 DEF WorldInv

\* A player who is given a place that was free, shown or not.
LEMMA PlaceGiven ==
    ASSUME WorldInv, NEW p \in Players, NEW c \in Places,
           GetRangePosition(p, c), AddNewPlayer(p, c)
    PROVE  /\ PlacesOK(mapKey', worldmap', record')
           /\ ShownOK(playerInfo, worldmap') /\ ShownOK(With(playerInfo, c, p), worldmap')
<1>1. GetPlayerWorldinfo(p) = NoPlayer
  BY NotRead DEF WorldInv
<1>2. PICK m : m = [key |-> mapKey, rem |-> remaining]
  OBVIOUS
<1>3. Freed(p) = m
  BY <1>1, <1>2 DEF Freed
<1>4. PICK i \in 1 .. Len(m.key) : c = m.key[i] /\ mapKey' = Draw(m, i).key
  BY <1>3 DEF GetRangePosition
<1>5. i \in 1 .. Len(mapKey) /\ c = mapKey[i]
  BY <1>2, <1>4
<1>6. mapKey \in Seq(Places) /\ IsInjective(mapKey)
  BY DEF WorldInv, PlacesOK
<1>7. PICK key2 : key2 = mapKey'
  OBVIOUS
<1>8. key2 \in Seq(Places) /\ IsInjective(key2) /\ Range(key2) = Range(mapKey) \ {c}
  <2>1. m.key \in Seq(Places) /\ IsInjective(m.key)
    BY <1>2, <1>6
  <2>2. Draw(m, i).key = key2 /\ m.key = mapKey /\ m.key[i] = c
    BY <1>2, <1>4, <1>7
  <2> QED
    BY <2>1, <2>2, Drawn
<1>9. PICK map2 : map2 = worldmap'
  OBVIOUS
<1>10. PICK rec2 : rec2 = record'
  OBVIOUS
<1>11. map2 = With(worldmap, c, p)
  BY <1>1, <1>9 DEF AddNewPlayer, Entered
<1>12. rec2 = Recorded(record, p, c)
  BY <1>10 DEF AddNewPlayer, Recorded
<1>13. PlacesOK(mapKey, worldmap, record) /\ ShownOK(playerInfo, worldmap)
  BY DEF WorldInv
<1>14. /\ PlacesOK(key2, map2, rec2)
       /\ ShownOK(playerInfo, map2) /\ ShownOK(With(playerInfo, c, p), map2)
  <2>1. PICK key, map, rec, info : /\ key = mapKey /\ map = worldmap
                                   /\ rec = record /\ info = playerInfo
    OBVIOUS
  <2>a. PICK info2 : info2 = With(info, c, p)
    OBVIOUS
  <2>2. /\ PlacesOK(key, map, rec) /\ ShownOK(info, map)
        /\ i \in 1 .. Len(key) /\ c = key[i]
        /\ key2 \in Seq(Places) /\ IsInjective(key2) /\ Range(key2) = Range(key) \ {c}
        /\ map2 = With(map, c, p) /\ rec2 = Recorded(rec, p, c) /\ info2 = With(info, c, p)
    BY <1>5, <1>8, <1>11, <1>12, <1>13, <2>1, <2>a
  <2>3. /\ PlacesOK(key2, map2, rec2)
        /\ ShownOK(info, map2) /\ ShownOK(info2, map2)
    BY <2>2, Settled
  <2> QED
    BY <2>1, <2>a, <2>3
<1> QED
  BY <1>7, <1>9, <1>10, <1>14

\* A worker that is started again on a hash with at least the cities it had.
LEMMA StartedAgain ==
    ASSUME WorldMapAssumption, WorldInv, NEW hash, DOMAIN worldmap \subseteq DOMAIN hash,
           \A c \in DOMAIN worldmap : hash[c] = worldmap[c],
           Construct(hash), worldmap' = hash, record' = record
    PROVE  WorldInv'
<1>1. PICK key2 : key2 = mapKey'
  OBVIOUS
<1>2. key2 = CheckRemainingPosition(WordMapPlayerInit(hash)).key
  BY <1>1 DEF Construct
<1>3. PlacesOK(mapKey, worldmap, record)
  BY DEF WorldInv
<1>4. PlacesOK(key2, hash, record)
  BY <1>2, <1>3, Rebuilt
<1>5. playerInfo' = hash /\ onMap' = <<>> /\ seen' = <<>> /\ lastUpdate' = {}
  BY DEF Construct
<1>6. ShownOK(hash, hash)
  BY DEF ShownOK
<1>7. DOMAIN <<>> = {} /\ Range(<<>>) = {} /\ <<>> \in Seq(Players) /\ IsInjective(<<>>)
  BY NothingIn
<1>8. WatchersOK(<<>>, {}, <<>>)
  BY <1>7 DEF WatchersOK
<1> QED
  BY <1>1, <1>4, <1>5, <1>6, <1>8 DEF WorldInv

\* A player who looks at the map is entered in the tables once.
LEMMA Watching ==
    ASSUME WorldInv, NEW p \in Players, NEW a \in Areas, WorldMapNearBy(p, a)
    PROVE  WatchersOK(onMap', lastUpdate', seen')
<1>1. onMap \in Seq(Players) /\ IsInjective(onMap) /\ Range(onMap) = lastUpdate /\ DOMAIN seen = lastUpdate
  BY DEF WorldInv, WatchersOK
<1>2. CASE p \in lastUpdate
  <2>1. /\ onMap' = onMap /\ lastUpdate' = lastUpdate
        /\ seen' = [seen EXCEPT ![p] = @ \cup Around(a)]
    BY <1>2 DEF WorldMapNearBy
  <2>2. DOMAIN seen' = lastUpdate'
    BY <1>1, <2>1
  <2> QED
    BY <1>1, <2>1, <2>2 DEF WatchersOK
<1>3. CASE p \notin lastUpdate
  <2>1. /\ onMap' = Append(onMap, p) /\ lastUpdate' = lastUpdate \cup {p}
        /\ seen' = With(seen, p, Around(a))
    BY <1>3 DEF WorldMapNearBy
  <2>2. PICK s : s = onMap'
    OBVIOUS
  <2>3. s \in Seq(Players) /\ IsInjective(s) /\ Range(s) = Range(onMap) \cup {p}
    <3>1. PICK t \in Seq(Players) : t = onMap
      BY <1>1
    <3>2. IsInjective(t) /\ p \notin Range(t) /\ s = Append(t, p)
      BY <1>1, <1>3, <2>1, <2>2, <3>1
    <3>3. s \in Seq(Players) /\ IsInjective(s) /\ Range(s) = Range(t) \cup {p}
      BY <3>2, OneMore
    <3> QED
      BY <3>1, <3>3
  <2>4. DOMAIN seen' = lastUpdate'
    BY <1>1, <2>1 DEF With
  <2> QED
    BY <1>1, <2>1, <2>2, <2>3, <2>4 DEF WatchersOK
<1> QED
  BY <1>2, <1>3

\* A player who leaves is taken out of them.
LEMMA Leaving ==
    ASSUME WorldInv, NEW p \in Players, LeaveWordMap(p)
    PROVE  WatchersOK(onMap', lastUpdate', seen')
<1>1. onMap \in Seq(Players) /\ IsInjective(onMap) /\ Range(onMap) = lastUpdate /\ DOMAIN seen = lastUpdate
  BY DEF WorldInv, WatchersOK
<1>2. lastUpdate' = lastUpdate \ {p} /\ seen' = Without(seen, p)
  BY DEF LeaveWordMap
<1>3. DOMAIN seen' = lastUpdate'
  BY <1>1, <1>2 DEF Without, Restrict
<1>4. CASE p \in Range(onMap)
  <2> DEFINE At == {i \in 1 .. Len(onMap) : onMap[i] = p}
  <2>1. At \in SUBSET Nat /\ At # {}
    <3>1. DOMAIN onMap = 1 .. Len(onMap) /\ Len(onMap) \in Nat
      BY <1>1, LenProperties
    <3> QED
      BY <1>4, <3>1 DEF Range
  <2>2. \E x \in At : \A y \in At : x <= y
    BY <2>1, LeastElement
  <2>3. PICK i : i = FirstIndex(p)
    OBVIOUS
  <2>4. i \in At
    BY <2>2, <2>3 DEF FirstIndex, Min
  <2>5. PICK s : s = onMap'
    OBVIOUS
  <2>6. s = SwapRemove(onMap, i)
    BY <1>4, <2>3, <2>5 DEF LeaveWordMap
  <2>7. i \in 1 .. Len(onMap) /\ onMap[i] = p
    BY <2>4
  <2>8. s \in Seq(Players) /\ IsInjective(s) /\ Range(s) = Range(onMap) \ {p}
    BY <1>1, <2>6, <2>7, OneLess
  <2> QED
    BY <1>1, <1>2, <1>3, <2>5, <2>8 DEF WatchersOK
<1>5. CASE p \notin Range(onMap)
  <2>1. onMap' = onMap /\ lastUpdate' = lastUpdate
    BY <1>1, <1>2, <1>5 DEF LeaveWordMap
  <2> QED
    BY <1>1, <1>3, <2>1 DEF WatchersOK
<1> QED
  BY <1>4, <1>5

\* What a step leaves alone.
LEMMA WorldStays ==
    ASSUME WorldInv, UNCHANGED <<mapKey, worldmap, record, playerInfo>>,
           WatchersOK(onMap', lastUpdate', seen')
    PROVE  WorldInv'
BY DEF WorldInv

\* A city that is given a place leaves the watchers.
LEMMA CityStep ==
    ASSUME WorldInv, PlacesOK(mapKey', worldmap', record'), ShownOK(playerInfo', worldmap'),
           UNCHANGED watchers
    PROVE  WorldInv'
BY DEF WorldInv, watchers

\* Each step keeps the invariant.
LEMMA WorldStep == WorldInv /\ [WorldNext]_worldVars => WorldInv'
<1> SUFFICES ASSUME WorldInv, [WorldNext]_worldVars PROVE WorldInv'
  OBVIOUS
<1>a. WatchersOK(onMap, lastUpdate, seen)
  BY DEF WorldInv
<1>1. ASSUME NEW p \in Players, RandomNewMap(p) PROVE WorldInv'
  <2>1. PICK c \in Places : /\ GetRangePosition(p, c) /\ AddNewPlayer(p, c)
                            /\ playerInfo' = With(playerInfo, c, p)
    BY <1>1 DEF RandomNewMap
  <2>2. UNCHANGED watchers
    BY <1>1 DEF RandomNewMap
  <2>3. PlacesOK(mapKey', worldmap', record') /\ ShownOK(playerInfo', worldmap')
    BY <2>1, PlaceGiven
  <2> QED
    BY <2>2, <2>3, CityStep
<1>2. ASSUME NEW p \in Players, RandomMoveCity(p) PROVE WorldInv'
  <2>1. PICK c \in Places : GetRangePosition(p, c) /\ AddNewPlayer(p, c)
    BY <1>2 DEF RandomMoveCity
  <2>2. UNCHANGED watchers /\ playerInfo' = playerInfo
    BY <1>2 DEF RandomMoveCity
  <2>3. PlacesOK(mapKey', worldmap', record') /\ ShownOK(playerInfo', worldmap')
    BY <2>1, <2>2, PlaceGiven
  <2> QED
    BY <2>2, <2>3, CityStep
<1>3. ASSUME NEW p \in Players, NoPlaceLeft(p) PROVE WorldInv'
  BY <1>3, <1>a, WorldStays DEF NoPlaceLeft, free, watchers
<1>4. ASSUME NEW p \in Players, NEW c \in Places, SettleMoveCity(p, c) PROVE WorldInv'
  <2>1. GetPlayerWorldinfo(p) = NoPlayer
    BY NotRead DEF WorldInv
  <2>2. UNCHANGED <<mapKey, worldmap, record, playerInfo>> /\ UNCHANGED watchers
    BY <1>4, <2>1 DEF SettleMoveCity, free
  <2> QED
    BY <1>a, <2>2, WorldStays DEF watchers
<1>5. ASSUME NEW p \in Players, NEW c \in Places, CrashInAddNewPlayer(p, c) PROVE WorldInv'
  <2>1. GetPlayerWorldinfo(p) = NoPlayer
    BY NotRead DEF WorldInv
  <2>2. Freed(p).key = mapKey
    BY <2>1 DEF Freed
  <2>3. c \in Range(mapKey)
    BY <1>5, <2>2 DEF CrashInAddNewPlayer
  <2>4. c \notin DOMAIN worldmap
    BY <2>3 DEF WorldInv, PlacesOK
  <2>5. PICK hash : hash = With(worldmap, c, p)
    OBVIOUS
  <2>6. worldmap' = hash /\ record' = record
    BY <1>5, <2>1, <2>5 DEF CrashInAddNewPlayer, Entered
  <2>7. Construct(hash)
    BY <1>5, <2>6 DEF CrashInAddNewPlayer, Construct
  <2>8. DOMAIN worldmap \subseteq DOMAIN hash /\ \A d \in DOMAIN worldmap : hash[d] = worldmap[d]
    BY <2>4, <2>5 DEF With
  <2> QED
    BY <2>6, <2>7, <2>8, WorldMapAssumption, StartedAgain
<1>6. ASSUME NEW p \in Players, NEW a \in Areas, WorldMapNearBy(p, a) PROVE WorldInv'
  <2>1. WatchersOK(onMap', lastUpdate', seen')
    BY <1>6, Watching
  <2>2. UNCHANGED <<mapKey, worldmap, record, playerInfo>>
    BY <1>6 DEF WorldMapNearBy, free
  <2> QED
    BY <2>1, <2>2, WorldStays
<1>7. ASSUME NEW p \in Players, LeaveWordMap(p) PROVE WorldInv'
  <2>1. WatchersOK(onMap', lastUpdate', seen')
    BY <1>7, Leaving
  <2>2. UNCHANGED <<mapKey, worldmap, record, playerInfo>>
    BY <1>7 DEF LeaveWordMap, free
  <2> QED
    BY <2>1, <2>2, WorldStays
<1>8. ASSUME NEW p \in Players, GetSomePlayer(p) PROVE WorldInv'
  BY <1>8, <1>a, WorldStays DEF GetSomePlayer, free, watchers
<1>9. ASSUME Restart PROVE WorldInv'
  <2>1. Construct(worldmap) /\ worldmap' = worldmap /\ record' = record
    BY <1>9 DEF Restart
  <2>2. PICK hash : hash = worldmap
    OBVIOUS
  <2> QED
    BY <2>1, <2>2, WorldMapAssumption, StartedAgain
<1>10. ASSUME UpdateResource PROVE WorldInv'
  BY <1>10, <1>a, WorldStays DEF UpdateResource, free, watchers
<1>11. ASSUME UNCHANGED worldVars PROVE WorldInv'
  BY <1>11, <1>a, WorldStays DEF worldVars
<1> QED
  BY <1>1, <1>2, <1>3, <1>4, <1>5, <1>6, <1>7, <1>8, <1>9, <1>10, <1>11 DEF WorldNext

\* The invariant of the world map.
LEMMA WorldAlways == WorldSpec => []WorldInv
<1> QED
  BY WorldInitially, WorldStep, PTL DEF WorldSpec

-----------------------------------------------------------------------------
\* PlacesAgree, for every map and any number of players: whatever requests, timers
\* and restarts come, and wherever a crash falls between the writes of
\* add_new_player, a place for a city is free or somebody's, never both, and what
\* the player's record says is his in the hash.
THEOREM PlacesKept == WorldSpec => []PlacesAgree
<1>1. WorldInv => PlacesAgree
  <2> SUFFICES ASSUME WorldInv PROVE PlacesAgree
    OBVIOUS
  <2>1. PlacesOK(mapKey, worldmap, record)
    BY DEF WorldInv
  <2>2. IsInjective(mapKey)
    BY <2>1 DEF PlacesOK
  <2>3. \A c \in Places : Block[c] = 6 => ((c \in Range(mapKey)) # (c \in DOMAIN worldmap))
    <3>1. Range(mapKey) = CityPlaces \ DOMAIN worldmap
      BY <2>1 DEF PlacesOK
    <3>2. \A c \in Places : Block[c] = 6 => (c \in Range(mapKey) <=> c \notin DOMAIN worldmap)
      BY <3>1 DEF CityPlaces
    <3> QED
      BY <3>2
  <2>4. ASSUME NEW p \in Players, PlaceOf(p) # NoPlayer
        PROVE  PlaceOf(p) \in DOMAIN worldmap /\ worldmap[PlaceOf(p)] = p
    <3>1. record[p] # <<>>
      BY <2>4 DEF PlaceOf
    <3>2. PICK c \in Places : /\ record[p]["coord#x"] = c[1] /\ record[p]["coord#y"] = c[2]
                              /\ c \in DOMAIN worldmap /\ worldmap[c] = p
      BY <2>1, <3>1 DEF PlacesOK
    <3>3. <<c[1], c[2]>> = c
      BY DEF Places
    <3>4. PlaceOf(p) = c
      BY <3>1, <3>2, <3>3 DEF PlaceOf
    <3> QED
      BY <3>2, <3>4
  <2>5. \A c \in DOMAIN playerInfo : c \in DOMAIN worldmap /\ worldmap[c] = playerInfo[c]
    BY DEF WorldInv, ShownOK
  <2> QED
    BY <2>2, <2>3, <2>4, <2>5 DEF PlacesAgree
<1> QED
  BY <1>1, WorldAlways, PTL

\* WatchersAgree: the three tables of watchers hold the same players, each once.
THEOREM WatchersKept == WorldSpec => []WatchersAgree
<1>1. WorldInv => WatchersAgree
  <2> SUFFICES ASSUME WorldInv PROVE WatchersAgree
    OBVIOUS
  <2>1. /\ onMap \in Seq(Players) /\ IsInjective(onMap)
        /\ Range(onMap) = lastUpdate /\ DOMAIN seen = lastUpdate
    BY DEF WorldInv, WatchersOK
  <2>2. Cardinality(Range(onMap)) = Len(onMap)
    BY <2>1, AsLong
  <2> QED
    BY <2>1, <2>2 DEF WatchersAgree
<1> QED
  BY <1>1, WorldAlways, PTL

-----------------------------------------------------------------------------
(* Accounts, nicknames and the slots of chat.                              *)

\* Tables and their values.
AccountTypes ==
    /\ users \in Seq(Nat \cup Emails) /\ Len(users) <= MaxAccounts
    /\ nickname \in [Nicks -> Uids \cup {NoOne}] /\ nameOf \in [Uids -> Nicks \cup {NoNick}]
    /\ proposals \in [{"boy", "girl"} -> SUBSET Nicks]
    /\ conn \in [Conns -> [open : BOOLEAN, uuid : Uids, logged : BOOLEAN,
                           last : Nicks \cup {NoNick}]]
ChatTypes ==
    /\ remain \in Seq(Indices) /\ IsInjective(remain)
    /\ indexOf \in [Uids -> Indices \cup {NoOne}]
    /\ slot \in [Indices -> [here : BOOLEAN, uuid : Uids \cup {NoOne},
                             name : Nicks \cup {NoNick}]]

\* The name in a player's record leads to the player.
RecordsLead == \A p \in Uids : Leads(nameOf[p], p)

\* A player's index is nobody else's, and the name kept with it leads to the player.
SlotsLead ==
    \A p \in Uids : indexOf[p] # NoOne =>
        /\ indexOf[p] \in Indices /\ indexOf[p] \notin Range(remain)
        /\ slot[indexOf[p]].here /\ slot[indexOf[p]].uuid = p
        /\ Leads(slot[indexOf[p]].name, p)

\* An account has its number as user name, or an address nobody else has.
NamesDiffer ==
    /\ \A i \in DOMAIN users : users[i] = i \/ users[i] \in Emails
    /\ IsInjective(users)

\* A name is proposed to one sex, and no more once a client has it.
Proposed ==
    /\ proposals["boy"] \cap proposals["girl"] = {}
    /\ \A c \in Conns : conn[c].last # NoNick =>
         /\ conn[c].last \notin proposals["boy"] \cup proposals["girl"]
         /\ \A d \in Conns : c # d => conn[c].last # conn[d].last

AccountsInv ==
    AccountTypes /\ ChatTypes /\ RecordsLead /\ SlotsLead /\ NamesDiffer /\ Proposed

\* A name that leads to somebody leads to the player as long as the gateway's database.
NamesStay == \A n \in Nicks : nickname[n] # NoOne => nickname'[n] = nickname[n]

\* set_user_name makes a name lead that led to nobody.
LEMMA NameSet ==
    ASSUME AccountsAssumption, AccountTypes, RecordsLead, NEW p \in Uids, NEW n \in Nicks \cup {Spaced},
           SetUserName(p, n)
    PROVE  /\ nickname' \in [Nicks -> Uids \cup {NoOne}] /\ nameOf' \in [Uids -> Nicks \cup {NoNick}]
           /\ NamesStay /\ RecordsLead'
           /\ MaySet(n) => n \in Nicks /\ nickname'[n] = p
<1>1. NoOne \notin Uids
  BY DEF AccountsAssumption, Uids
<1>2. CASE MaySet(n)
  <2>1. /\ nickname' = [nickname EXCEPT ![n] = p] /\ nameOf' = [nameOf EXCEPT ![p] = n]
    BY <1>2 DEF SetUserName
  <2>2. n \in Nicks /\ nickname[n] = NoOne
    BY <1>2 DEF MaySet, FindUserUuid
  <2>3. NamesStay /\ nickname'[n] = p
    BY <2>1, <2>2 DEF NamesStay, AccountTypes
  <2>4. /\ nickname' \in [Nicks -> Uids \cup {NoOne}] /\ nameOf' \in [Uids -> Nicks \cup {NoNick}]
    BY <2>1, <2>2 DEF AccountTypes
  <2>5. ASSUME NEW q \in Uids, nameOf'[q] \in Nicks PROVE nickname'[nameOf'[q]] = q
    <3>1. CASE q = p
      BY <2>1, <2>3, <3>1 DEF AccountTypes
    <3>2. CASE q # p
      <4>1. nameOf'[q] = nameOf[q]
        BY <2>1, <3>2 DEF AccountTypes
      <4>2. nickname[nameOf[q]] = q
        BY <2>5, <4>1 DEF RecordsLead, Leads
      <4> QED
        BY <1>1, <2>3, <2>5, <4>1, <4>2 DEF NamesStay
    <3> QED
      BY <3>1, <3>2
  <2> QED
    BY <2>2, <2>3, <2>4, <2>5 DEF RecordsLead, Leads
<1>3. CASE ~MaySet(n)
  <2>1. nickname' = nickname /\ nameOf' = nameOf
    BY <1>3 DEF SetUserName
  <2> QED
    BY <1>3, <2>1 DEF AccountTypes, NamesStay, RecordsLead, Leads
<1> QED
  BY <1>2, <1>3

\* The slots lead on when names stay.
LEMMA SlotsStay ==
    ASSUME AccountsAssumption, SlotsLead, ChatTypes, NamesStay, UNCHANGED <<remain, indexOf, slot>>
    PROVE  SlotsLead'
<1>1. NoOne \notin Uids
  BY DEF AccountsAssumption, Uids
<1>2. \A p \in Uids : \A n : Leads(n, p) => Leads(n, p)'
  BY <1>1 DEF Leads, NamesStay
<1> QED
  BY <1>2 DEF SlotsLead, ChatTypes, Leads, NamesStay

\* A player comes: he gets an index nobody has, or none.
LEMMA Coming ==
    ASSUME AccountsAssumption, SlotsLead, ChatTypes, NamesStay,
           NEW p \in Uids, NEW name \in Nicks \cup {NoNick}, name \in Nicks => nickname'[name] = p,
           OnlineNotify(p, name)
    PROVE  ChatTypes' /\ SlotsLead'
<1>1. NoOne \notin Uids /\ NoOne \notin Indices
  BY DEF AccountsAssumption, Uids, Indices
<1>2. CASE remain = <<>>
  <2>1. UNCHANGED <<remain, indexOf, slot>>
    BY <1>2 DEF OnlineNotify
  <2> QED
    BY <2>1, SlotsStay DEF ChatTypes
<1>3. CASE remain # <<>>
  <2>1. PICK i, s : i = Last(remain) /\ s = Front(remain)
    OBVIOUS
  <2>2. /\ remain' = s /\ indexOf' = [indexOf EXCEPT ![p] = i]
        /\ slot' = [slot EXCEPT ![i] = [here |-> TRUE, uuid |-> p, name |-> name]]
    BY <1>3, <2>1 DEF OnlineNotify
  <2>3. s \in Seq(Indices) /\ IsInjective(s) /\ Range(s) = Range(remain) \ {i} /\ i \in Indices
    BY <1>3, <2>1, LastTaken DEF ChatTypes
  <2>4. i \in Range(remain)
    BY <1>3, <2>1, LastTaken DEF ChatTypes
  <2>5. ChatTypes'
    BY <2>2, <2>3 DEF ChatTypes
  <2>6. ASSUME NEW q \in Uids, indexOf'[q] # NoOne
        PROVE  /\ indexOf'[q] \in Indices /\ indexOf'[q] \notin Range(remain')
               /\ slot'[indexOf'[q]].here /\ slot'[indexOf'[q]].uuid = q
               /\ slot'[indexOf'[q]].name \in Nicks => nickname'[slot'[indexOf'[q]].name] = q
    <3>1. CASE q = p
      <4>1. indexOf'[q] = i
        BY <2>2, <3>1 DEF ChatTypes
      <4>2. slot'[i] = [here |-> TRUE, uuid |-> p, name |-> name]
        BY <2>2, <2>3 DEF ChatTypes
      <4> QED
        BY <2>2, <2>3, <3>1, <4>1, <4>2
    <3>2. CASE q # p
      <4>1. indexOf'[q] = indexOf[q]
        BY <2>2, <3>2 DEF ChatTypes
      <4>2. /\ indexOf[q] \in Indices /\ indexOf[q] \notin Range(remain)
            /\ slot[indexOf[q]].here /\ slot[indexOf[q]].uuid = q
            /\ slot[indexOf[q]].name \in Nicks => nickname[slot[indexOf[q]].name] = q
        BY <2>6, <4>1 DEF SlotsLead, Leads
      <4>3. slot'[indexOf[q]] = slot[indexOf[q]]
        BY <2>2, <2>4, <4>2 DEF ChatTypes
      <4>4. slot[indexOf[q]].name \in Nicks => nickname'[slot[indexOf[q]].name] = q
        BY <1>1, <4>2 DEF NamesStay
      <4> QED
        BY <2>2, <2>3, <4>1, <4>2, <4>3, <4>4
    <3> QED
      BY <3>1, <3>2
  <2> QED
    BY <2>5, <2>6 DEF SlotsLead, Leads
<1> QED
  BY <1>2, <1>3

\* A player goes: his index is free.
LEMMA Going ==
    ASSUME AccountsAssumption, SlotsLead, ChatTypes, nickname' = nickname, NEW p \in Uids, OfflineNotify(p)
    PROVE  ChatTypes' /\ SlotsLead'
<1>1. NoOne \notin Uids /\ NoOne \notin Indices
  BY DEF AccountsAssumption, Uids, Indices
<1>2. NamesStay
  BY DEF NamesStay
<1>3. CASE indexOf[p] = NoOne
  <2>1. UNCHANGED <<remain, indexOf, slot>>
    BY <1>3 DEF OfflineNotify
  <2> QED
    BY <1>2, <2>1, SlotsStay DEF ChatTypes
<1>4. CASE indexOf[p] # NoOne
  <2>1. PICK i : i = indexOf[p]
    OBVIOUS
  <2>2. /\ remain' = Append(remain, i) /\ indexOf' = [indexOf EXCEPT ![p] = NoOne]
        /\ slot' = [slot EXCEPT ![i].here = FALSE]
    BY <1>4, <2>1 DEF OfflineNotify
  <2>3. i \in Indices /\ i \notin Range(remain) /\ slot[i].uuid = p
    BY <1>4, <2>1 DEF SlotsLead
  <2>4. /\ Append(remain, i) \in Seq(Indices) /\ IsInjective(Append(remain, i))
        /\ Range(Append(remain, i)) = Range(remain) \cup {i}
    BY <2>3, OneMore DEF ChatTypes
  <2>5. ChatTypes'
    BY <2>2, <2>3, <2>4 DEF ChatTypes
  <2>6. ASSUME NEW q \in Uids, indexOf'[q] # NoOne
        PROVE  /\ indexOf'[q] \in Indices /\ indexOf'[q] \notin Range(remain')
               /\ slot'[indexOf'[q]].here /\ slot'[indexOf'[q]].uuid = q
               /\ slot'[indexOf'[q]].name \in Nicks => nickname[slot'[indexOf'[q]].name] = q
    <3>1. q # p /\ indexOf'[q] = indexOf[q]
      BY <2>2, <2>6 DEF ChatTypes
    <3>2. /\ indexOf[q] \in Indices /\ indexOf[q] \notin Range(remain)
          /\ slot[indexOf[q]].here /\ slot[indexOf[q]].uuid = q
          /\ slot[indexOf[q]].name \in Nicks => nickname[slot[indexOf[q]].name] = q
      BY <2>6, <3>1 DEF SlotsLead, Leads
    <3>3. indexOf[q] # i
      BY <2>3, <3>1, <3>2
    <3>4. slot'[indexOf[q]] = slot[indexOf[q]]
      BY <2>2, <3>3 DEF ChatTypes
    <3> QED
      BY <2>2, <2>4, <3>1, <3>2, <3>3, <3>4
  <2> QED
    BY <2>5, <2>6 DEF SlotsLead, Leads
<1> QED
  BY <1>3, <1>4

\* Before the first request.
LEMMA AccountsInitially == AccountsInit => AccountsInv
<1> SUFFICES ASSUME AccountsInit PROVE AccountsInv
  OBVIOUS
<1>1. /\ NoOne \notin Uids /\ NoOne \notin Indices /\ NoNick \notin Nicks /\ 0 \in Uids
      /\ MaxAccounts \in Nat /\ ChatSlots \in Nat
      /\ BoyNames \subseteq Nicks /\ GirlNames \subseteq Nicks \ BoyNames
  BY AccountsAssumption DEF AccountsAssumption, Uids, Indices
<1>2. <<>> \in Seq(Nat \cup Emails) /\ IsInjective(<<>>) /\ DOMAIN <<>> = {} /\ Len(<<>>) = 0
  BY NothingIn
<1>3. AccountTypes
  <2>1. users \in Seq(Nat \cup Emails) /\ Len(users) <= MaxAccounts
    BY <1>1, <1>2 DEF AccountsInit
  <2>2. nickname \in [Nicks -> Uids \cup {NoOne}] /\ nameOf \in [Uids -> Nicks \cup {NoNick}]
    BY DEF AccountsInit
  <2>3. proposals \in [{"boy", "girl"} -> SUBSET Nicks]
    BY <1>1 DEF AccountsInit
  <2>4. conn \in [Conns -> [open : BOOLEAN, uuid : Uids, logged : BOOLEAN, last : Nicks \cup {NoNick}]]
    BY <1>1 DEF AccountsInit, Off
  <2> QED
    BY <2>1, <2>2, <2>3, <2>4 DEF AccountTypes
<1>4. ChatTypes
  <2>1. remain = [i \in 1 .. ChatSlots |-> ChatSlots - i]
    BY DEF AccountsInit
  <2>2. \A i \in 1 .. ChatSlots : ChatSlots - i \in Indices
    BY <1>1 DEF Indices
  <2>3. remain \in Seq(Indices)
    BY <1>1, <2>1, <2>2, IsASeq
  <2>4. IsInjective(remain)
    BY <1>1, <2>1 DEF IsInjective
  <2> QED
    BY <1>1, <2>3, <2>4 DEF ChatTypes, AccountsInit
<1>5. RecordsLead /\ SlotsLead
  BY <1>1 DEF AccountsInit, RecordsLead, SlotsLead, Leads
<1>6. NamesDiffer
  BY <1>2 DEF AccountsInit, NamesDiffer
<1>7. Proposed
  BY <1>1 DEF AccountsInit, Proposed, Off
<1> QED
  BY <1>3, <1>4, <1>5, <1>6, <1>7 DEF AccountsInv

\* A connection whose proposed name stays or is forgotten.
LEMMA StillProposed ==
    ASSUME Proposed, AccountTypes, proposals' = proposals,
           \A c \in Conns : conn'[c].last \in {conn[c].last, NoNick}
    PROVE  Proposed'
BY DEF Proposed

\* An account more.
LEMMA MadeDiffers ==
    ASSUME AccountsAssumption, AccountTypes, NamesDiffer, Len(users) < MaxAccounts,
           users' = Append(users, Len(users) + 1)
    PROVE  users' \in Seq(Nat \cup Emails) /\ Len(users') <= MaxAccounts /\ NamesDiffer'
<1> PICK n : n = Len(users)
  OBVIOUS
<1>1. n \in Nat /\ DOMAIN users = 1 .. n /\ users \in [1 .. n -> Nat \cup Emails]
  BY LenProperties DEF AccountTypes
<1>2. n + 1 \notin Range(users)
  BY <1>1 DEF NamesDiffer, AccountsAssumption, Range
<1>3. n + 1 \in Nat \cup Emails
  BY <1>1
<1>4. /\ Append(users, n + 1) \in Seq(Nat \cup Emails) /\ IsInjective(Append(users, n + 1))
  BY <1>2, <1>3, OneMore DEF AccountTypes, NamesDiffer
<1>5. /\ Len(users') = n + 1 /\ DOMAIN users' = 1 .. n + 1 /\ users'[n + 1] = n + 1
      /\ \A i \in 1 .. n : users'[i] = users[i]
  BY <1>1, AppendProperties, LenProperties DEF AccountTypes
<1>6. \A i \in DOMAIN users' : users'[i] = i \/ users'[i] \in Emails
  BY <1>1, <1>5 DEF NamesDiffer
<1> QED
  BY <1>1, <1>4, <1>5, <1>6 DEF NamesDiffer, AccountsAssumption

\* An address instead of a name, or of another address.
LEMMA BoundDiffers ==
    ASSUME AccountTypes, NamesDiffer, NEW e \in Emails, e \notin Range(users),
           NEW i \in DOMAIN users, users' = [users EXCEPT ![i] = e]
    PROVE  users' \in Seq(Nat \cup Emails) /\ Len(users') <= MaxAccounts /\ NamesDiffer'
<1>1. users' \in Seq(Nat \cup Emails) /\ Len(users') = Len(users) /\ DOMAIN users' = DOMAIN users
  <2>1. users \in Seq(Nat \cup Emails) /\ i \in 1 .. Len(users) /\ e \in Nat \cup Emails
    BY LenProperties DEF AccountTypes
  <2>2. [users EXCEPT ![i] = e] \in Seq(Nat \cup Emails) /\ Len([users EXCEPT ![i] = e]) = Len(users)
    BY <2>1, ExceptSeq
  <2> QED
    BY <2>2, LenProperties
<1>2. users'[i] = e /\ \A j \in DOMAIN users : j # i => users'[j] = users[j]
  OBVIOUS
<1>3. \A j \in DOMAIN users : users[j] # e
  BY DEF Range
<1>4. NamesDiffer'
  BY <1>1, <1>2, <1>3 DEF NamesDiffer, IsInjective
<1> QED
  BY <1>1, <1>4 DEF AccountTypes

\* RegisterRequestService gives a new player, or the one the client already was, a name.
LEMMA Registered ==
    ASSUME AccountsInv, NEW c \in Conns, NEW n \in Nicks \cup {Spaced}, RegisterRequestService(c, n)
    PROVE  AccountsInv'
<1>a. AccountsAssumption
  BY AccountsAssumption
<1>b. AccountTypes /\ ChatTypes /\ RecordsLead /\ SlotsLead /\ NamesDiffer /\ Proposed
  BY DEF AccountsInv
<1>c. proposals' = proposals
  BY DEF RegisterRequestService
<1>1. CASE FindUserUuid(n) # NoOne
  BY <1>1 DEF RegisterRequestService, AccountsInv, AccountTypes, ChatTypes, RecordsLead,
              SlotsLead, NamesDiffer, Proposed, Leads, chatTables
<1>2. CASE FindUserUuid(n) = NoOne
  <2>1. NewAccount(c, n)
    BY <1>2 DEF RegisterRequestService
  <2>b. PICK made \in BOOLEAN, known \in BOOLEAN : \E p :
          /\ p = IF known THEN Len(users) + 1 ELSE conn[c].uuid
          /\ known => made
          /\ made => Len(users) < MaxAccounts
          /\ users' = IF made THEN Append(users, Len(users) + 1) ELSE users
          /\ conn' = [conn EXCEPT ![c].uuid = p, ![c].logged = TRUE]
          /\ SetUserName(p, n)
          /\ OnlineNotify(p, IF MaySet(n) THEN n ELSE FindUserName(p))
    BY <2>1 DEF NewAccount
  <2>2. PICK p :
          /\ p = IF known THEN Len(users) + 1 ELSE conn[c].uuid
          /\ known => made
          /\ made => Len(users) < MaxAccounts
          /\ users' = IF made THEN Append(users, Len(users) + 1) ELSE users
          /\ conn' = [conn EXCEPT ![c].uuid = p, ![c].logged = TRUE]
          /\ SetUserName(p, n)
          /\ OnlineNotify(p, IF MaySet(n) THEN n ELSE FindUserName(p))
    BY <2>b
  <2>3. p \in Uids
    <3>1. conn[c].uuid \in Uids /\ Len(users) \in Nat
      BY <1>b, LenProperties DEF AccountTypes
    <3>2. known => Len(users) + 1 \in Uids
      BY <1>a, <2>2, <3>1 DEF Uids, AccountsAssumption
    <3> QED
      BY <2>2, <3>1, <3>2
  <2>4. /\ nickname' \in [Nicks -> Uids \cup {NoOne}] /\ nameOf' \in [Uids -> Nicks \cup {NoNick}]
        /\ NamesStay /\ RecordsLead'
        /\ MaySet(n) => (n \in Nicks /\ nickname'[n] = p)
    BY <1>a, <1>b, <2>2, <2>3, NameSet
  <2>5. PICK name : name = IF MaySet(n) THEN n ELSE FindUserName(p)
    OBVIOUS
  <2>6. name \in Nicks \cup {NoNick} /\ (name \in Nicks => nickname'[name] = p)
    <3>1. CASE MaySet(n)
      BY <2>4, <2>5, <3>1
    <3>2. CASE ~MaySet(n)
      <4>1. nameOf' = nameOf /\ name = nameOf[p]
        BY <2>2, <2>5, <3>2 DEF SetUserName, FindUserName
      <4> QED
        BY <2>3, <2>4, <4>1 DEF RecordsLead, Leads
    <3> QED
      BY <3>1, <3>2
  <2>7. ChatTypes' /\ SlotsLead'
    BY <1>a, <1>b, <2>2, <2>3, <2>4, <2>5, <2>6, Coming
  <2>8. users' \in Seq(Nat \cup Emails) /\ Len(users') <= MaxAccounts /\ NamesDiffer'
    <3>1. CASE made
      BY <1>a, <1>b, <2>2, <3>1, MadeDiffers
    <3>2. CASE ~made
      BY <1>b, <2>2, <3>2 DEF AccountTypes, NamesDiffer
    <3> QED
      BY <3>1, <3>2
  <2>9. /\ conn' \in [Conns -> [open : BOOLEAN, uuid : Uids, logged : BOOLEAN,
                                last : Nicks \cup {NoNick}]]
        /\ \A d \in Conns : conn'[d].last = conn[d].last
    <3>1. conn \in [Conns -> [open : BOOLEAN, uuid : Uids, logged : BOOLEAN,
                              last : Nicks \cup {NoNick}]]
      BY <1>b DEF AccountTypes
    <3>2. conn' = [conn EXCEPT ![c].uuid = p, ![c].logged = TRUE]
      BY <2>2
    <3>3. \A d \in Conns : /\ d # c => conn'[d] = conn[d]
                          /\ conn'[c] = [conn[c] EXCEPT !.uuid = p, !.logged = TRUE]
      BY <3>1, <3>2
    <3>4. conn'[c] \in [open : BOOLEAN, uuid : Uids, logged : BOOLEAN, last : Nicks \cup {NoNick}]
          /\ conn'[c].last = conn[c].last
      BY <2>3, <3>1, <3>3
    <3>5. conn' = [d \in Conns |-> conn'[d]]
      BY <3>1, <3>2
    <3> QED
      BY <3>1, <3>3, <3>4, <3>5
  <2>10. Proposed'
    BY <1>b, <1>c, <2>9, StillProposed
  <2>11. AccountTypes'
    BY <1>b, <1>c, <2>4, <2>8, <2>9 DEF AccountTypes
  <2> QED
    BY <2>4, <2>7, <2>8, <2>10, <2>11 DEF AccountsInv
<1> QED
  BY <1>1, <1>2

\* SetNameRequestService names whoever the connection is.
LEMMA Named ==
    ASSUME AccountsInv, NEW c \in Conns, NEW n \in Nicks \cup {Spaced}, SetNameRequestService(c, n)
    PROVE  AccountsInv'
<1>a. AccountsAssumption
  BY AccountsAssumption
<1>b. AccountTypes /\ ChatTypes /\ RecordsLead /\ SlotsLead /\ NamesDiffer /\ Proposed
  BY DEF AccountsInv
<1>c. /\ UNCHANGED <<users, proposals, conn>> /\ UNCHANGED <<remain, indexOf, slot>>
      /\ SetUserName(conn[c].uuid, n)
  BY DEF SetNameRequestService, chatTables
<1>1. PICK p \in Uids : p = conn[c].uuid
  BY <1>b DEF AccountTypes
<1>2. /\ nickname' \in [Nicks -> Uids \cup {NoOne}] /\ nameOf' \in [Uids -> Nicks \cup {NoNick}]
      /\ NamesStay /\ RecordsLead'
  BY <1>a, <1>b, <1>c, <1>1, NameSet
<1>3. SlotsLead'
  BY <1>a, <1>b, <1>c, <1>2, SlotsStay
<1>4. AccountTypes' /\ ChatTypes' /\ NamesDiffer' /\ Proposed'
  BY <1>b, <1>c, <1>2 DEF AccountTypes, ChatTypes, NamesDiffer, Proposed
<1> QED
  BY <1>2, <1>3, <1>4 DEF AccountsInv

\* GetRandNameRequestService takes a name from those that are proposed.
LEMMA NameProposed ==
    ASSUME AccountsInv, NEW c \in Conns, NEW sex \in {"boy", "girl"}, GetRandNameRequestService(c, sex)
    PROVE  AccountsInv'
<1>b. AccountTypes /\ ChatTypes /\ RecordsLead /\ SlotsLead /\ NamesDiffer /\ Proposed
  BY DEF AccountsInv
<1>1. UNCHANGED <<users, nickname, nameOf>> /\ UNCHANGED <<remain, indexOf, slot>>
  BY DEF GetRandNameRequestService, chatTables
<1>2. ChatTypes' /\ RecordsLead' /\ SlotsLead' /\ NamesDiffer'
  BY <1>b, <1>1 DEF ChatTypes, RecordsLead, SlotsLead, NamesDiffer, Leads
<1>3. CASE proposals[sex] = {}
  BY <1>b, <1>1, <1>2, <1>3 DEF GetRandNameRequestService, AccountTypes, Proposed, AccountsInv
<1>4. CASE proposals[sex] # {}
  <2>1. PICK n \in proposals[sex] : /\ proposals' = [proposals EXCEPT ![sex] = @ \ {n}]
                                    /\ conn' = [conn EXCEPT ![c].last = n]
    BY <1>4 DEF GetRandNameRequestService
  <2>2. n \in Nicks /\ n \in proposals["boy"] \cup proposals["girl"]
    BY <1>b DEF AccountTypes
  <2>3. AccountTypes'
    BY <1>b, <1>1, <2>1, <2>2 DEF AccountTypes
  <2>4. /\ proposals'["boy"] \cup proposals'["girl"] = (proposals["boy"] \cup proposals["girl"]) \ {n}
        /\ proposals'["boy"] \cap proposals'["girl"] = {}
    <3>1. CASE sex = "boy"
      BY <1>b, <2>1, <3>1 DEF AccountTypes, Proposed
    <3>2. CASE sex = "girl"
      BY <1>b, <2>1, <3>2 DEF AccountTypes, Proposed
    <3> QED
      BY <3>1, <3>2
  <2>5. conn'[c].last = n /\ \A d \in Conns : d # c => conn'[d] = conn[d]
    BY <1>b, <2>1 DEF AccountTypes
  <2>6. ASSUME NEW d \in Conns, conn'[d].last # NoNick
        PROVE  /\ conn'[d].last \notin proposals'["boy"] \cup proposals'["girl"]
               /\ \A e \in Conns : d # e => conn'[d].last # conn'[e].last
    <3>1. \A e \in Conns : e # c /\ conn[e].last # NoNick => conn[e].last # n
      BY <1>b, <2>2 DEF Proposed
    <3>2. n # NoNick
      BY <2>2, AccountsAssumption DEF AccountsAssumption
    <3>3. CASE d = c
      BY <2>4, <2>5, <3>1, <3>2, <3>3
    <3>4. CASE d # c
      BY <1>b, <2>4, <2>5, <2>6, <3>1, <3>4 DEF Proposed
    <3> QED
      BY <3>3, <3>4
  <2>7. Proposed'
    BY <2>4, <2>6 DEF Proposed
  <2> QED
    BY <1>2, <2>3, <2>7 DEF AccountsInv
<1> QED
  BY <1>3, <1>4

\* LoginRequestService enters a player under the name his record has.
LEMMA LoggedIn ==
    ASSUME AccountsInv, NEW c \in Conns, NEW p \in Uids, AccountLogin(c, p)
    PROVE  AccountsInv'
<1>a. AccountsAssumption
  BY AccountsAssumption
<1>b. AccountTypes /\ ChatTypes /\ RecordsLead /\ SlotsLead /\ NamesDiffer /\ Proposed
  BY DEF AccountsInv
<1>1. /\ UNCHANGED <<users, nickname, nameOf, proposals>>
      /\ conn' = [conn EXCEPT ![c].uuid = p, ![c].logged = TRUE]
      /\ OnlineNotify(p, nameOf[p])
  BY DEF AccountLogin, redis, FindUserName
<1>2. NamesStay
  BY <1>1 DEF NamesStay
<1>3. nameOf[p] \in Nicks \cup {NoNick} /\ (nameOf[p] \in Nicks => nickname'[nameOf[p]] = p)
  BY <1>b, <1>1 DEF AccountTypes, RecordsLead, Leads
<1>4. ChatTypes' /\ SlotsLead'
  BY <1>a, <1>b, <1>1, <1>2, <1>3, Coming
<1>5. /\ conn' \in [Conns -> [open : BOOLEAN, uuid : Uids, logged : BOOLEAN,
                              last : Nicks \cup {NoNick}]]
      /\ \A d \in Conns : conn'[d].last = conn[d].last
  BY <1>b, <1>1 DEF AccountTypes
<1>6. Proposed'
  BY <1>b, <1>1, <1>5, StillProposed
<1>7. AccountTypes' /\ NamesDiffer' /\ RecordsLead'
  BY <1>b, <1>1, <1>5 DEF AccountTypes, NamesDiffer, RecordsLead, Leads
<1> QED
  BY <1>4, <1>6, <1>7 DEF AccountsInv

\* BindEmailRequestService gives an account an address nobody has.
LEMMA Bound ==
    ASSUME AccountsInv, NEW c \in Conns, NEW e \in Emails, BindEmailRequestService(c, e)
    PROVE  AccountsInv'
<1>b. AccountTypes /\ ChatTypes /\ RecordsLead /\ SlotsLead /\ NamesDiffer /\ Proposed
  BY DEF AccountsInv
<1>1. /\ UNCHANGED <<nickname, nameOf, proposals, conn>> /\ UNCHANGED <<remain, indexOf, slot>>
      /\ users' = IF e \notin Range(users) /\ conn[c].uuid \in DOMAIN users
                  THEN [users EXCEPT ![conn[c].uuid] = e] ELSE users
  BY DEF BindEmailRequestService, chatTables, redis
<1>2. users' \in Seq(Nat \cup Emails) /\ Len(users') <= MaxAccounts /\ NamesDiffer'
  <2>1. CASE e \notin Range(users) /\ conn[c].uuid \in DOMAIN users
    <3>1. PICK i \in DOMAIN users : i = conn[c].uuid
      BY <2>1
    <3>2. users' = [users EXCEPT ![i] = e]
      BY <1>1, <2>1, <3>1
    <3> QED
      BY <1>b, <2>1, <3>2, BoundDiffers
  <2>2. CASE ~(e \notin Range(users) /\ conn[c].uuid \in DOMAIN users)
    BY <1>b, <1>1, <2>2 DEF AccountTypes, NamesDiffer
  <2> QED
    BY <2>1, <2>2
<1>3. AccountTypes'
  BY <1>b, <1>1, <1>2 DEF AccountTypes
<1>4. ChatTypes' /\ RecordsLead' /\ SlotsLead' /\ Proposed'
  BY <1>b, <1>1 DEF ChatTypes, RecordsLead, SlotsLead, Proposed, Leads
<1> QED
  BY <1>2, <1>3, <1>4 DEF AccountsInv

\* A connection opens.
LEMMA Connected ==
    ASSUME AccountsInv, NEW c \in Conns, AccountConnect(c)
    PROVE  AccountsInv'
<1>b. AccountTypes /\ ChatTypes /\ RecordsLead /\ SlotsLead /\ NamesDiffer /\ Proposed
  BY DEF AccountsInv
<1>1. /\ UNCHANGED <<users, nickname, nameOf, proposals>> /\ UNCHANGED <<remain, indexOf, slot>>
      /\ conn' = [conn EXCEPT ![c] = [Off EXCEPT !.open = TRUE]]
  BY DEF AccountConnect, chatTables, redis
<1>2. 0 \in Uids
  BY AccountsAssumption DEF AccountsAssumption, Uids
<1>3. /\ conn' \in [Conns -> [open : BOOLEAN, uuid : Uids, logged : BOOLEAN,
                              last : Nicks \cup {NoNick}]]
      /\ \A d \in Conns : conn'[d].last \in {conn[d].last, NoNick}
  <2>1. PICK o : o = [Off EXCEPT !.open = TRUE]
    OBVIOUS
  <2>2. /\ o \in [open : BOOLEAN, uuid : Uids, logged : BOOLEAN, last : Nicks \cup {NoNick}]
        /\ o.last = NoNick
    BY <1>2, <2>1 DEF Off
  <2>3. conn' = [conn EXCEPT ![c] = o]
    BY <1>1, <2>1
  <2> QED
    BY <1>b, <2>2, <2>3 DEF AccountTypes
<1>4. Proposed'
  BY <1>b, <1>1, <1>3, StillProposed
<1>5. AccountTypes'
  BY <1>b, <1>1, <1>3 DEF AccountTypes
<1>6. ChatTypes' /\ RecordsLead' /\ SlotsLead' /\ NamesDiffer'
  BY <1>b, <1>1 DEF ChatTypes, RecordsLead, SlotsLead, NamesDiffer, Leads
<1> QED
  BY <1>4, <1>5, <1>6 DEF AccountsInv

\* A connection closes, and the player it was last leaves chat.
LEMMA Closed ==
    ASSUME AccountsInv, NEW c \in Conns, AccountClose(c)
    PROVE  AccountsInv'
<1>a. AccountsAssumption
  BY AccountsAssumption
<1>b. AccountTypes /\ ChatTypes /\ RecordsLead /\ SlotsLead /\ NamesDiffer /\ Proposed
  BY DEF AccountsInv
<1>1. /\ UNCHANGED <<users, nickname, nameOf, proposals>>
      /\ conn' = [conn EXCEPT ![c] = [open |-> FALSE, uuid |-> 0, logged |-> FALSE, last |-> NoNick]]
  BY DEF AccountClose, redis, Off
<1>2. 0 \in Uids /\ conn[c].uuid \in Uids
  BY <1>a, <1>b DEF AccountsAssumption, Uids, AccountTypes
<1>3. /\ conn' \in [Conns -> [open : BOOLEAN, uuid : Uids, logged : BOOLEAN,
                              last : Nicks \cup {NoNick}]]
      /\ \A d \in Conns : conn'[d].last \in {conn[d].last, NoNick}
  BY <1>b, <1>1, <1>2 DEF AccountTypes
<1>4. Proposed'
  BY <1>b, <1>1, <1>3, StillProposed
<1>5. AccountTypes'
  BY <1>b, <1>1, <1>3 DEF AccountTypes
<1>6. ChatTypes' /\ SlotsLead'
  <2>1. CASE conn[c].uuid \in entered
    <3>1. OfflineNotify(conn[c].uuid)
      BY <2>1 DEF AccountClose
    <3> QED
      BY <1>a, <1>b, <1>1, <1>2, <3>1, Going
  <2>2. CASE conn[c].uuid \notin entered
    <3>1. UNCHANGED <<remain, indexOf, slot>>
      BY <2>2 DEF AccountClose, chatTables
    <3> QED
      BY <1>b, <1>1, <3>1 DEF ChatTypes, SlotsLead, Leads
  <2> QED
    BY <2>1, <2>2
<1>7. RecordsLead' /\ NamesDiffer'
  BY <1>b, <1>1 DEF RecordsLead, NamesDiffer, Leads
<1> QED
  BY <1>4, <1>5, <1>6, <1>7 DEF AccountsInv

\* The gateway starts again, perhaps in the middle of set_user_name.
LEMMA GatewayRestarted ==
    ASSUME AccountsInv, GatewayRestart
    PROVE  AccountsInv'
<1>a. /\ NoOne \notin Uids /\ NoOne \notin Indices /\ 0 \in Uids
      /\ MaxAccounts \in Nat /\ ChatSlots \in Nat
  BY AccountsAssumption DEF AccountsAssumption, Uids, Indices
<1>b. AccountTypes /\ ChatTypes /\ RecordsLead /\ SlotsLead /\ NamesDiffer /\ Proposed
  BY DEF AccountsInv
<1>1. /\ UNCHANGED <<users, nameOf, proposals>>
      /\ conn' = [c \in Conns |-> [open |-> FALSE, uuid |-> 0, logged |-> FALSE, last |-> NoNick]]
      /\ remain' = [i \in 1 .. ChatSlots |-> ChatSlots - i]
      /\ indexOf' = [p \in Uids |-> NoOne]
      /\ slot' = [i \in Indices |-> [here |-> FALSE, uuid |-> NoOne, name |-> NoNick]]
  BY DEF GatewayRestart, Off
<1>2. nickname' \in [Nicks -> Uids \cup {NoOne}] /\ NamesStay
  <2>1. CASE nickname' = nickname
    BY <1>b, <2>1 DEF AccountTypes, NamesStay
  <2>2. CASE nickname' # nickname
    <3>1. PICK c \in Conns, n \in Nicks : /\ MaySet(n)
                                          /\ nickname' = [nickname EXCEPT ![n] = conn[c].uuid]
      BY <2>2 DEF GatewayRestart
    <3>2. nickname[n] = NoOne /\ conn[c].uuid \in Uids
      BY <1>b, <3>1 DEF MaySet, FindUserUuid, AccountTypes
    <3> QED
      BY <1>b, <3>1, <3>2 DEF AccountTypes, NamesStay
  <2> QED
    BY <2>1, <2>2
<1>3. RecordsLead'
  <2>1. ASSUME NEW p \in Uids, nameOf[p] \in Nicks PROVE nickname'[nameOf[p]] = p
    <3>1. nickname[nameOf[p]] = p
      BY <1>b, <2>1 DEF RecordsLead, Leads
    <3> QED
      BY <1>a, <1>2, <2>1, <3>1 DEF NamesStay
  <2> QED
    BY <1>1, <2>1 DEF RecordsLead, Leads
<1>4. /\ conn' \in [Conns -> [open : BOOLEAN, uuid : Uids, logged : BOOLEAN,
                              last : Nicks \cup {NoNick}]]
      /\ \A d \in Conns : conn'[d].last \in {conn[d].last, NoNick}
  BY <1>a, <1>1
<1>5. Proposed'
  BY <1>b, <1>1, <1>4, StillProposed
<1>6. AccountTypes' /\ NamesDiffer'
  BY <1>b, <1>1, <1>2, <1>4 DEF AccountTypes, NamesDiffer
<1>7. ChatTypes'
  <2>1. \A i \in 1 .. ChatSlots : ChatSlots - i \in Indices
    BY <1>a DEF Indices
  <2>2. remain' \in Seq(Indices)
    BY <1>a, <1>1, <2>1, IsASeq
  <2>3. IsInjective(remain')
    BY <1>a, <1>1 DEF IsInjective
  <2> QED
    BY <1>1, <2>2, <2>3 DEF ChatTypes
<1>8. SlotsLead'
  BY <1>1 DEF SlotsLead
<1> QED
  BY <1>3, <1>5, <1>6, <1>7, <1>8 DEF AccountsInv

\* The invariant of accounts and chat.
LEMMA AccountsAlways == AccountsSpec => []AccountsInv
<1>1. AccountsInv /\ [AccountsNext]_accountVars => AccountsInv'
  <2> SUFFICES ASSUME AccountsInv, [AccountsNext]_accountVars PROVE AccountsInv'
    OBVIOUS
  <2>1. CASE AccountsNext
    BY <2>1, Connected, Closed, Registered, Named, NameProposed, LoggedIn, Bound,
       GatewayRestarted DEF AccountsNext
  <2>2. CASE UNCHANGED accountVars
    BY <2>2 DEF AccountsInv, AccountTypes, ChatTypes, RecordsLead, SlotsLead, NamesDiffer,
                Proposed, Leads, accountVars
  <2> QED
    BY <2>1, <2>2
<1> QED
  BY <1>1, AccountsInitially, PTL DEF AccountsSpec

\* NamesAgree, for any number of players, connections and names: whatever is requested,
\* bound, closed or started again, and wherever set_user_name is cut short, a name
\* leads to the player whose record and whose slot in chat have it.
THEOREM NamesLead == AccountsSpec => []NamesAgree
<1>1. AccountsInv => NamesAgree
  <2> SUFFICES ASSUME AccountsInv PROVE NamesAgree
    OBVIOUS
  <2>a. AccountTypes /\ ChatTypes /\ RecordsLead /\ SlotsLead /\ NamesDiffer /\ Proposed
    BY DEF AccountsInv
  <2>b. /\ NoOne \notin Uids /\ NoOne \notin Indices /\ -1 \notin Indices
        /\ Indices = 0 .. ChatSlots - 1 /\ ChatSlots \in Nat
    BY AccountsAssumption DEF AccountsAssumption, Uids, Indices
  <2>1. \A p \in Uids : Leads(FindUserName(p), p)
    BY <2>a DEF RecordsLead, FindUserName
  <2>2. ASSUME NEW c \in Conns, MyIndex(c) # -1, WorldChannelMsg(MyIndex(c)) \in Nicks
        PROVE  AttackEnemyRequestService(WorldChannelMsg(MyIndex(c))) = conn[c].uuid
    <3>1. PICK p \in Uids : p = conn[c].uuid
      BY <2>a DEF AccountTypes
    <3>2. MyIndex(c) = indexOf[p] /\ indexOf[p] # NoOne
      BY <2>2, <3>1 DEF MyIndex
    <3>3. indexOf[p] \in Indices /\ Leads(slot[indexOf[p]].name, p)
      BY <2>a, <3>2 DEF SlotsLead
    <3>4. WorldChannelMsg(MyIndex(c)) = slot[indexOf[p]].name
      BY <3>2, <3>3 DEF WorldChannelMsg
    <3> QED
      BY <2>2, <3>1, <3>3, <3>4 DEF Leads, AttackEnemyRequestService, FindUserUuid
  <2>3. ASSUME NEW c \in Conns, NEW n \in Nicks, FindFriend(MyIndex(c), n).index # -1
        PROVE  /\ Leads(FindFriend(MyIndex(c), n).name, nickname[n])
               /\ FindFriend(MyIndex(c), n).index # MyIndex(c) =>
                     PrivateChannel(MyIndex(c), FindFriend(MyIndex(c), n).index) = nickname[n]
    <3>1. PICK i, p : i = MyIndex(c) /\ p = nickname[n]
      OBVIOUS
    <3>2. /\ p # NoOne /\ i > 0 /\ i < ChatSlots /\ indexOf[p] # NoOne
          /\ FindFriend(i, n) = [index |-> indexOf[p], name |-> slot[indexOf[p]].name]
      BY <2>3, <3>1 DEF FindFriend, FindUserUuid
    <3>3. p \in Uids
      BY <2>a, <3>1, <3>2 DEF AccountTypes
    <3>4. /\ indexOf[p] \in Indices /\ slot[indexOf[p]].here /\ slot[indexOf[p]].uuid = p
          /\ Leads(slot[indexOf[p]].name, p)
      BY <2>a, <3>2, <3>3 DEF SlotsLead
    <3>5. i \in Indices \cup {-1}
      BY <2>a, <2>b, <3>1 DEF MyIndex, AccountTypes, ChatTypes
    <3>6. i \in Indices
      BY <2>b, <3>2, <3>5
    <3>7. indexOf[p] # i => PrivateChannel(i, indexOf[p]) = p
      BY <3>4, <3>6 DEF PrivateChannel
    <3> QED
      BY <3>1, <3>2, <3>4, <3>7
  <2>4. IsInjective(users)
    BY <2>a DEF NamesDiffer
  <2>5. \A c, d \in Conns : c # d /\ conn[c].last # NoNick => conn[c].last # conn[d].last
    BY <2>a DEF Proposed
  <2> QED
    BY <2>1, <2>2, <2>3, <2>4, <2>5 DEF NamesAgree
<1> QED
  BY <1>1, AccountsAlways, PTL

-----------------------------------------------------------------------------
(* The defenders of a town.                                                *)

\* An order that is being carried out, and the tables it goes through.
Orders == [sid : Sids, camp : GuardCamps \cup {NoCamp}, at : {"lrem", "rpush", "hset", "hdel"}]
DefenceTypes ==
    /\ slots \in Seq(SoldierKinds \cup {Vacant})
    /\ dfd \in Seq(Nat) /\ IsInjective(dfd) /\ Range(dfd) \subseteq Sids
    /\ campOf \in [DOMAIN campOf -> GuardCamps] /\ DOMAIN campOf \subseteq Sids
    /\ change = Idle \/ change \in Orders

\* List and hash agree but for the soldier whose order is carried out.
Unordered(sid) == change = Idle \/ change.sid # sid
ListsAgree ==
    /\ \A sid \in Sids : Unordered(sid) => (sid \in Range(dfd) <=> sid \in DOMAIN campOf)
    /\ change # Idle =>
         /\ change.at = "hset" => change.sid \in Range(dfd) /\ Ordered
         /\ change.at \in {"rpush", "hdel"} => change.sid \notin Range(dfd)
         /\ change.at = "rpush" => Ordered

\* A battle has each defender once, to be read or read.
Readings(read) == \A i, j \in DOMAIN read : i # j => read[i].sid # read[j].sid
BattleOK ==
    battle # Idle =>
        \E todo \in Seq(Nat), read \in Seq([sid : Nat, kind : SoldierKinds, camp : GuardCamps \cup {NoCamp}]) :
            /\ battle = [todo |-> todo, read |-> read]
            /\ IsInjective(todo) /\ Readings(read)
            /\ \A i \in DOMAIN read : read[i].sid \notin Range(todo)

DefenceInv == DefenceTypes /\ ListsAgree /\ BattleOK

\* LREM leaves the others, in their order.
LEMMA Removed ==
    ASSUME NEW S, NEW list \in Seq(S), IsInjective(list), NEW sid
    PROVE  /\ WithoutSid(list, sid) \in Seq(S) /\ IsInjective(WithoutSid(list, sid))
           /\ Range(WithoutSid(list, sid)) = Range(list) \ {sid}
<1> PICK n : n = Len(list)
  OBVIOUS
<1>1. n \in Nat /\ DOMAIN list = 1 .. n /\ list \in [1 .. n -> S]
  BY LenProperties
<1> DEFINE K == {k \in 1 .. n : list[k] # sid}
           Scans(s) == s = [k \in 0 .. n |->
                              IF k = 0 THEN <<>>
                              ELSE IF list[k] # sid THEN Append(s[k - 1], list[k]) ELSE s[k - 1]]
           left == CHOOSE s : Scans(s)
<1>2. ASSUME NEW s PROVE Scans(s) <=> Collects(s, n, K, list)
  BY DEF Collects
<1>3. WithoutSid(list, sid) = left[n]
  BY DEF WithoutSid
<1> HIDE DEF Scans
<1>4. \E s : Collects(s, n, K, list)
  BY <1>1, Collector
<1>5. Scans(left)
  BY <1>2, <1>4
<1> HIDE DEF left
<1>6. Collects(left, n, K, list)
  BY <1>2, <1>5
<1> HIDE DEF K
<1>7. /\ left[n] \in Seq(S) /\ Range(left[n]) = Picked(n, K, list)
      /\ Differ(n, K, list) => IsInjective(left[n])
  BY <1>1, <1>6, Collected
<1>8. Differ(n, K, list)
  BY <1>1 DEF Differ, IsInjective
<1>9. Picked(n, K, list) = Range(list) \ {sid}
  BY <1>1 DEF Picked, K, Range
<1> QED
  BY <1>3, <1>7, <1>8, <1>9

\* getSoldiersByPlayerID tells of each living soldier under his index, with his camp.
LEMMA Told ==
    ASSUME slots \in Seq(SoldierKinds \cup {Vacant})
    PROVE  \A x : x \in Range(SoldiersByPlayerID) <=>
             \E sid \in Sids : /\ Slot(sid) # Vacant
                               /\ x = [sid |-> sid, kind |-> Slot(sid), camp |-> CampOf(sid)]
<1> PICK n : n = Len(slots)
  OBVIOUS
<1>1. n \in Nat
  BY LenProperties
<1> DEFINE V == [k \in 1 .. n |-> [sid |-> k - 1, kind |-> slots[k], camp |-> CampOf(k - 1)]]
           S == {V[k] : k \in 1 .. n}
           K == {k \in 1 .. n : slots[k] # Vacant}
           Scans(s) == s = [k \in 0 .. n |->
                              IF k = 0 THEN <<>>
                              ELSE IF slots[k] # Vacant
                                   THEN Append(s[k - 1], [sid |-> k - 1, kind |-> slots[k],
                                                          camp |-> CampOf(k - 1)])
                                   ELSE s[k - 1]]
           heard == CHOOSE s : Scans(s)
<1>2. ASSUME NEW s PROVE Scans(s) <=> Collects(s, n, K, V)
  <2> DEFINE old(k) == IF k = 0 THEN <<>>
                       ELSE IF slots[k] # Vacant
                            THEN Append(s[k - 1], [sid |-> k - 1, kind |-> slots[k], camp |-> CampOf(k - 1)])
                            ELSE s[k - 1]
             new(k) == IF k = 0 THEN <<>> ELSE IF k \in K THEN Append(s[k - 1], V[k]) ELSE s[k - 1]
  <2>1. ASSUME NEW k \in 1 .. n, slots[k] # Vacant PROVE old(k) = new(k)
    BY <2>1
  <2>2. ASSUME NEW k \in 0 .. n, k = 0 \/ slots[k] = Vacant PROVE old(k) = new(k)
    BY <2>2
  <2>3. \A k \in 0 .. n : old(k) = new(k)
    <3> HIDE DEF old, new
    <3> QED
      BY <2>1, <2>2
  <2>4. Scans(s) <=> s = [k \in 0 .. n |-> old(k)]
    OBVIOUS
  <2>5. Collects(s, n, K, V) <=> s = [k \in 0 .. n |-> new(k)]
    BY DEF Collects
  <2>6. [k \in 0 .. n |-> old(k)] = [k \in 0 .. n |-> new(k)]
    <3> HIDE DEF old, new
    <3> QED
      BY <2>3
  <2> QED
    BY <2>4, <2>5, <2>6
<1>3. SoldiersByPlayerID = heard[n]
  BY DEF SoldiersByPlayerID
<1>v. V \in Seq(S) /\ Len(V) = n
  BY <1>1, IsASeq, LenProperties
<1> HIDE DEF Scans, V, S, K
<1>4. \E s : Collects(s, n, K, V)
  BY <1>1, <1>v, Collector
<1>5. Scans(heard)
  BY <1>2, <1>4
<1> HIDE DEF heard
<1>6. Collects(heard, n, K, V)
  BY <1>2, <1>5
<1>a. Range(heard[n]) = Picked(n, K, V)
  BY <1>1, <1>v, <1>6, Collected
<1>7. \A x : x \in Range(heard[n]) <=> \E k \in 1 .. n : k \in K /\ V[k] = x
  BY <1>a DEF Picked
<1>8. \A k \in 1 .. n : /\ V[k] = [sid |-> k - 1, kind |-> slots[k], camp |-> CampOf(k - 1)]
                        /\ k \in K <=> slots[k] # Vacant
                        /\ k - 1 \in Sids /\ Slot(k - 1) = slots[k]
  BY <1>1 DEF V, K, Sids, Slot
<1>9. \A sid \in Sids : sid + 1 \in 1 .. n /\ (sid + 1) - 1 = sid
  BY <1>1 DEF Sids
<1>10. ASSUME NEW x, NEW k \in 1 .. n, k \in K, V[k] = x
       PROVE  \E sid \in Sids : /\ Slot(sid) # Vacant
                                /\ x = [sid |-> sid, kind |-> Slot(sid), camp |-> CampOf(sid)]
  BY <1>8, <1>10
<1>11. ASSUME NEW sid \in Sids, Slot(sid) # Vacant
       PROVE  \E k \in 1 .. n : k \in K /\ V[k] = [sid |-> sid, kind |-> Slot(sid), camp |-> CampOf(sid)]
  <2>1. PICK k \in 1 .. n : k = sid + 1 /\ k - 1 = sid
    BY <1>9
  <2> QED
    BY <1>8, <1>11, <2>1
<1> QED
  BY <1>3, <1>7, <1>10, <1>11

\* Nobody defends at first.
LEMMA DefenceInitially == DefenceInit => DefenceInv
<1> SUFFICES ASSUME DefenceInit PROVE DefenceInv
  OBVIOUS
<1>1. /\ slots = <<>> /\ dfd = <<>> /\ campOf = <<>> /\ change = Idle /\ battle = Idle
  BY DEF DefenceInit
<1>2. /\ <<>> \in Seq(Nat) /\ IsInjective(<<>>) /\ Range(<<>>) = {} /\ DOMAIN <<>> = {}
      /\ <<>> \in Seq(SoldierKinds \cup {Vacant})
  BY NothingIn
<1>3. <<>> \in [{} -> GuardCamps]
  OBVIOUS
<1>4. DefenceTypes
  BY <1>1, <1>2, <1>3 DEF DefenceTypes
<1>5. ListsAgree /\ BattleOK
  BY <1>1, <1>2 DEF ListsAgree, BattleOK, Sids
<1> QED
  BY <1>4, <1>5 DEF DefenceInv

\* A slot is filled or added.
LEMMA SlotFilled ==
    ASSUME DefenceTypes, NEW k \in SoldierKinds, SoldierFinished(k)
    PROVE  slots' \in Seq(SoldierKinds \cup {Vacant}) /\ Sids \subseteq Sids'
<1> DEFINE vacant == {i \in DOMAIN slots : slots[i] = Vacant}
<1>1. slots \in Seq(SoldierKinds \cup {Vacant}) /\ DOMAIN slots = 1 .. Len(slots) /\ Len(slots) \in Nat
  BY LenProperties DEF DefenceTypes
<1>2. CASE vacant = {}
  <2>1. slots' = Append(slots, k)
    BY <1>2 DEF SoldierFinished
  <2>2. Append(slots, k) \in Seq(SoldierKinds \cup {Vacant}) /\ Len(Append(slots, k)) = Len(slots) + 1
    BY <1>1, AppendProperties
  <2>3. slots' \in Seq(SoldierKinds \cup {Vacant}) /\ Len(slots') = Len(slots) + 1
    BY <2>1, <2>2
  <2> QED
    BY <1>1, <2>3 DEF Sids
<1>3. CASE vacant # {}
  <2>1. vacant \in SUBSET Nat
    BY <1>1
  <2>2. \E i \in vacant : \A j \in vacant : i <= j
    BY <1>3, <2>1, LeastElement
  <2>3. PICK i : i = CHOOSE x \in vacant : \A j \in vacant : x <= j
    OBVIOUS
  <2>4. i \in 1 .. Len(slots)
    BY <1>1, <2>2, <2>3
  <2>5. slots' = [slots EXCEPT ![i] = k]
    BY <1>3, <2>3 DEF SoldierFinished
  <2>6. /\ [slots EXCEPT ![i] = k] \in Seq(SoldierKinds \cup {Vacant})
        /\ Len([slots EXCEPT ![i] = k]) = Len(slots)
    BY <1>1, <2>4, ExceptSeq
  <2> QED
    BY <2>5, <2>6 DEF Sids
<1> QED
  BY <1>2, <1>3

\* A slot that is filled, added or emptied leaves the lists as they are.
LEMMA SlotsChange ==
    ASSUME DefenceInv, slots' \in Seq(SoldierKinds \cup {Vacant}), Sids \subseteq Sids',
           UNCHANGED <<dfd, campOf, change, battle>>
    PROVE  DefenceInv'
<1>1. DefenceTypes /\ ListsAgree /\ BattleOK
  BY DEF DefenceInv
<1>2. DefenceTypes'
  BY <1>1 DEF DefenceTypes, Orders
<1>3. ListsAgree'
  BY <1>1 DEF DefenceTypes, ListsAgree, Unordered, Ordered
<1>4. BattleOK'
  BY <1>1 DEF BattleOK
<1> QED
  BY <1>2, <1>3, <1>4 DEF DefenceInv

\* An order is no Idle.
LEMMA OrderThere ==
    ASSUME NEW o \in Orders
    PROVE  o # Idle
<1>1. Sids \subseteq Nat
  BY DEF Sids
<1>2. o \in [sid : Nat, camp : GuardCamps \cup {NoCamp}, at : {"lrem", "rpush", "hset", "hdel"}]
  BY <1>1, Zenon DEF Orders
<1> QED
  BY <1>2, DefenceAssumption, Zenon

\* Each command of an order.
LEMMA OrderStep ==
    ASSUME DefenceInv, Lrem \/ Rpush \/ Hset \/ Hdel
    PROVE  DefenceInv'
<1>a. /\ slots \in Seq(SoldierKinds \cup {Vacant})
      /\ dfd \in Seq(Nat) /\ IsInjective(dfd) /\ Range(dfd) \subseteq Sids
      /\ campOf \in [DOMAIN campOf -> GuardCamps] /\ DOMAIN campOf \subseteq Sids
      /\ change = Idle \/ change \in Orders
  BY DEF DefenceInv, DefenceTypes
<1>b. ListsAgree /\ BattleOK
  BY DEF DefenceInv
<1>c. slots' = slots /\ battle' = battle /\ change # Idle
  BY DEF Lrem, Rpush, Hset, Hdel, Changing
<1>d. Sids' = Sids /\ BattleOK'
  BY <1>b, <1>c DEF Sids, BattleOK
<1>e. change \in Orders /\ change.sid \in Sids /\ change.camp \in GuardCamps \cup {NoCamp}
  BY <1>a, <1>c DEF Orders
<1>f. PICK sid \in Sids, camp \in GuardCamps \cup {NoCamp} : sid = change.sid /\ camp = change.camp
  BY <1>e
<1>g. ASSUME NEW at \in {"lrem", "rpush", "hset", "hdel"}, change' = [change EXCEPT !.at = at]
      PROVE  /\ change' \in Orders' /\ change' # Idle
             /\ change'.sid = sid /\ change'.camp = camp /\ change'.at = at
  <2>1. change' \in Orders /\ change'.sid = sid /\ change'.camp = camp /\ change'.at = at
    BY <1>e, <1>f, <1>g DEF Orders
  <2>2. Orders' = Orders
    BY <1>d DEF Orders
  <2>3. PICK o \in Orders : o = change'
    BY <2>1
  <2>4. o # Idle
    BY OrderThere
  <2> QED
    BY <2>1, <2>2, <2>3, <2>4
<1>h. sid \in Nat
  BY DEF Sids
<1>1. CASE Lrem
  <2>1. /\ change.at = "lrem" /\ campOf' = campOf /\ dfd' = WithoutSid(dfd, sid)
        /\ change' = [change EXCEPT !.at = IF Ordered THEN "rpush" ELSE "hdel"]
    BY <1>1, <1>f DEF Lrem, Changing
  <2>2. /\ dfd' \in Seq(Nat) /\ IsInjective(dfd') /\ Range(dfd') = Range(dfd) \ {sid}
    BY <1>a, <2>1, Removed
  <2>3. PICK at \in {"lrem", "rpush", "hset", "hdel"} : at = IF Ordered THEN "rpush" ELSE "hdel"
    OBVIOUS
  <2>4. /\ change' \in Orders' /\ change' # Idle
        /\ change'.sid = sid /\ change'.camp = camp /\ change'.at = at
    BY <1>g, <2>1, <2>3
  <2>5. DefenceTypes'
    BY <1>a, <1>c, <1>d, <2>1, <2>2, <2>4 DEF DefenceTypes
  <2>6. ListsAgree'
    <3>1. at = "rpush" => camp # NoCamp
      BY <1>f, <2>3 DEF Ordered
    <3>2. at \in {"rpush", "hdel"}
      BY <2>3
    <3>3. \A s \in Sids : s # sid => (s \in Range(dfd') <=> s \in DOMAIN campOf')
      BY <1>b, <1>c, <1>f, <2>1, <2>2 DEF ListsAgree, Unordered
    <3> QED
      BY <1>c, <1>d, <1>f, <2>2, <2>4, <3>1, <3>2, <3>3 DEF ListsAgree, Unordered, Ordered
  <2> QED
    BY <1>d, <2>5, <2>6 DEF DefenceInv
<1>2. CASE Rpush
  <2>1. /\ change.at = "rpush" /\ campOf' = campOf /\ dfd' = Append(dfd, sid)
        /\ change' = [change EXCEPT !.at = "hset"]
    BY <1>2, <1>f DEF Rpush, Changing
  <2>2. sid \notin Range(dfd) /\ camp # NoCamp
    BY <1>b, <1>c, <1>f, <2>1 DEF ListsAgree, Ordered
  <2>3. /\ Append(dfd, sid) \in Seq(Nat) /\ IsInjective(Append(dfd, sid))
        /\ Range(Append(dfd, sid)) = Range(dfd) \cup {sid}
    BY <1>a, <1>h, <2>2, OneMore
  <2>4. /\ change' \in Orders' /\ change' # Idle
        /\ change'.sid = sid /\ change'.camp = camp /\ change'.at = "hset"
    BY <1>g, <2>1
  <2>5. DefenceTypes'
    BY <1>a, <1>c, <1>d, <2>1, <2>3, <2>4 DEF DefenceTypes
  <2>6. ListsAgree'
    <3>1. \A s \in Sids : s # sid => (s \in Range(dfd') <=> s \in DOMAIN campOf')
      BY <1>b, <1>c, <1>f, <2>1, <2>3 DEF ListsAgree, Unordered
    <3> QED
      BY <1>d, <2>1, <2>2, <2>3, <2>4, <3>1 DEF ListsAgree, Unordered, Ordered
  <2> QED
    BY <1>d, <2>5, <2>6 DEF DefenceInv
<1>3. CASE Hset
  <2>1. /\ change.at = "hset" /\ dfd' = dfd /\ change' = Idle
        /\ campOf' = [s \in DOMAIN campOf \cup {sid} |-> IF s = sid THEN camp ELSE campOf[s]]
    BY <1>3, <1>f DEF Hset, Changing
  <2>2. sid \in Range(dfd) /\ camp # NoCamp
    BY <1>b, <1>c, <1>f, <2>1 DEF ListsAgree, Ordered
  <2>3. DefenceTypes'
    BY <1>a, <1>c, <1>d, <1>f, <2>1, <2>2 DEF DefenceTypes
  <2>4. ListsAgree'
    <3>1. \A s \in Sids : s # sid => (s \in Range(dfd) <=> s \in DOMAIN campOf)
      BY <1>b, <1>c, <1>f DEF ListsAgree, Unordered
    <3>2. \A s \in Sids : s \in Range(dfd') <=> s \in DOMAIN campOf'
      BY <2>1, <2>2, <3>1
    <3> QED
      BY <1>d, <2>1, <3>2 DEF ListsAgree
  <2> QED
    BY <1>d, <2>3, <2>4 DEF DefenceInv
<1>4. CASE Hdel
  <2>1. /\ change.at = "hdel" /\ dfd' = dfd /\ change' = Idle
        /\ campOf' = [s \in DOMAIN campOf \ {sid} |-> campOf[s]]
    BY <1>4, <1>f DEF Hdel, Changing
  <2>2. sid \notin Range(dfd)
    BY <1>b, <1>c, <1>f, <2>1 DEF ListsAgree
  <2>3. DefenceTypes'
    BY <1>a, <1>c, <1>d, <1>f, <2>1 DEF DefenceTypes
  <2>4. ListsAgree'
    <3>1. \A s \in Sids : s # sid => (s \in Range(dfd) <=> s \in DOMAIN campOf)
      BY <1>b, <1>c, <1>f DEF ListsAgree, Unordered
    <3>2. \A s \in Sids : s \in Range(dfd') <=> s \in DOMAIN campOf'
      BY <2>1, <2>2, <3>1
    <3> QED
      BY <1>d, <2>1, <3>2 DEF ListsAgree
  <2> QED
    BY <1>d, <2>3, <2>4 DEF DefenceInv
<1> QED
  BY <1>1, <1>2, <1>3, <1>4

\* A soldier dies.
LEMMA SlotVacated ==
    ASSUME DefenceTypes, NEW sid \in Sids, SoldierDies(sid)
    PROVE  slots' \in Seq(SoldierKinds \cup {Vacant}) /\ Sids \subseteq Sids'
<1>1. slots \in Seq(SoldierKinds \cup {Vacant}) /\ Len(slots) \in Nat
  BY LenProperties DEF DefenceTypes
<1>2. PICK i : i = sid + 1
  OBVIOUS
<1>3. i \in 1 .. Len(slots)
  BY <1>1, <1>2 DEF Sids
<1>4. slots' = [slots EXCEPT ![i] = Vacant]
  BY <1>2 DEF SoldierDies
<1>5. /\ [slots EXCEPT ![i] = Vacant] \in Seq(SoldierKinds \cup {Vacant})
      /\ Len([slots EXCEPT ![i] = Vacant]) = Len(slots)
  BY <1>1, <1>3, ExceptSeq
<1> QED
  BY <1>4, <1>5 DEF Sids

\* An order is given.
LEMMA OrderGiven ==
    ASSUME DefenceInv, NEW sid \in Sids, NEW camp \in GuardCamps \cup {NoCamp},
           ChangeSoldierCamp(sid, camp)
    PROVE  DefenceInv'
<1>1. DefenceTypes /\ ListsAgree /\ BattleOK
  BY DEF DefenceInv
<1>2. /\ change = Idle /\ change' = [sid |-> sid, camp |-> camp, at |-> "lrem"]
      /\ slots' = slots /\ dfd' = dfd /\ campOf' = campOf /\ battle' = battle
  BY DEF ChangeSoldierCamp
<1>3. Sids' = Sids /\ Orders' = Orders
  BY <1>2 DEF Sids, Orders
<1>4. change' \in Orders' /\ change'.at = "lrem"
  BY <1>2, <1>3 DEF Orders
<1>5. DefenceTypes'
  BY <1>1, <1>2, <1>3, <1>4 DEF DefenceTypes
<1>6. ListsAgree'
  <2>1. \A s \in Sids : s \in Range(dfd) <=> s \in DOMAIN campOf
    BY <1>1, <1>2 DEF ListsAgree, Unordered
  <2> QED
    BY <1>2, <1>3, <1>4, <2>1 DEF ListsAgree, Unordered
<1>7. BattleOK'
  BY <1>1, <1>2 DEF BattleOK
<1> QED
  BY <1>5, <1>6, <1>7 DEF DefenceInv

\* A battle is no Idle, and reads the defenders one by one.
LEMMA BattleStep ==
    ASSUME DefenceInv, BattleBegins \/ ReadDefender \/ BattleEnds
    PROVE  DefenceInv'
<1>1. DefenceTypes /\ ListsAgree /\ BattleOK
  BY DEF DefenceInv
<1>2. slots' = slots /\ dfd' = dfd /\ campOf' = campOf /\ change' = change
  BY DEF BattleBegins, ReadDefender, BattleEnds
<1>3. DefenceTypes'
  BY <1>1, <1>2 DEF DefenceTypes, Orders, Sids
<1>4. ListsAgree'
  BY <1>1, <1>2 DEF ListsAgree, Unordered, Ordered, Sids
<1>5. BattleOK'
  <2> DEFINE Seen == [sid : Nat, kind : SoldierKinds, camp : GuardCamps \cup {NoCamp}]
             Is(b, todo, read) == /\ b = [todo |-> todo, read |-> read]
                                  /\ IsInjective(todo) /\ Readings(read)
                                  /\ \A i \in DOMAIN read : read[i].sid \notin Range(todo)
  <2>a. BattleOK <=> (battle # Idle => \E todo \in Seq(Nat), read \in Seq(Seen) : Is(battle, todo, read))
    BY DEF BattleOK
  <2>b. BattleOK' <=> (battle' # Idle => \E todo \in Seq(Nat), read \in Seq(Seen) : Is(battle', todo, read))
    BY DEF BattleOK
  <2>1. CASE BattleBegins
    <3>1. battle' = [todo |-> dfd, read |-> <<>>] /\ dfd \in Seq(Nat) /\ IsInjective(dfd)
      BY <1>1, <2>1 DEF BattleBegins, DefenceTypes
    <3>2. <<>> \in Seq(Seen) /\ DOMAIN <<>> = {}
      BY NothingIn
    <3>3. Is(battle', dfd, <<>>)
      BY <3>1, <3>2 DEF Readings
    <3> HIDE DEF Is, Seen
    <3> QED
      BY <2>b, <3>1, <3>2, <3>3
  <2>2. CASE BattleEnds
    <3>1. battle' = Idle
      BY <2>2 DEF BattleEnds
    <3> QED
      BY <2>b, <3>1
  <2>3. CASE ReadDefender
    <3>1. PICK todo \in Seq(Nat), read \in Seq(Seen) : Is(battle, todo, read)
      <4> HIDE DEF Is, Seen
      <4> QED
        BY <1>1, <2>3, <2>a DEF ReadDefender
    <3>2. battle.todo = todo /\ battle.read = read /\ todo # <<>>
      BY <2>3, <3>1 DEF ReadDefender
    <3>3. PICK sid, rest : sid = Head(todo) /\ rest = Tail(todo)
      OBVIOUS
    <3>4. /\ rest \in Seq(Nat) /\ IsInjective(rest) /\ sid \in Nat
          /\ Range(rest) = Range(todo) \ {sid} /\ sid \in Range(todo)
      <4>1. sid \in Range(todo)
        <5>1. Len(todo) \in Nat /\ DOMAIN todo = 1 .. Len(todo) /\ Len(todo) # 0 /\ Head(todo) = todo[1]
          BY <3>2, LenProperties, EmptySeq, HeadTailProperties
        <5>2. 1 \in DOMAIN todo
          BY <5>1
        <5> QED
          BY <3>3, <5>1, <5>2 DEF Range
      <4> QED
        BY <3>1, <3>2, <3>3, <4>1, FirstTaken
    <3>5. PICK x : x = [sid |-> sid, kind |-> Slot(sid), camp |-> CampOf(sid)]
      OBVIOUS
    <3>6. battle' = [todo |-> rest, read |-> IF Slot(sid) = Vacant THEN read ELSE Append(read, x)]
      BY <2>3, <3>2, <3>3, <3>5 DEF ReadDefender
    <3>7. CASE Slot(sid) = Vacant
      <4>1. Is(battle', rest, read)
        BY <3>1, <3>4, <3>6, <3>7
      <4> HIDE DEF Is, Seen
      <4> QED
        BY <2>b, <3>4, <4>1
    <3>8. CASE Slot(sid) # Vacant
      <4>1. Slot(sid) \in SoldierKinds
        <5>1. sid \in Sids /\ Slot(sid) = slots[sid + 1]
          BY <3>8 DEF Slot
        <5>2. slots \in [1 .. Len(slots) -> SoldierKinds \cup {Vacant}] /\ Len(slots) \in Nat
          BY <1>1, LenProperties DEF DefenceTypes
        <5>3. sid + 1 \in 1 .. Len(slots)
          BY <5>1, <5>2 DEF Sids
        <5> QED
          BY <3>8, <5>1, <5>2, <5>3
      <4>2. CampOf(sid) \in GuardCamps \cup {NoCamp}
        BY <1>1 DEF CampOf, DefenceTypes
      <4>3. x \in Seen
        BY <3>4, <3>5, <4>1, <4>2
      <4>4. PICK r, n : r = Append(read, x) /\ n = Len(read)
        OBVIOUS
      <4>5. /\ r \in Seq(Seen) /\ n \in Nat /\ DOMAIN r = 1 .. n + 1 /\ DOMAIN read = 1 .. n
            /\ \A i \in 1 .. n : r[i] = read[i]
            /\ r[n + 1] = x
        <5> HIDE DEF Seen
        <5> QED
          BY <3>1, <4>3, <4>4, AppendProperties, LenProperties
      <4>6. x.sid = sid
        BY <3>5
      <4>7. \A i \in 1 .. n : r[i].sid \in {read[j].sid : j \in 1 .. n}
        BY <4>5
      <4>8. \A i \in 1 .. n : r[i].sid \notin Range(todo) /\ r[i].sid # sid
        BY <3>1, <3>4, <4>5
      <4>9. \A i \in 1 .. n + 1 : i \in 1 .. n \/ i = n + 1
        BY <4>5
      <4>10. Readings(r)
        <5> SUFFICES ASSUME NEW i \in 1 .. n + 1, NEW j \in 1 .. n + 1, i # j
                     PROVE  r[i].sid # r[j].sid
          BY <4>5 DEF Readings
        <5>1. CASE i \in 1 .. n /\ j \in 1 .. n
          BY <3>1, <4>5, <5>1 DEF Readings
        <5>2. CASE i = n + 1
          BY <4>5, <4>6, <4>8, <4>9, <5>2
        <5>3. CASE j = n + 1
          BY <4>5, <4>6, <4>8, <4>9, <5>3
        <5> QED
          BY <4>9, <5>1, <5>2, <5>3
      <4>11. \A i \in DOMAIN r : r[i].sid \notin Range(rest)
        BY <3>4, <4>5, <4>6, <4>8, <4>9
      <4>12. Is(battle', rest, r)
        BY <3>4, <3>6, <3>8, <4>4, <4>10, <4>11
      <4> HIDE DEF Is, Seen
      <4> QED
        BY <2>b, <3>4, <4>5, <4>12
    <3> QED
      BY <3>7, <3>8
  <2> QED
    BY <2>1, <2>2, <2>3
<1> QED
  BY <1>3, <1>4, <1>5 DEF DefenceInv

\* Every step keeps the invariant.
LEMMA DefenceStep == DefenceInv /\ [DefenceNext]_defenceVars => DefenceInv'
<1> SUFFICES ASSUME DefenceInv, [DefenceNext]_defenceVars PROVE DefenceInv'
  OBVIOUS
<1>a. DefenceTypes
  BY DEF DefenceInv
<1>1. ASSUME NEW k \in SoldierKinds, SoldierFinished(k) PROVE DefenceInv'
  <2>1. slots' \in Seq(SoldierKinds \cup {Vacant}) /\ Sids \subseteq Sids'
    BY <1>a, <1>1, SlotFilled
  <2>2. UNCHANGED <<dfd, campOf, change, battle>>
    BY <1>1 DEF SoldierFinished
  <2> QED
    BY <2>1, <2>2, SlotsChange
<1>2. ASSUME NEW sid \in Sids, SoldierDies(sid) PROVE DefenceInv'
  <2>1. slots' \in Seq(SoldierKinds \cup {Vacant}) /\ Sids \subseteq Sids'
    BY <1>a, <1>2, SlotVacated
  <2>2. UNCHANGED <<dfd, campOf, change, battle>>
    BY <1>2 DEF SoldierDies
  <2> QED
    BY <2>1, <2>2, SlotsChange
<1>3. ASSUME NEW sid \in Sids, NEW camp \in GuardCamps \cup {NoCamp}, ChangeSoldierCamp(sid, camp)
      PROVE  DefenceInv'
  BY <1>3, OrderGiven
<1>4. CASE UNCHANGED defenceVars
  <2>1. UNCHANGED <<slots, dfd, campOf, change, battle>>
    BY <1>4 DEF defenceVars
  <2>2. slots' \in Seq(SoldierKinds \cup {Vacant}) /\ Sids \subseteq Sids'
    BY <1>a, <2>1 DEF DefenceTypes, Sids
  <2> QED
    BY <2>1, <2>2, SlotsChange
<1> QED
  BY <1>1, <1>2, <1>3, <1>4, OrderStep, BattleStep DEF DefenceNext

\* The list of defenders, the hash of camps and what clients and battles read of them agree.
LEMMA DefenceShown == DefenceInv => DefendersAgree
<1> SUFFICES ASSUME DefenceInv PROVE DefendersAgree
  OBVIOUS
<1>1. /\ slots \in Seq(SoldierKinds \cup {Vacant})
      /\ dfd \in Seq(Nat) /\ IsInjective(dfd)
      /\ campOf \in [DOMAIN campOf -> GuardCamps]
  BY DEF DefenceInv, DefenceTypes
<1>2. ListsAgree /\ BattleOK
  BY DEF DefenceInv
<1>a. ToSet(dfd) = Range(dfd) /\ ToSet(SoldiersByPlayerID) = Range(SoldiersByPlayerID)
  BY DEF ToSet, Range
<1>3. Once([i \in DOMAIN dfd |-> [sid |-> dfd[i]]])
  BY <1>1 DEF Once, IsInjective
<1>4. \A sid \in Sids : Unordered(sid) => (sid \in ToSet(dfd) <=> sid \in DOMAIN campOf)
  BY <1>2, <1>a DEF ListsAgree
<1>5. \A x : x \in ToSet(SoldiersByPlayerID) <=>
             \E sid \in Sids : /\ Slot(sid) # Vacant
                               /\ x = [sid |-> sid, kind |-> Slot(sid), camp |-> CampOf(sid)]
  BY <1>1, <1>a, Told
<1>6. {x.sid : x \in ToSet(SoldiersByPlayerID)} = {sid \in Sids : Slot(sid) # Vacant}
  <2>1. \A x \in ToSet(SoldiersByPlayerID) : x.sid \in Sids /\ Slot(x.sid) # Vacant
    BY <1>5
  <2>2. \A sid \in Sids : Slot(sid) # Vacant => \E x \in ToSet(SoldiersByPlayerID) : x.sid = sid
    <3> TAKE sid \in Sids
    <3> HAVE Slot(sid) # Vacant
    <3>1. PICK x : x = [sid |-> sid, kind |-> Slot(sid), camp |-> CampOf(sid)]
      OBVIOUS
    <3>2. x \in ToSet(SoldiersByPlayerID) /\ x.sid = sid
      BY <1>5, <3>1
    <3> QED
      BY <3>2
  <2> QED
    BY <2>1, <2>2
<1>7. ASSUME NEW x \in ToSet(SoldiersByPlayerID)
      PROVE  /\ x.kind = Slot(x.sid)
             /\ Unordered(x.sid) => (x.camp # NoCamp <=> x.sid \in ToSet(dfd))
  <2>1. PICK sid \in Sids : x = [sid |-> sid, kind |-> Slot(sid), camp |-> CampOf(sid)]
    BY <1>5, <1>7
  <2>2. x.sid = sid /\ x.kind = Slot(sid) /\ x.camp = CampOf(sid)
    BY <2>1
  <2>3. CampOf(sid) # NoCamp <=> sid \in DOMAIN campOf
    BY <1>1, DefenceAssumption DEF CampOf
  <2> QED
    BY <1>4, <2>2, <2>3
<1>8. battle # Idle => Once(battle.read)
  BY <1>2 DEF BattleOK, Readings, Once
<1> QED
  BY <1>3, <1>4, <1>6, <1>7, <1>8 DEF DefendersAgree, Unordered

\* DefendersKept: whatever deaths, new soldiers, orders and battles come between each
\* other's commands, the list of defenders and the hash of their camps agree but for the
\* soldier whose order is half carried out, the client is told of each living soldier
\* under his index, and a battle meets each defender once (setDfdSoldier, cancelDfdSoldier,
\* getSoldiersByPlayerID, getDefenderSoldiers).
THEOREM DefendersKept == DefenceSpec => []DefendersAgree
<1>1. DefenceInit => DefenceInv
  BY DefenceInitially
<1>2. DefenceInv /\ [DefenceNext]_defenceVars => DefenceInv'
  BY DefenceStep
<1>3. DefenceInv => DefendersAgree
  BY DefenceShown
<1> QED
  BY <1>1, <1>2, <1>3, PTL DEF DefenceSpec
=============================================================================
