------------------------------- MODULE Groups -------------------------------
(***************************************************************************)
(* The army groups of the Python worker.  A group is a row of the mysql    *)
(* table army_group and three redis keys: its members, its leaders and the *)
(* requests to join it; a user's own record names his group and position.  *)
(* One worker handles one request after the other; a request is a step.    *)
(* A call of mysql may raise, before or after the server has done it, and  *)
(* so may a redis command; process() catches what is raised and the rest   *)
(* of the handler is lost, as it is when the worker dies there.            *)
(* Left out: the requests that only read, and the text of a group's message,*)
(* which nothing reads back but the client.                                *)
(***************************************************************************)
EXTENDS Integers, Sequences, FiniteSets

CONSTANTS
    Users,
    Names,          \* group names
    Types,          \* group types clients choose
    MaxGroups,      \* bound on the groups ever created
    MaxFailures,    \* bound on the requests that end half way
    None

ASSUME GroupsAssumption ==
    /\ MaxGroups \in Nat /\ MaxFailures \in Nat
    /\ Types \subseteq 1..3
    /\ \A n \in Names, ty \in Types : None # [name |-> n, type |-> ty]

\* Group types: 1 anybody may join, 2 nobody, 3 with approval.  A run may leave 2
\* out: joinGroup then changes nothing.
\* Positions: 1 member, 2 leader, 3 owner; a user without group has 0.
Positions == 0..3
Ids == 1..MaxGroups
NoGroup == 0

VARIABLES
    table,      \* army_group: [Ids -> None or name and type]
    nextId,     \* AUTO_INCREMENT
    groupId,    \* user#uid groupId
    position,   \* user#uid group#position
    members,    \* group#gid
    leaders,    \* group#gid#leaders
    requests,   \* group#gid#request
    failures,   \* how many requests ended half way
    torn        \* history: <<user, group>> one of these requests left the lists of the
                \* group behind the user's record, or one list behind the other

vars == <<table, nextId, groupId, position, members, leaders, requests, failures, torn>>
records == <<groupId, position>>
lists == <<members, leaders>>

Breaks == failures < MaxFailures /\ failures' = failures + 1
-----------------------------------------------------------------------------
Exists(g) == table[g] # None
UserInGroup(u) == groupId[u] # NoGroup

Records(u, g, pos) ==
    /\ groupId' = [groupId EXCEPT ![u] = g]
    /\ position' = [position EXCEPT ![u] = pos]
WithMember(u, g) == [members EXCEPT ![g] = @ \cup {u}]

\* Faulty variant: a leader is not put on the leader list.
AddUserAsMemberOnly(u, g, pos) ==
    /\ Records(u, g, pos)
    /\ \/ /\ members' = WithMember(u, g) /\ torn' = torn \ {<<u, g>>}
          /\ UNCHANGED <<leaders, failures>>
       \/ /\ Breaks /\ torn' = torn \cup {<<u, g>>}
          /\ members' \in {members} \cup (IF pos = 2 THEN {WithMember(u, g)} ELSE {})
          /\ UNCHANGED leaders

\* addUserIntoGroup: the user's record, the member list, for a leader the
\* leader list; it may end before one of the lists.  The group the user may have
\* been in is not touched.
AddUserIntoGroup(u, g, pos) ==
    /\ Records(u, g, pos)
    /\ \/ /\ members' = WithMember(u, g)
          /\ leaders' = IF pos = 2 THEN [leaders EXCEPT ![g] = @ \cup {u}] ELSE leaders
          /\ torn' = torn \ {<<u, g>>}
          /\ UNCHANGED failures
       \/ /\ Breaks /\ torn' = torn \cup {<<u, g>>}
          /\ members' \in {members} \cup (IF pos = 2 THEN {WithMember(u, g)} ELSE {})
          /\ UNCHANGED leaders

\* The lists of g without u.
WithoutMember(u, g) == [members EXCEPT ![g] = @ \ {u}]

\* Faulty variant: only a user whose record says leader is taken off the leader list, as the
\* comment of deleteUserFromGroup has it.
WithoutLeaderByRecord(u, g) ==
    IF position[u] = 2 THEN [leaders EXCEPT ![g] = @ \ {u}] ELSE leaders

WithoutLeader(u, g) == [leaders EXCEPT ![g] = @ \ {u}]

\* _chooseGroupOwner after u, the owner, has left g.  The first of the leaders
\* is taken by an index into a set, which raises; without leaders it is the
\* member with the most points, here any of them.
ChooseRaises(u, g) == position[u] = 3 /\ WithoutLeader(u, g)[g] # {}
ChosenOwners(u, g) ==
    IF position[u] = 3 /\ ~ChooseRaises(u, g) THEN WithoutMember(u, g)[g] ELSE {}

\* deleteUserFromGroup: u's record is cleared, u taken off the lists of g, and an
\* owner followed by another.
DeleteUserFromGroup(u, g) ==
    /\ members' = WithoutMember(u, g)
    /\ leaders' = WithoutLeader(u, g)
    /\ torn' = torn \ {<<u, g>>}
    /\ IF ChosenOwners(u, g) = {}
       THEN Records(u, NoGroup, 0)
       ELSE \E o \in ChosenOwners(u, g) :
              /\ groupId' = [groupId EXCEPT ![u] = NoGroup, ![o] = g]
              /\ position' = [position EXCEPT ![u] = 0, ![o] = 3]

\* It ends before the member list, before the leader list or before the choice.
DeleteCut(u, g) ==
    /\ Breaks
    /\ Records(u, NoGroup, 0)
    /\ \/ UNCHANGED <<lists, torn>>
       \/ /\ members' = WithoutMember(u, g) /\ UNCHANGED leaders
          /\ torn' = IF u \in leaders[g] THEN torn \cup {<<u, g>>} ELSE torn
       \/ /\ members' = WithoutMember(u, g) /\ leaders' = WithoutLeader(u, g)
          /\ torn' = torn \ {<<u, g>>}

\* deleteGroup, which may raise before or after the row is gone.
DeleteGroup(g) ==
    \/ table' = [table EXCEPT ![g] = None] /\ UNCHANGED failures
    \/ /\ Breaks
       /\ table' = table \/ table' = [table EXCEPT ![g] = None]
-----------------------------------------------------------------------------
Init ==
    /\ table = [g \in Ids |-> None] /\ nextId = 1
    /\ groupId = [u \in Users |-> NoGroup] /\ position = [u \in Users |-> 0]
    /\ members = [g \in Ids |-> {}] /\ leaders = [g \in Ids |-> {}]
    /\ requests = [g \in Ids |-> {}]
    /\ failures = 0 /\ torn = {}

\* createGroup: refused for a user with a group and for a name in use.
CreateGroup(u, n, ty) ==
    /\ nextId \in Ids
    /\ ~UserInGroup(u)
    /\ \A g \in Ids : Exists(g) => table[g].name # n
    /\ table' = [table EXCEPT ![nextId] = [name |-> n, type |-> ty]]
    /\ nextId' = nextId + 1
    /\ AddUserIntoGroup(u, nextId, 3)
    /\ UNCHANGED requests

\* insertGroup raises although the row was inserted, or the handler ends there; the
\* user is not added.
CreateGroupFails(u, n, ty) ==
    /\ nextId \in Ids
    /\ ~UserInGroup(u)
    /\ \A g \in Ids : Exists(g) => table[g].name # n
    /\ table' = [table EXCEPT ![nextId] = [name |-> n, type |-> ty]]
    /\ nextId' = nextId + 1
    /\ Breaks
    /\ UNCHANGED <<records, lists, requests, torn>>

\* joinGroup: at once, or a request that waits for approval.
JoinDirectly(u, g) ==
    /\ ~UserInGroup(u) /\ Exists(g) /\ table[g].type = 1
    /\ AddUserIntoGroup(u, g, 1)
    /\ UNCHANGED <<table, nextId, requests>>

SendJoinRequest(u, g) ==
    /\ ~UserInGroup(u) /\ Exists(g) /\ table[g].type = 3
    /\ requests' = [requests EXCEPT ![g] = @ \cup {u}]
    /\ UNCHANGED <<table, nextId, records, lists, failures, torn>>

\* acceptJoin of any user into any group the client has heard of: no request is looked
\* for or taken off the list, nor are the user's record and the group's row looked at.
AcceptJoin(u, g) ==
    /\ g < nextId
    /\ AddUserIntoGroup(u, g, 1)
    /\ UNCHANGED <<table, nextId, requests>>

\* Faulty variant: the members are counted before the user is taken off the list.
ExitCountedBefore(u, g) ==
    /\ g < nextId
    /\ \/ /\ DeleteUserFromGroup(u, g)
          /\ IF ~ChooseRaises(u, g) /\ members[g] = {}
             THEN DeleteGroup(g) ELSE UNCHANGED <<table, failures>>
       \/ DeleteCut(u, g) /\ UNCHANGED table
    /\ UNCHANGED <<nextId, requests>>

\* exitGroup of any group the client has heard of: one the user was moved away
\* from, or has left already when the request is a repeated one.  The last one
\* out deletes the row, unless choosing the next owner raised before that.
ExitGroup(u, g) ==
    /\ g < nextId
    /\ \/ /\ DeleteUserFromGroup(u, g)
          /\ IF ~ChooseRaises(u, g) /\ WithoutMember(u, g)[g] = {}
             THEN DeleteGroup(g) ELSE UNCHANGED <<table, failures>>
       \/ DeleteCut(u, g) /\ UNCHANGED table
    /\ UNCHANGED <<nextId, requests>>

\* promoteUser: the owner names a user, who need not be in the group.
PromoteUser(u, p) ==
    /\ position[u] = 3
    /\ AddUserIntoGroup(p, groupId[u], 2)
    /\ UNCHANGED <<table, nextId, requests>>

\* updateGroupInfo: the message, then the row; the position that is asked for is the
\* user's in his own group, which g need not be.
UpdateGroupInfo(u, g, ty) ==
    /\ g < nextId
    /\ position[u] = 3
    /\ \/ /\ table' = IF Exists(g) THEN [table EXCEPT ![g].type = ty] ELSE table
          /\ UNCHANGED failures
       \/ Breaks /\ UNCHANGED table
    /\ UNCHANGED <<nextId, records, lists, requests, torn>>

Next ==
    \/ \E u \in Users, n \in Names, ty \in Types :
          CreateGroup(u, n, ty) \/ CreateGroupFails(u, n, ty)
    \/ \E u \in Users, g \in Ids :
          \/ JoinDirectly(u, g) \/ SendJoinRequest(u, g) \/ AcceptJoin(u, g)
          \/ ExitGroup(u, g)
          \/ \E ty \in Types : UpdateGroupInfo(u, g, ty)
    \/ \E u, p \in Users : PromoteUser(u, p)

Spec == Init /\ [][Next]_vars
-----------------------------------------------------------------------------
TypeOK ==
    /\ table \in [Ids -> [name : Names, type : Types] \cup {None}]
    /\ nextId \in 1..(MaxGroups + 1)
    /\ groupId \in [Users -> Ids \cup {NoGroup}]
    /\ position \in [Users -> Positions]
    /\ members \in [Ids -> SUBSET Users]
    /\ leaders \in [Ids -> SUBSET Users]
    /\ requests \in [Ids -> SUBSET Users]
    /\ failures \in 0..MaxFailures
    /\ torn \subseteq Users \X Ids

\* RecordBacked: the group a user's record names has the user on its member list, a
\* user whose record says leader is on its leader list, and nobody without group
\* has a position, although requests move users between groups, are accepted
\* twice and repeated, end half way, and owners are chosen for groups; but for the
\* lists of the very group for which the user's last request ended half way.
RecordBacked ==
    \A u \in Users :
        /\ groupId[u] = NoGroup => position[u] = 0
        /\ groupId[u] # NoGroup /\ <<u, groupId[u]>> \notin torn =>
              /\ u \in members[groupId[u]]
              /\ position[u] = 2 => u \in leaders[groupId[u]]

\* LeadersAreMembers: the leaders of a group are members of it, so that an owner is
\* never looked for among users who left; but for one whose leaving ended between the
\* two lists.
LeadersAreMembers ==
    \A g \in Ids : \A u \in leaders[g] : u \in members[g] \/ <<u, g>> \in torn

\* GroupHasMembers: as long as no request has ended half way, every row of army_group
\* is a group with members: the last one who leaves takes the row with him.
GroupHasMembers == failures = 0 => \A g \in Ids : Exists(g) => members[g] # {}
=============================================================================
