----------------------------- MODULE ClientProofs -----------------------------
(***************************************************************************)
(* What clients see of the gateway: which of their connections is logged   *)
(* in and whom they can chat with, the pages of the configuration they     *)
(* ask for, and the messages they read and are understood by.              *)
(***************************************************************************)
EXTENDS Presence, Config, Wire, SequenceTheorems, FiniteSetTheorems, FunctionTheorems,
        WellFoundedInduction, TLAPS

-----------------------------------------------------------------------------
(* The chat slots and the table of handlers, for every number of players,  *)
(* connections and slots.                                                  *)

\* The tables of ChatWorker by themselves: their types and SlotOnce.
ChatType(c) ==
    /\ c.index \in [Players -> Slots \cup {None}]
    /\ c.remain \in Seq(Slots)
    /\ c.online \subseteq Slots
    /\ c.slot \in [Slots -> Handlers \cup {None}]

FreeOrUsed(c) ==
    /\ IsInjective(c.remain)
    /\ \A i \in DOMAIN c.remain : c.remain[i] \notin c.online
    /\ \A s \in Slots \ c.online : \E i \in DOMAIN c.remain : c.remain[i] = s

IndexUsed(c) ==
    \A p \in Players : c.index[p] # None =>
        /\ c.index[p] \in c.online
        /\ \A q \in Players : p # q => c.index[p] # c.index[q]

ChatOK(c) == ChatType(c) /\ FreeOrUsed(c) /\ IndexUsed(c)

\* A handler that is logged in has a player, and the login that waits for
\* another handler to close is one that was accepted.
Accepted ==
    /\ \A h \in Handlers : logged[h] => uuid[h] \in Players
    /\ \A h \in Handlers : pending[h] \in Handlers => logged[pending[h]]

SlotInv == TypeOK /\ ChatOK(chat) /\ Accepted

\* The table e, and the slots of c, belong to handlers that are logged in (l) as
\* the player (u): OwnHandler, made inductive.
EntryOwned(e, u, l) ==
    \A p \in Players : e[p] \in Handlers => u[e[p]] = p /\ l[e[p]]

SlotOwned(c, u, l) ==
    \A p \in Players : c.index[p] # None =>
        LET h == c.slot[c.index[p]] IN h \in Handlers /\ u[h] = p /\ l[h]

Owned == EntryOwned(entry, uuid, logged) /\ SlotOwned(chat, uuid, logged)

OwnInv == SlotInv /\ ("register" \notin env => Owned)

-----------------------------------------------------------------------------
(* Sequences of slots.                                                     *)

\* remain_player_index without its last index.
LEMMA PopBack ==
    ASSUME NEW r \in Seq(Slots), r # <<>>, IsInjective(r)
    PROVE  LET f == SubSeq(r, 1, Len(r) - 1)
               i == r[Len(r)]
           IN /\ i \in Slots /\ f \in Seq(Slots) /\ IsInjective(f)
              /\ Len(r) \in DOMAIN r
              /\ \A k \in DOMAIN f : k \in DOMAIN r /\ f[k] = r[k] /\ f[k] # i
              /\ \A k \in DOMAIN r : r[k] # i => k \in DOMAIN f
<1> DEFINE n == Len(r)
           f == SubSeq(r, 1, n - 1)
<1>1. n \in Nat /\ n > 0 /\ DOMAIN r = 1 .. n
  OBVIOUS
<1>2. f \in Seq(Slots) /\ Len(f) = n - 1
  BY <1>1, SubSeqProperties
<1>3. \A k \in 1 .. n - 1 : f[k] = r[k]
  BY <1>1, SubSeqProperties
<1>4. DOMAIN f = 1 .. n - 1
  BY <1>2
<1>5. \A k \in DOMAIN f : k \in DOMAIN r /\ k # n /\ f[k] = r[k]
  BY <1>1, <1>3, <1>4
<1>6. n \in DOMAIN r /\ r[n] \in Slots
  BY <1>1
<1>7. \A k \in DOMAIN r : k # n => k \in DOMAIN f
  BY <1>1, <1>4
<1> HIDE DEF f, n
<1>8. IsInjective(f)
  BY <1>5 DEF IsInjective
<1>9. \A k \in DOMAIN f : f[k] # r[n]
  BY <1>5, <1>6 DEF IsInjective
<1> QED
  BY <1>2, <1>5, <1>6, <1>7, <1>8, <1>9 DEF f, n

\* remain_player_index with one more index.
LEMMA PushBack ==
    ASSUME NEW r \in Seq(Slots), IsInjective(r), NEW i \in Slots,
           \A k \in DOMAIN r : r[k] # i
    PROVE  LET a == Append(r, i)
           IN /\ a \in Seq(Slots) /\ IsInjective(a)
              /\ \A k \in DOMAIN a : a[k] = i \/ (k \in DOMAIN r /\ a[k] = r[k])
              /\ \A k \in DOMAIN r : k \in DOMAIN a /\ a[k] = r[k]
              /\ \E k \in DOMAIN a : a[k] = i
<1> DEFINE n == Len(r)
           a == Append(r, i)
<1>1. n \in Nat /\ DOMAIN r = 1 .. n
  OBVIOUS
<1>2. a \in Seq(Slots) /\ Len(a) = n + 1
  BY AppendProperties
<1>3. (\A k \in 1 .. n : a[k] = r[k]) /\ a[n + 1] = i
  BY AppendProperties
<1>4. DOMAIN a = 1 .. n + 1
  BY <1>2
<1>5. \A k \in DOMAIN a : (k = n + 1 /\ a[k] = i) \/ (k \in DOMAIN r /\ a[k] = r[k])
  BY <1>1, <1>3, <1>4
<1>6. /\ \A k \in DOMAIN r : k \in DOMAIN a /\ a[k] = r[k]
      /\ n + 1 \in DOMAIN a
  BY <1>1, <1>3, <1>4
<1> HIDE DEF a, n
<1>7. IsInjective(a)
  BY <1>5 DEF IsInjective
<1> QED
  BY <1>2, <1>3, <1>5, <1>6, <1>7 DEF a, n

-----------------------------------------------------------------------------
(* The operations of ChatWorker.                                           *)

\* OnlineNotify moves one slot from the free ones to those in use.
LEMMA OnlineKeeps ==
    ASSUME NEW c, ChatOK(c), NEW p \in Players, NEW h \in Handlers
    PROVE  ChatOK(OnlineNotify(c, p, h))
<1>1. CASE c.remain = <<>>
  BY <1>1 DEF OnlineNotify
<1>2. CASE c.remain # <<>>
  <2> DEFINE r == c.remain
             i == r[Len(r)]
             f == SubSeq(r, 1, Len(r) - 1)
             x == [c.index EXCEPT ![p] = i]
             o == c.online \cup {i}
             s == [c.slot EXCEPT ![i] = h]
  <2>1. OnlineNotify(c, p, h) = Chat(x, f, o, s)
    BY <1>2 DEF OnlineNotify
  <2>2. /\ i \in Slots /\ f \in Seq(Slots) /\ IsInjective(f)
        /\ Len(r) \in DOMAIN r
        /\ \A k \in DOMAIN f : k \in DOMAIN r /\ f[k] = r[k] /\ f[k] # i
        /\ \A k \in DOMAIN r : r[k] # i => k \in DOMAIN f
    BY <1>2, PopBack DEF ChatOK, ChatType, FreeOrUsed
  <2>3. i \notin c.online
    BY <2>2 DEF ChatOK, FreeOrUsed
  <2>C. /\ Chat(x, f, o, s).index = x /\ Chat(x, f, o, s).remain = f
        /\ Chat(x, f, o, s).online = o /\ Chat(x, f, o, s).slot = s
    BY DEF Chat
  <2> HIDE DEF f, i
  <2>4. ChatType(Chat(x, f, o, s))
    BY <2>2, <2>C DEF ChatOK, ChatType
  <2>5. FreeOrUsed(Chat(x, f, o, s))
    <3>1. \A k \in DOMAIN f : f[k] \notin o
      BY <2>2 DEF ChatOK, FreeOrUsed
    <3>2. \A t \in Slots \ o : \E k \in DOMAIN f : f[k] = t
      BY <2>2 DEF ChatOK, FreeOrUsed
    <3> QED
      BY <2>2, <2>C, <3>1, <3>2 DEF FreeOrUsed
  <2>6. IndexUsed(Chat(x, f, o, s))
    <3>1. \A q \in Players : x[q] = (IF q = p THEN i ELSE c.index[q])
      BY DEF ChatOK, ChatType
    <3>2. \A q \in Players : c.index[q] # None => c.index[q] # i
      BY <2>3 DEF ChatOK, IndexUsed
    <3>3. i # None
      BY <2>2, PresenceAssumption
    <3>4. \A q \in Players : x[q] # None => x[q] \in o
      BY <3>1 DEF ChatOK, IndexUsed
    <3>5. \A q, t \in Players : x[q] # None /\ q # t => x[q] # x[t]
      BY <3>1, <3>2, <3>3 DEF ChatOK, IndexUsed
    <3> HIDE DEF x, o, s
    <3> QED
      BY <2>C, <3>4, <3>5 DEF IndexUsed
  <2> QED
    BY <2>1, <2>4, <2>5, <2>6 DEF ChatOK
<1> QED
  BY <1>1, <1>2

\* OfflineNotify frees the slot of the player, if the player has one.
LEMMA OfflineKeeps ==
    ASSUME NEW c, ChatOK(c), NEW p \in Players
    PROVE  ChatOK(OfflineNotify(c, p))
<1>1. CASE c.index[p] = None
  BY <1>1 DEF OfflineNotify
<1>2. CASE c.index[p] # None
  <2> DEFINE i == c.index[p]
             r == c.remain
             a == Append(r, i)
             x == [c.index EXCEPT ![p] = None]
             o == c.online \ {i}
             s == [c.slot EXCEPT ![i] = None]
  <2>1. OfflineNotify(c, p) = Chat(x, a, o, s)
    BY <1>2 DEF OfflineNotify
  <2>2. i \in Slots /\ i \in c.online
    BY <1>2 DEF ChatOK, ChatType, IndexUsed
  <2>3. r \in Seq(Slots) /\ IsInjective(r) /\ \A k \in DOMAIN r : r[k] # i
    BY <2>2 DEF ChatOK, ChatType, FreeOrUsed
  <2>4. /\ a \in Seq(Slots) /\ IsInjective(a)
        /\ \A k \in DOMAIN a : a[k] = i \/ (k \in DOMAIN r /\ a[k] = r[k])
        /\ \A k \in DOMAIN r : k \in DOMAIN a /\ a[k] = r[k]
        /\ \E k \in DOMAIN a : a[k] = i
    BY <2>2, <2>3, PushBack
  <2>C. /\ Chat(x, a, o, s).index = x /\ Chat(x, a, o, s).remain = a
        /\ Chat(x, a, o, s).online = o /\ Chat(x, a, o, s).slot = s
    BY DEF Chat
  <2> HIDE DEF a, i
  <2>5. ChatType(Chat(x, a, o, s))
    BY <2>2, <2>4, <2>C DEF ChatOK, ChatType
  <2>6. FreeOrUsed(Chat(x, a, o, s))
    <3>1. \A k \in DOMAIN a : a[k] \notin o
      BY <2>4 DEF ChatOK, FreeOrUsed
    <3>2. \A t \in Slots \ o : \E k \in DOMAIN a : a[k] = t
      BY <2>4 DEF ChatOK, FreeOrUsed
    <3> QED
      BY <2>4, <2>C, <3>1, <3>2 DEF FreeOrUsed
  <2>7. IndexUsed(Chat(x, a, o, s))
    <3>1. \A q \in Players : x[q] = (IF q = p THEN None ELSE c.index[q])
      BY DEF ChatOK, ChatType
    <3>2. \A q \in Players : q # p /\ c.index[q] # None => c.index[q] # i
      BY <1>2 DEF ChatOK, IndexUsed, i
    <3>4. \A q \in Players : x[q] # None => x[q] \in o
      BY <3>1, <3>2 DEF ChatOK, IndexUsed
    <3>5. \A q, t \in Players : x[q] # None /\ q # t => x[q] # x[t]
      BY <3>1 DEF ChatOK, IndexUsed
    <3> HIDE DEF x, o, s
    <3> QED
      BY <2>C, <3>4, <3>5 DEF IndexUsed
  <2> QED
    BY <2>1, <2>5, <2>6, <2>7 DEF ChatOK
<1> QED
  BY <1>1, <1>2

-----------------------------------------------------------------------------
(* The steps of the gateway keep SlotInv.                                  *)

\* TypeOK without the environment and the tables of ChatWorker.
StateType ==
    /\ entry \in [Players -> Handlers \cup {Missing, Null}]
    /\ conn \in [Handlers -> {"new", "open", "closing", "closed"}]
    /\ uuid \in [Handlers -> Players \cup {None}]
    /\ logged \in [Handlers -> BOOLEAN]
    /\ clientOff \in [Handlers -> BOOLEAN]
    /\ stamped \subseteq Handlers
    /\ pending \in [Handlers -> Handlers \cup {None}]
    /\ workers \subseteq Players
    /\ done \subseteq Handlers
    /\ fault \in {"none", "freed_login", "erased_iterator", "null_entry"}

\* TypeOK in three parts.
LEMMA TypeSplit == TypeOK <=> env \in Envs /\ StateType /\ ChatType(chat)
BY DEF TypeOK, StateType, ChatType

\* The invariant of the chat tables is the property the runs check.
LEMMA ChatOKSlotOnce == ChatOK(chat) => SlotOnce
<1> SUFFICES ASSUME ChatOK(chat) PROVE SlotOnce
  OBVIOUS
<1>1. IsInjective(chat.remain)
  BY DEF ChatOK, FreeOrUsed
<1>2. Range(chat.remain) \cap chat.online = {}
  BY DEF ChatOK, FreeOrUsed, Range
<1>3. Range(chat.remain) \cup chat.online = Slots
  <2>1. \A k \in DOMAIN chat.remain : chat.remain[k] \in Slots
    BY DEF ChatOK, ChatType
  <2> QED
    BY <2>1 DEF ChatOK, ChatType, FreeOrUsed, Range
<1>4. \A p, q \in Players : chat.index[p] # None =>
         /\ chat.index[p] \in chat.online
         /\ p # q => chat.index[p] # chat.index[q]
  BY DEF ChatOK, IndexUsed
<1> QED
  BY <1>1, <1>2, <1>3, <1>4 DEF SlotOnce

\* At the start all slots are free.
LEMMA InitSlotInv == Init => SlotInv
<1> SUFFICES ASSUME Init PROVE SlotInv
  OBVIOUS
<1> DEFINE r == [i \in 1 .. MaxClient |-> MaxClient - i]
<1>1. chat = Chat([p \in Players |-> None], r, {}, [i \in Slots |-> None])
  BY DEF Init
<1>2. /\ chat.index = [p \in Players |-> None] /\ chat.remain = r
      /\ chat.online = {} /\ chat.slot = [i \in Slots |-> None]
  BY <1>1 DEF Chat
<1>3. r \in Seq(Slots) /\ IsInjective(r)
  BY PresenceAssumption DEF Slots, IsInjective
<1>4. \A t \in Slots : \E k \in DOMAIN r : r[k] = t
  <2> SUFFICES ASSUME NEW t \in Slots PROVE \E k \in DOMAIN r : r[k] = t
    OBVIOUS
  <2>1. MaxClient - t \in DOMAIN r /\ r[MaxClient - t] = t
    BY PresenceAssumption DEF Slots
  <2> QED
    BY <2>1
<1>5. env \in Envs /\ StateType /\ Accepted
  BY PresenceAssumption DEF Init, StateType, Accepted
<1> HIDE DEF r
<1>6. ChatType(chat)
  BY <1>2, <1>3 DEF ChatType
<1>7. FreeOrUsed(chat)
  BY <1>2, <1>3, <1>4 DEF FreeOrUsed
<1>8. IndexUsed(chat)
  BY <1>2 DEF IndexUsed
<1> QED
  BY <1>5, <1>6, <1>7, <1>8, TypeSplit DEF SlotInv, ChatOK

\* login_handle2 enters the player in the tables it finds.
LEMMA LoginHandle2Keeps ==
    ASSUME StateType, NEW h \in Handlers, NEW p \in Players,
           NEW e \in [Players -> Handlers \cup {Missing, Null}],
           NEW c, ChatOK(c), NEW w \in SUBSET Players,
           LoginHandle2(h, p, e, c, w)
    PROVE  /\ entry' \in [Players -> Handlers \cup {Missing, Null}]
           /\ ChatOK(chat')
           /\ workers' \subseteq Players /\ done' \subseteq Handlers
           /\ logged' \in [Handlers -> BOOLEAN]
           /\ \A g \in Handlers : logged'[g] <=> logged[g] \/ g = h
<1>1. entry' \in [Players -> Handlers \cup {Missing, Null}]
  BY DEF LoginHandle2
<1>2. ChatOK(chat')
  BY OnlineKeeps DEF LoginHandle2
<1>3. workers' \subseteq Players /\ done' \subseteq Handlers
  BY DEF LoginHandle2, StateType
<1>4. logged' \in [Handlers -> BOOLEAN]
  BY DEF LoginHandle2, StateType
<1>5. \A g \in Handlers : logged'[g] <=> logged[g] \/ g = h
  BY DEF LoginHandle2, StateType
<1> QED
  BY <1>1, <1>2, <1>3, <1>4, <1>5

\* Every step keeps SlotInv.
LEMMA StepSlotInv == SlotInv /\ [Next]_vars => SlotInv'
<1> SUFFICES ASSUME SlotInv, [Next]_vars PROVE SlotInv'
  OBVIOUS
<1>E. env \in Envs /\ env' = env
  BY DEF SlotInv, TypeOK, Next, vars
<1> SUFFICES StateType' /\ ChatOK(chat') /\ Accepted'
  BY <1>E DEF SlotInv, TypeOK, StateType, ChatOK, ChatType
<1>S. StateType /\ ChatOK(chat) /\ Accepted
  BY TypeSplit DEF SlotInv
<1>1. CASE UNCHANGED vars
  BY <1>S, <1>1 DEF vars, StateType, Accepted
<1>2. ASSUME NEW h \in Handlers, Connect(h) \/ HeartBeatRequest(h) \/ Rejected(h)
      PROVE  StateType' /\ ChatOK(chat') /\ Accepted'
  <2>1. StateType'
    BY <1>S, <1>2 DEF Connect, HeartBeatRequest, Rejected, Stamp, Closing, StateType
  <2>2. /\ chat' = chat /\ uuid' = uuid /\ logged' = logged /\ pending' = pending
    BY <1>2 DEF Connect, HeartBeatRequest, Rejected
  <2> QED
    BY <1>S, <2>1, <2>2 DEF Accepted
<1>3. ASSUME NEW h \in Handlers, OnClose(h)
      PROVE  StateType' /\ ChatOK(chat') /\ Accepted'
  <2> DEFINE p == uuid[h]
             here == p # None /\ entry[p] # Missing
             e == IF here /\ clientOff[h] THEN [entry EXCEPT ![p] = Missing]
                  ELSE entry
             c == IF here THEN OfflineNotify(chat, p) ELSE chat
             w == IF here THEN workers \ {p} ELSE workers
             next == pending[h]
  <2>1. e \in [Players -> Handlers \cup {Missing, Null}] /\ w \in SUBSET Players
    BY <1>S DEF StateType
  <2>2. ChatOK(c)
    BY <1>S, OfflineKeeps DEF StateType
  <2>3. /\ conn' = [conn EXCEPT ![h] = "closed"]
        /\ pending' = [pending EXCEPT ![h] = None]
        /\ uuid' = uuid /\ clientOff' = clientOff /\ stamped' = stamped
    BY <1>3 DEF OnClose
  <2>4. /\ conn' \in [Handlers -> {"new", "open", "closing", "closed"}]
        /\ pending' \in [Handlers -> Handlers \cup {None}]
        /\ \A g \in Handlers : pending'[g] \in Handlers => pending'[g] = pending[g]
    BY <1>S, <2>3, PresenceAssumption DEF StateType
  <2>5. CASE next = None
    <3>1. entry' = e /\ chat' = c /\ workers' = w /\ UNCHANGED <<logged, done, fault>>
      BY <1>3, <2>5 DEF OnClose
    <3> HIDE DEF e, c, w, next
    <3>2. StateType'
      BY <1>S, <2>1, <2>3, <2>4, <3>1 DEF StateType
    <3>3. Accepted'
      BY <1>S, <2>3, <2>4, <3>1 DEF Accepted
    <3> QED
      BY <2>2, <3>1, <3>2, <3>3
  <2>6. CASE next # None /\ Referenced(next)
    <3>1. LoginHandle2(next, uuid[next], e, c, w) /\ UNCHANGED fault
      BY <1>3, <2>6 DEF OnClose
    <3>2. next \in Handlers /\ uuid[next] \in Players
      BY <1>S, <2>6 DEF StateType, Accepted
    <3> HIDE DEF e, c, w, next
    <3>3. /\ entry' \in [Players -> Handlers \cup {Missing, Null}]
          /\ ChatOK(chat')
          /\ workers' \subseteq Players /\ done' \subseteq Handlers
          /\ logged' \in [Handlers -> BOOLEAN]
          /\ \A g \in Handlers : logged'[g] <=> logged[g] \/ g = next
      BY <1>S, <2>1, <2>2, <3>1, <3>2, LoginHandle2Keeps
    <3>4. StateType'
      BY <1>S, <2>3, <2>4, <3>1, <3>3 DEF StateType
    <3>5. Accepted'
      BY <1>S, <2>3, <2>4, <3>2, <3>3 DEF Accepted
    <3> QED
      BY <3>3, <3>4, <3>5
  <2>7. CASE next # None /\ ~Referenced(next)
    <3>1. /\ fault' = "freed_login"
          /\ UNCHANGED <<entry, chat, workers, logged, done>>
      BY <1>3, <2>7 DEF OnClose
    <3> HIDE DEF e, c, w, next
    <3>2. StateType'
      BY <1>S, <2>3, <2>4, <3>1 DEF StateType
    <3>3. Accepted'
      BY <1>S, <2>3, <2>4, <3>1 DEF Accepted
    <3> QED
      BY <1>S, <3>1, <3>2, <3>3
  <2> QED
    BY <2>5, <2>6, <2>7
<1>4. ASSUME NEW h \in Handlers, NEW p \in Players, LoginRequest(h, p)
      PROVE  StateType' /\ ChatOK(chat') /\ Accepted'
  <2>1. /\ uuid' = [uuid EXCEPT ![h] = p] /\ fault' = fault
        /\ stamped' \subseteq Handlers
    BY <1>S, <1>4 DEF LoginRequest, Stamp, StateType
  <2>2. /\ uuid' \in [Handlers -> Players \cup {None}]
        /\ \A g \in Handlers : uuid'[g] = IF g = h THEN p ELSE uuid[g]
    BY <1>S, <2>1 DEF StateType
  <2>3. CASE entry[p] \in Handlers
    <3> DEFINE old == entry[p]
    <3>1. Displace(old, h, p)
      BY <1>4, <2>3 DEF LoginRequest
    <3>2. /\ logged' = [logged EXCEPT ![h] = TRUE]
          /\ pending' = [pending EXCEPT ![old] = h]
          /\ chat' = chat
      BY <3>1 DEF Displace
    <3> HIDE DEF old
    <3>3. /\ entry' \in [Players -> Handlers \cup {Missing, Null}]
          /\ conn' \in [Handlers -> {"new", "open", "closing", "closed"}]
          /\ logged' \in [Handlers -> BOOLEAN]
          /\ clientOff' \in [Handlers -> BOOLEAN]
          /\ pending' \in [Handlers -> Handlers \cup {None}]
          /\ workers' = workers /\ done' = done
      BY <1>S, <3>1 DEF Displace, Closing, StateType
    <3>4. StateType'
      BY <1>S, <2>1, <2>2, <3>3 DEF StateType
    <3>5. \A g \in Handlers : logged'[g] <=> logged[g] \/ g = h
      BY <1>S, <3>2 DEF StateType
    <3>6. \A g \in Handlers : pending'[g] = h \/ pending'[g] = pending[g]
      BY <1>S, <3>2 DEF StateType
    <3>7. Accepted'
      BY <1>S, <2>2, <3>5, <3>6 DEF Accepted
    <3> QED
      BY <1>S, <3>2, <3>4, <3>7
  <2>4. CASE entry[p] \notin Handlers
    <3>1. /\ LoginHandle2(h, p, entry, chat, workers)
          /\ UNCHANGED <<clientOff, pending, conn>>
      BY <1>4, <2>4 DEF LoginRequest
    <3>2. /\ entry' \in [Players -> Handlers \cup {Missing, Null}]
          /\ ChatOK(chat')
          /\ workers' \subseteq Players /\ done' \subseteq Handlers
          /\ logged' \in [Handlers -> BOOLEAN]
          /\ \A g \in Handlers : logged'[g] <=> logged[g] \/ g = h
      <4>1. entry \in [Players -> Handlers \cup {Missing, Null}]
            /\ workers \in SUBSET Players
        BY <1>S DEF StateType
      <4> QED
        BY <1>S, <3>1, <4>1, LoginHandle2Keeps
    <3>3. StateType'
      BY <1>S, <2>1, <2>2, <3>1, <3>2 DEF StateType
    <3>4. Accepted'
      BY <1>S, <2>2, <3>1, <3>2 DEF Accepted
    <3> QED
      BY <3>2, <3>3, <3>4
  <2> QED
    BY <2>3, <2>4
<1>5. ASSUME NEW h \in Handlers, NEW p \in Players, RegisterRequest(h, p)
      PROVE  StateType' /\ ChatOK(chat') /\ Accepted'
  <2>1. /\ uuid' = [uuid EXCEPT ![h] = p] /\ fault' = fault
        /\ stamped' \subseteq Handlers
        /\ LoginHandle2(h, p, entry, chat, workers)
        /\ UNCHANGED <<clientOff, pending, conn>>
    BY <1>S, <1>5 DEF RegisterRequest, Stamp, StateType
  <2>2. /\ uuid' \in [Handlers -> Players \cup {None}]
        /\ \A g \in Handlers : uuid'[g] = IF g = h THEN p ELSE uuid[g]
    BY <1>S, <2>1 DEF StateType
  <2>3. /\ entry' \in [Players -> Handlers \cup {Missing, Null}]
        /\ ChatOK(chat')
        /\ workers' \subseteq Players /\ done' \subseteq Handlers
        /\ logged' \in [Handlers -> BOOLEAN]
        /\ \A g \in Handlers : logged'[g] <=> logged[g] \/ g = h
    <3>1. entry \in [Players -> Handlers \cup {Missing, Null}]
          /\ workers \in SUBSET Players
      BY <1>S DEF StateType
    <3> QED
      BY <1>S, <2>1, <3>1, LoginHandle2Keeps
  <2>4. StateType'
    BY <1>S, <2>1, <2>2, <2>3 DEF StateType
  <2>5. Accepted'
    BY <1>S, <2>1, <2>2, <2>3 DEF Accepted
  <2> QED
    BY <2>3, <2>4, <2>5
<1>6. ASSUME NEW idle \in SUBSET MayBeIdle, HeartCheck(idle)
      PROVE  StateType' /\ ChatOK(chat') /\ Accepted'
  <2>1. /\ chat' = chat /\ uuid' = uuid /\ logged' = logged /\ pending' = pending
        /\ stamped' = stamped /\ workers' = workers /\ done' = done
    BY <1>6 DEF HeartCheck
  <2>2. /\ entry' \in [Players -> Handlers \cup {Missing, Null}]
        /\ conn' \in [Handlers -> {"new", "open", "closing", "closed"}]
        /\ fault' \in {"none", "erased_iterator"}
    BY <1>S, <1>6 DEF HeartCheck, StateType
  <2>3. clientOff' \in [Handlers -> BOOLEAN]
    BY <1>S, <1>6 DEF HeartCheck, StateType
  <2>4. StateType'
    BY <1>S, <2>1, <2>2, <2>3 DEF StateType
  <2> QED
    BY <1>S, <2>1, <2>4 DEF Accepted
<1>7. ASSUME NEW p \in Players, HandlerInGateway(p) \/ MarketNotice(p)
      PROVE  StateType' /\ ChatOK(chat') /\ Accepted'
  <2>1. /\ chat' = chat /\ uuid' = uuid /\ logged' = logged /\ pending' = pending
    BY <1>7 DEF HandlerInGateway, MarketNotice
  <2>2. StateType'
    BY <1>S, <1>7 DEF HandlerInGateway, MarketNotice, StateType
  <2> QED
    BY <1>S, <2>1, <2>2 DEF Accepted
<1> QED
  BY <1>1, <1>2, <1>3, <1>4, <1>5, <1>6, <1>7 DEF Next, HandlerNext

\* A slot of ChatWorker is free once or in use, and two players never share one,
\* for every number of players, connections and slots, whatever clients and
\* workers do (OnlineNotify and OfflineNotify, however they are called).
THEOREM SlotsOnce == Spec => [](TypeOK /\ SlotOnce)
<1>1. Init => SlotInv
  BY InitSlotInv
<1>2. SlotInv /\ [Next]_vars => SlotInv'
  BY StepSlotInv
<1>3. SlotInv => TypeOK /\ SlotOnce
  BY ChatOKSlotOnce DEF SlotInv
<1> QED
  BY <1>1, <1>2, <1>3, PTL DEF Spec

-----------------------------------------------------------------------------
(* The tables lead to the player's own connection.                         *)

\* Freeing the slot of one player leaves the others theirs.
LEMMA OfflineOwned ==
    ASSUME NEW c, ChatOK(c), NEW p \in Players, NEW u, NEW l, SlotOwned(c, u, l)
    PROVE  SlotOwned(OfflineNotify(c, p), u, l)
<1>1. CASE c.index[p] = None
  BY <1>1 DEF OfflineNotify
<1>2. CASE c.index[p] # None
  <2> DEFINE i == c.index[p]
             x == [c.index EXCEPT ![p] = None]
             s == [c.slot EXCEPT ![i] = None]
             d == OfflineNotify(c, p)
  <2>1. d.index = x /\ d.slot = s
    BY <1>2 DEF OfflineNotify, Chat
  <2>2. \A q \in Players : x[q] # None => /\ q # p /\ x[q] = c.index[q]
                                          /\ x[q] # i /\ x[q] \in Slots
    BY DEF ChatOK, ChatType, IndexUsed
  <2>3. \A k \in Slots : k # i => s[k] = c.slot[k]
    BY DEF ChatOK, ChatType
  <2> HIDE DEF x, s, d, i
  <2>4. \A q \in Players : d.index[q] # None =>
           c.index[q] # None /\ d.slot[d.index[q]] = c.slot[c.index[q]]
    BY <2>1, <2>2, <2>3
  <2> QED
    BY <2>4 DEF SlotOwned, d
<1> QED
  BY <1>1, <1>2

\* A new slot belongs to the handler that logs in.
LEMMA OnlineOwned ==
    ASSUME NEW c, ChatOK(c), NEW p \in Players, NEW h \in Handlers, NEW u, NEW l,
           SlotOwned(c, u, l), u[h] = p, l[h]
    PROVE  SlotOwned(OnlineNotify(c, p, h), u, l)
<1>1. CASE c.remain = <<>>
  BY <1>1 DEF OnlineNotify
<1>2. CASE c.remain # <<>>
  <2> DEFINE i == c.remain[Len(c.remain)]
             x == [c.index EXCEPT ![p] = i]
             s == [c.slot EXCEPT ![i] = h]
             d == OnlineNotify(c, p, h)
  <2>1. d.index = x /\ d.slot = s
    BY <1>2 DEF OnlineNotify, Chat
  <2>2. i \in Slots /\ i \notin c.online
    BY <1>2, PopBack DEF ChatOK, ChatType, FreeOrUsed
  <2> HIDE DEF i
  <2>3. x[p] = i /\ s[i] = h
    BY <2>2 DEF ChatOK, ChatType
  <2>4. \A q \in Players : q # p => x[q] = c.index[q]
    BY DEF ChatOK, ChatType
  <2>5. \A q \in Players : c.index[q] # None => c.index[q] \in Slots /\ c.index[q] # i
    BY <2>2 DEF ChatOK, ChatType, IndexUsed
  <2>6. \A k \in Slots : k # i => s[k] = c.slot[k]
    BY DEF ChatOK, ChatType
  <2> HIDE DEF x, s, d
  <2>7. d.slot[d.index[p]] = h
    BY <2>1, <2>3
  <2>8. \A q \in Players : q # p /\ d.index[q] # None =>
           c.index[q] # None /\ d.slot[d.index[q]] = c.slot[c.index[q]]
    BY <2>1, <2>4, <2>5, <2>6
  <2> QED
    BY <2>7, <2>8 DEF SlotOwned, d
<1> QED
  BY <1>1, <1>2

\* A login changes the player only of a handler that neither table refers to.
LEMMA LoginOwned ==
    ASSUME NEW u, NEW l, NEW u2, NEW l2, NEW h \in Handlers, ~l[h],
           \A g \in Handlers : g # h => u2[g] = u[g],
           \A g \in Handlers : l[g] => l2[g],
           NEW e, EntryOwned(e, u, l), NEW c, SlotOwned(c, u, l)
    PROVE  EntryOwned(e, u2, l2) /\ SlotOwned(c, u2, l2)
BY DEF EntryOwned, SlotOwned

\* login_handle2 of the handler that logs in as p.
LEMMA LoginHandle2Owned ==
    ASSUME NEW h \in Handlers, NEW p \in Players,
           NEW e \in [Players -> Handlers \cup {Missing, Null}],
           NEW c, ChatOK(c), NEW w, NEW u, NEW l,
           EntryOwned(e, u, l), SlotOwned(c, u, l), u[h] = p, l[h],
           LoginHandle2(h, p, e, c, w)
    PROVE  EntryOwned(entry', u, l) /\ SlotOwned(chat', u, l)
<1>1. SlotOwned(chat', u, l)
  BY OnlineOwned DEF LoginHandle2
<1>2. \A q \in Players : entry'[q] = IF q = p THEN h ELSE e[q]
  BY DEF LoginHandle2
<1> QED
  BY <1>1, <1>2 DEF EntryOwned

\* Every step keeps the tables owned, unless a client registers while it is
\* logged in.
LEMMA StepOwned ==
    ASSUME "register" \notin env, SlotInv, Owned, [Next]_vars
    PROVE  Owned'
<1> SUFFICES EntryOwned(entry', uuid', logged') /\ SlotOwned(chat', uuid', logged')
  BY DEF Owned, EntryOwned, SlotOwned
<1> DEFINE Goal == EntryOwned(entry', uuid', logged') /\ SlotOwned(chat', uuid', logged')
<1>S. /\ StateType /\ ChatOK(chat) /\ Accepted
      /\ EntryOwned(entry, uuid, logged) /\ SlotOwned(chat, uuid, logged)
  BY TypeSplit DEF SlotInv, Owned
<1>1. CASE UNCHANGED vars
  BY <1>S, <1>1 DEF vars
<1>2. ASSUME NEW h \in Handlers, Connect(h) \/ HeartBeatRequest(h) \/ Rejected(h)
      PROVE  Goal
  <2>1. chat' = chat /\ uuid' = uuid /\ logged' = logged /\ entry' = entry
    BY <1>2 DEF Connect, HeartBeatRequest, Rejected
  <2> QED
    BY <1>S, <2>1
<1>3. ASSUME NEW h \in Handlers, OnClose(h)
      PROVE  Goal
  <2> DEFINE p == uuid[h]
             here == p # None /\ entry[p] # Missing
             e == IF here /\ clientOff[h] THEN [entry EXCEPT ![p] = Missing]
                  ELSE entry
             c == IF here THEN OfflineNotify(chat, p) ELSE chat
             w == IF here THEN workers \ {p} ELSE workers
             next == pending[h]
  <2>1. /\ e \in [Players -> Handlers \cup {Missing, Null}]
        /\ \A q \in Players : e[q] = entry[q] \/ e[q] = Missing
    BY <1>S DEF StateType
  <2>2. ChatOK(c) /\ SlotOwned(c, uuid, logged)
    BY <1>S, OfflineKeeps, OfflineOwned DEF StateType
  <2>3. EntryOwned(e, uuid, logged)
    BY <1>S, <2>1, PresenceAssumption DEF EntryOwned
  <2>4. uuid' = uuid
    BY <1>3 DEF OnClose
  <2>5. CASE next = None
    <3>1. entry' = e /\ chat' = c /\ logged' = logged
      BY <1>3, <2>5 DEF OnClose
    <3> QED
      BY <2>2, <2>3, <2>4, <3>1
  <2>6. CASE next # None /\ Referenced(next)
    <3>1. LoginHandle2(next, uuid[next], e, c, w)
      BY <1>3, <2>6 DEF OnClose
    <3>2. next \in Handlers /\ uuid[next] \in Players /\ logged[next]
      BY <1>S, <2>6 DEF StateType, Accepted
    <3>3. logged' = logged
      BY <1>S, <3>1, <3>2 DEF LoginHandle2, StateType
    <3> HIDE DEF e, c, w, next
    <3>4. EntryOwned(entry', uuid, logged) /\ SlotOwned(chat', uuid, logged)
      BY <2>1, <2>2, <2>3, <3>1, <3>2, LoginHandle2Owned
    <3> QED
      BY <2>4, <3>3, <3>4
  <2>7. CASE next # None /\ ~Referenced(next)
    <3>1. entry' = entry /\ chat' = chat /\ logged' = logged
      BY <1>3, <2>7 DEF OnClose
    <3> QED
      BY <1>S, <2>4, <3>1
  <2> QED
    BY <2>5, <2>6, <2>7
<1>4. ASSUME NEW h \in Handlers, NEW p \in Players,
             LoginRequest(h, p) \/ RegisterRequest(h, p)
      PROVE  Goal
  <2>1. ~logged[h] /\ uuid' = [uuid EXCEPT ![h] = p]
    BY <1>4 DEF LoginRequest, RegisterRequest, MayLogin
  <2>2. logged' = [logged EXCEPT ![h] = TRUE]
    BY <1>4 DEF LoginRequest, RegisterRequest, LoginHandle2, Displace
  <2>3. /\ uuid'[h] = p /\ logged'[h]
        /\ \A g \in Handlers : g # h => uuid'[g] = uuid[g]
        /\ \A g \in Handlers : logged[g] => logged'[g]
    BY <1>S, <2>1, <2>2 DEF StateType
  <2>4. EntryOwned(entry, uuid', logged') /\ SlotOwned(chat, uuid', logged')
    BY <1>S, <2>1, <2>3, LoginOwned
  <2>5. CASE LoginHandle2(h, p, entry, chat, workers)
    <3>1. entry \in [Players -> Handlers \cup {Missing, Null}]
      BY <1>S DEF StateType
    <3> QED
      BY <1>S, <2>3, <2>4, <2>5, <3>1, LoginHandle2Owned
  <2>6. CASE Displace(entry[p], h, p)
    <3>1. chat' = chat /\ \A q \in Players : entry'[q] = entry[q] \/ entry'[q] = Missing
      BY <1>S, <2>6 DEF Displace, StateType
    <3> QED
      BY <2>4, <3>1, PresenceAssumption DEF EntryOwned
  <2> QED
    BY <1>4, <2>5, <2>6 DEF LoginRequest, RegisterRequest
<1>5. ASSUME NEW idle \in SUBSET MayBeIdle, HeartCheck(idle)
      PROVE  Goal
  <2>1. /\ chat' = chat /\ uuid' = uuid /\ logged' = logged
        /\ \A q \in Players : entry'[q] = entry[q] \/ entry'[q] = Missing
    BY <1>5 DEF HeartCheck
  <2> QED
    BY <1>S, <2>1, PresenceAssumption DEF EntryOwned
<1>6. ASSUME NEW p \in Players, HandlerInGateway(p) \/ MarketNotice(p)
      PROVE  Goal
  <2>1. /\ chat' = chat /\ uuid' = uuid /\ logged' = logged
        /\ \A q \in Players : entry'[q] = entry[q] \/ entry'[q] = Null
    BY <1>S, <1>6 DEF HandlerInGateway, MarketNotice, StateType
  <2> QED
    BY <1>S, <2>1, PresenceAssumption DEF EntryOwned
<1> QED
  BY <1>1, <1>2, <1>3, <1>4, <1>5, <1>6 DEF Next, HandlerNext

\* Nobody is online at the start.
LEMMA InitOwnInv == Init => OwnInv
<1> SUFFICES ASSUME Init PROVE OwnInv
  OBVIOUS
<1>1. chat.index = [p \in Players |-> None] /\ entry = [p \in Players |-> Missing]
  BY DEF Init, Chat
<1>2. EntryOwned(entry, uuid, logged) /\ SlotOwned(chat, uuid, logged)
  BY <1>1, PresenceAssumption DEF EntryOwned, SlotOwned
<1> QED
  BY <1>2, InitSlotInv DEF OwnInv, Owned

\* Every step keeps the handlers and slots with the players they belong to.
LEMMA StepOwnInv == OwnInv /\ [Next]_vars => OwnInv'
<1> SUFFICES ASSUME OwnInv, [Next]_vars PROVE OwnInv'
  OBVIOUS
<1>1. SlotInv'
  BY StepSlotInv DEF OwnInv
<1>2. env' = env
  BY DEF Next, vars
<1>3. "register" \notin env => Owned'
  BY StepOwned DEF OwnInv
<1> QED
  BY <1>1, <1>2, <1>3 DEF OwnInv

\* As long as no client registers an account while it is logged in, the table of
\* handlers and the chat slots lead to connections that logged in as the player,
\* through any number of displaced and timed out logins.
THEOREM OwnHandlers == Spec => []OwnHandler
<1>1. OwnInv => OwnHandler
  BY DEF OwnInv, Owned, EntryOwned, SlotOwned, OwnHandler
<1> QED
  BY <1>1, InitOwnInv, StepOwnInv, PTL DEF Spec

-----------------------------------------------------------------------------
(* A login that waits is not forgotten.                                    *)

\* The table leads to connections that are not closed, have finished their login, and
\* are not told to finish another.
Entered ==
    \A p \in Players : entry[p] \in Handlers =>
        LET h == entry[p]
        IN /\ conn[h] \in {"open", "closing"}
           /\ uuid[h] = p /\ h \in done /\ clientOff[h] /\ pending[h] = None

\* Displaced, timed out and listed connections have finished their login, which was
\* accepted, on a connection that is established.
LoginFinished ==
    \A h \in Handlers :
        /\ logged[h] => conn[h] # "new"
        /\ h \in done => logged[h]
        /\ ~clientOff[h] => h \in done
        /\ \A i \in Slots : chat.slot[i] = h => h \in done

\* A connection that will finish the login of another is closing, that login is not
\* finished, and nobody else will finish it.
WaitsForOne ==
    \A g \in Handlers : pending[g] # None =>
        /\ conn[g] = "closing" /\ g \in done /\ pending[g] \notin done
        /\ \A f \in Handlers : pending[f] = pending[g] => f = g

\* LoginPending without its condition.
Waited ==
    \A h \in Handlers :
        logged[h] /\ h \notin done /\ conn[h] # "closed" =>
            \E g \in Handlers : pending[g] = h /\ conn[g] = "closing"

Orderly == Entered /\ LoginFinished /\ WaitsForOne /\ Waited

WaitInv == OwnInv /\ ("register" \notin env => Orderly)

\* What login_handle2 changes.
LEMMA LoginChanges ==
    ASSUME StateType, NEW h \in Handlers, NEW p \in Players,
           NEW e \in [Players -> Handlers \cup {Missing, Null}],
           NEW c, ChatOK(c), NEW w, LoginHandle2(h, p, e, c, w)
    PROVE  /\ \A q \in Players : entry'[q] = IF q = p THEN h ELSE e[q]
           /\ \A g \in Handlers : g \in done' <=> g \in done \/ g = h
           /\ \A g \in Handlers : logged'[g] <=> logged[g] \/ g = h
           /\ \A i \in Slots : chat'.slot[i] = c.slot[i] \/ chat'.slot[i] = h
<1>1. \A q \in Players : entry'[q] = IF q = p THEN h ELSE e[q]
  BY DEF LoginHandle2
<1>2. \A g \in Handlers : (g \in done' <=> g \in done \/ g = h)
  BY DEF LoginHandle2
<1>3. \A g \in Handlers : (logged'[g] <=> logged[g] \/ g = h)
  BY DEF LoginHandle2, StateType
<1>4. \A i \in Slots : chat'.slot[i] = c.slot[i] \/ chat'.slot[i] = h
  <2>1. chat' = OnlineNotify(c, p, h)
    BY DEF LoginHandle2
  <2>2. CASE c.remain = <<>>
    BY <2>1, <2>2 DEF OnlineNotify
  <2>3. CASE c.remain # <<>>
    <3>1. chat'.slot = [c.slot EXCEPT ![c.remain[Len(c.remain)]] = h]
      BY <2>1, <2>3 DEF OnlineNotify, Chat
    <3> QED
      BY <3>1 DEF ChatOK, ChatType
  <2> QED
    BY <2>2, <2>3
<1> QED
  BY <1>1, <1>2, <1>3, <1>4

\* OfflineNotify takes a handler out of a slot.
LEMMA OfflineChanges ==
    ASSUME NEW c, ChatOK(c), NEW p \in Players
    PROVE  \A i \in Slots : LET s == OfflineNotify(c, p).slot[i]
                            IN s = c.slot[i] \/ s = None
<1>1. CASE c.index[p] = None
  BY <1>1 DEF OfflineNotify
<1>2. CASE c.index[p] # None
  <2>1. OfflineNotify(c, p).slot = [c.slot EXCEPT ![c.index[p]] = None]
    BY <1>2 DEF OfflineNotify, Chat
  <2> QED
    BY <2>1 DEF ChatOK, ChatType
<1> QED
  BY <1>1, <1>2

\* Every step keeps logins orderly, unless a client registers while it is logged in.
LEMMA StepOrderly ==
    ASSUME "register" \notin env, OwnInv, Orderly, [Next]_vars
    PROVE  Orderly'
<1>S. /\ StateType /\ ChatOK(chat) /\ Accepted
      /\ EntryOwned(entry, uuid, logged) /\ SlotOwned(chat, uuid, logged)
      /\ Entered /\ LoginFinished /\ WaitsForOne /\ Waited
      /\ None \notin Handlers /\ None \notin Players
      /\ Missing \notin Handlers /\ Null \notin Handlers
  BY TypeSplit, PresenceAssumption DEF OwnInv, SlotInv, Owned, Orderly
<1>0. ASSUME UNCHANGED vars PROVE Orderly'
  BY <1>S, <1>0 DEF vars, Orderly, Entered, LoginFinished, WaitsForOne, Waited
<1>1. ASSUME NEW h \in Handlers, Connect(h) \/ HeartBeatRequest(h) \/ Rejected(h)
      PROVE  Orderly'
  <2>1. UNCHANGED <<entry, uuid, logged, clientOff, pending, chat, done>>
    BY <1>1 DEF Connect, HeartBeatRequest, Rejected
  <2>2. \A g \in Handlers :
           \/ conn'[g] = conn[g]
           \/ g = h /\ conn[g] = "new" /\ conn'[g] = "open"
           \/ g = h /\ conn[g] = "open" /\ conn'[g] = "closing"
    BY <1>S, <1>1 DEF Connect, HeartBeatRequest, Rejected, Closing, StateType
  <2>3. Entered'
    BY <1>S, <2>1, <2>2 DEF Entered
  <2>4. LoginFinished'
    BY <1>S, <2>1, <2>2 DEF LoginFinished
  <2>5. WaitsForOne'
    BY <1>S, <2>1, <2>2 DEF WaitsForOne
  <2>6. Waited'
    <3> SUFFICES ASSUME NEW k \in Handlers, logged[k], k \notin done, conn'[k] # "closed"
                 PROVE  \E g \in Handlers : pending[g] = k /\ conn'[g] = "closing"
      BY <2>1 DEF Waited
    <3>1. conn[k] # "closed"
      BY <2>2
    <3>2. PICK g \in Handlers : pending[g] = k /\ conn[g] = "closing"
      BY <1>S, <3>1 DEF Waited
    <3> QED
      BY <2>2, <3>2
  <2> QED
    BY <2>3, <2>4, <2>5, <2>6 DEF Orderly
<1>2. ASSUME NEW h \in Handlers, NEW p \in Players, ~logged[h], Receives(h),
             uuid' = [uuid EXCEPT ![h] = p],
             LoginHandle2(h, p, entry, chat, workers),
             UNCHANGED <<clientOff, pending, conn>>
      PROVE  Orderly'
  <2>1. h \notin done /\ clientOff[h] /\ pending[h] = None
    BY <1>S, <1>2 DEF LoginFinished, WaitsForOne
  <2>2. \A g \in Handlers : pending[g] # h
    BY <1>S, <1>2 DEF Accepted
  <2>3. conn[h] \in {"open", "closing"}
    BY <1>2 DEF Receives
  <2>4. /\ \A q \in Players : entry'[q] = IF q = p THEN h ELSE entry[q]
        /\ \A g \in Handlers : g \in done' <=> g \in done \/ g = h
        /\ \A g \in Handlers : logged'[g] <=> logged[g] \/ g = h
        /\ \A i \in Slots : chat'.slot[i] = chat.slot[i] \/ chat'.slot[i] = h
    <3>1. entry \in [Players -> Handlers \cup {Missing, Null}]
      BY <1>S DEF StateType
    <3> QED
      BY <1>S, <1>2, <3>1, LoginChanges
  <2>5. \A g \in Handlers : uuid'[g] = IF g = h THEN p ELSE uuid[g]
    BY <1>S, <1>2 DEF StateType
  <2>6. Entered'
    BY <1>S, <1>2, <2>1, <2>3, <2>4, <2>5 DEF Entered
  <2>7. LoginFinished'
    BY <1>S, <1>2, <2>3, <2>4 DEF LoginFinished
  <2>8. WaitsForOne'
    BY <1>S, <1>2, <2>2, <2>4 DEF WaitsForOne, StateType
  <2>9. Waited'
    BY <1>S, <1>2, <2>4 DEF Waited
  <2> QED
    BY <2>6, <2>7, <2>8, <2>9 DEF Orderly
<1>3. ASSUME NEW h \in Handlers, NEW p \in Players, ~logged[h], entry[p] \in Handlers,
             Receives(h), uuid' = [uuid EXCEPT ![h] = p], Displace(entry[p], h, p)
      PROVE  Orderly'
  <2> PICK old \in Handlers : old = entry[p]
    BY <1>3
  <2>1. h \notin done /\ old # h /\ \A g \in Handlers : pending[g] # h
    BY <1>S, <1>3 DEF LoginFinished, Accepted, Entered
  <2>2. /\ conn[old] \in {"open", "closing"} /\ old \in done /\ pending[old] = None
        /\ \A q \in Players : entry[q] = old => q = p
    BY <1>S DEF Entered
  <2>3. /\ \A g \in Handlers : clientOff'[g] <=> clientOff[g] /\ g # old
        /\ \A g \in Handlers : pending'[g] = IF g = old THEN h ELSE pending[g]
        /\ \A q \in Players : entry'[q] = IF q = p THEN Missing ELSE entry[q]
        /\ \A g \in Handlers : logged'[g] <=> logged[g] \/ g = h
        /\ \A g \in Handlers : uuid'[g] = IF g = h THEN p ELSE uuid[g]
        /\ chat' = chat /\ done' = done
    BY <1>S, <1>3 DEF Displace, StateType
  <2>4. \A g \in Handlers : conn'[g] = IF g = old THEN "closing" ELSE conn[g]
    BY <1>S, <1>3, <2>2 DEF Displace, Closing, StateType
  <2>5. Entered'
    <3> SUFFICES ASSUME NEW q \in Players, entry'[q] \in Handlers
                 PROVE  LET g == entry'[q]
                        IN /\ conn'[g] \in {"open", "closing"}
                           /\ uuid'[g] = q /\ g \in done' /\ clientOff'[g]
                           /\ pending'[g] = None
      BY DEF Entered
    <3>1. q # p /\ entry'[q] = entry[q] /\ entry[q] # old
      BY <1>S, <2>2, <2>3
    <3>2. /\ conn[entry[q]] \in {"open", "closing"} /\ uuid[entry[q]] = q
          /\ entry[q] \in done /\ clientOff[entry[q]] /\ pending[entry[q]] = None
      BY <1>S, <3>1 DEF Entered
    <3>3. PICK g \in Handlers : g = entry[q]
      BY <3>1
    <3>4. /\ g # h /\ g # old /\ conn[g] \in {"open", "closing"} /\ uuid[g] = q
          /\ g \in done /\ clientOff[g] /\ pending[g] = None /\ entry'[q] = g
      BY <2>1, <3>1, <3>2, <3>3
    <3>5. /\ conn'[g] \in {"open", "closing"} /\ uuid'[g] = q
          /\ g \in done' /\ clientOff'[g] /\ pending'[g] = None
      BY <2>3, <2>4, <3>4
    <3> QED
      BY <3>4, <3>5
  <2>6. LoginFinished'
    BY <1>S, <1>3, <2>2, <2>3, <2>4 DEF LoginFinished, Receives
  <2>7. WaitsForOne'
    BY <1>S, <2>1, <2>2, <2>3, <2>4 DEF WaitsForOne
  <2>8. Waited'
    BY <1>S, <2>2, <2>3, <2>4 DEF Waited
  <2> QED
    BY <2>5, <2>6, <2>7, <2>8 DEF Orderly
<1>4. ASSUME NEW h \in Handlers, OnClose(h)
      PROVE  Orderly'
  <2> DEFINE p == uuid[h]
             here == p # None /\ entry[p] # Missing
             e == IF here /\ clientOff[h] THEN [entry EXCEPT ![p] = Missing]
                  ELSE entry
             c == IF here THEN OfflineNotify(chat, p) ELSE chat
             w == IF here THEN workers \ {p} ELSE workers
             n == pending[h]
  <2>1. /\ e \in [Players -> Handlers \cup {Missing, Null}]
        /\ \A q \in Players : e[q] = entry[q] \/ e[q] = Missing
    BY <1>S DEF StateType
  <2>2. /\ ChatOK(c)
        /\ \A i \in Slots : c.slot[i] = chat.slot[i] \/ c.slot[i] = None
    BY <1>S, OfflineKeeps, OfflineChanges DEF StateType
  <2>3. /\ UNCHANGED <<uuid, clientOff>>
        /\ \A g \in Handlers : conn'[g] = IF g = h THEN "closed" ELSE conn[g]
        /\ \A g \in Handlers : pending'[g] = IF g = h THEN None ELSE pending[g]
    BY <1>S, <1>4 DEF OnClose, StateType
  <2>4. \A q \in Players : e[q] # h
    BY <1>S DEF Entered, StateType
  <2>5. WaitsForOne' \/ n # None
    BY <1>S, <1>4, <2>3 DEF WaitsForOne, OnClose
  <2>6. CASE n = None
    <3>1. entry' = e /\ chat' = c /\ UNCHANGED <<logged, done>>
      BY <1>4, <2>6 DEF OnClose
    <3> HIDE DEF e, c, w
    <3>2. Entered'
      BY <1>S, <2>1, <2>3, <2>4, <3>1 DEF Entered
    <3>3. LoginFinished'
      BY <1>S, <2>2, <2>3, <3>1 DEF LoginFinished
    <3>4. Waited'
      BY <1>S, <2>3, <2>6, <3>1 DEF Waited
    <3> QED
      BY <2>5, <2>6, <3>2, <3>3, <3>4 DEF Orderly
  <2>7. CASE n # None
    <3>1. /\ n \in Handlers /\ n # h /\ n \notin done /\ logged[n]
          /\ \A g \in Handlers : pending[g] = n => g = h
          /\ pending[n] = None /\ clientOff[n] /\ uuid[n] \in Players
          /\ \A i \in Slots : chat.slot[i] # n
          /\ \A q \in Players : entry[q] # n
      BY <1>S, <2>7 DEF WaitsForOne, LoginFinished, Accepted, StateType, Entered
    <3>2. CASE ~Referenced(n)
      <4>1. conn[n] = "closed" /\ UNCHANGED <<entry, chat, logged, done>>
        BY <1>4, <2>7, <3>2 DEF OnClose, Referenced
      <4>2. \A q \in Players : entry[q] # h
        BY <1>S, <2>7 DEF Entered
      <4> HIDE DEF e, c, w, n
      <4>3. Entered'
        BY <1>S, <2>3, <4>1, <4>2 DEF Entered
      <4>4. LoginFinished'
        BY <1>S, <2>3, <4>1 DEF LoginFinished
      <4>5. WaitsForOne'
        BY <1>S, <2>3, <4>1 DEF WaitsForOne
      <4>6. Waited'
        BY <1>S, <2>3, <3>1, <4>1 DEF Waited, n
      <4> QED
        BY <4>3, <4>4, <4>5, <4>6 DEF Orderly
    <3>3. CASE Referenced(n)
      <4>1. LoginHandle2(n, uuid[n], e, c, w) /\ conn[n] # "closed"
        BY <1>4, <2>7, <3>1, <3>3 DEF OnClose, Referenced
      <4>2. conn[n] # "new"
        BY <1>S, <3>1 DEF LoginFinished
      <4> HIDE DEF e, c, w
      <4>3. /\ \A q \in Players : entry'[q] = IF q = uuid[n] THEN n ELSE e[q]
            /\ \A g \in Handlers : g \in done' <=> g \in done \/ g = n
            /\ \A g \in Handlers : logged'[g] <=> logged[g] \/ g = n
            /\ \A i \in Slots : chat'.slot[i] = c.slot[i] \/ chat'.slot[i] = n
        BY <1>S, <2>1, <2>2, <3>1, <4>1, LoginChanges
      <4> HIDE DEF n
      <4>4. Entered'
        <5> SUFFICES ASSUME NEW q \in Players, NEW g \in Handlers, entry'[q] = g
                     PROVE  /\ conn'[g] \in {"open", "closing"} /\ uuid[g] = q
                            /\ g \in done' /\ clientOff[g] /\ pending'[g] = None
          BY <2>3 DEF Entered
        <5>1. CASE q = uuid[n]
          <6>1. g = n /\ conn[n] \in {"open", "closing"}
            BY <1>S, <3>1, <4>1, <4>2, <4>3, <5>1 DEF StateType
          <6> QED
            BY <2>3, <3>1, <4>3, <5>1, <6>1
        <5>2. CASE q # uuid[n]
          <6>1. e[q] = g
            BY <4>3, <5>2
          <6>2. g # h /\ entry[q] = g
            BY <1>S, <2>1, <2>4, <6>1
          <6> QED
            BY <1>S, <2>3, <4>3, <6>2 DEF Entered
        <5> QED
          BY <5>1, <5>2
      <4>5. LoginFinished'
        <5>1. \A i \in Slots : \A g \in Handlers : chat'.slot[i] = g => g \in done'
          BY <1>S, <2>2, <4>3 DEF LoginFinished
        <5>2. \A g \in Handlers : logged'[g] => conn'[g] # "new"
          BY <1>S, <2>3, <4>2, <4>3 DEF LoginFinished
        <5> QED
          BY <1>S, <2>3, <3>1, <4>3, <5>1, <5>2 DEF LoginFinished
      <4>6. WaitsForOne'
        BY <1>S, <2>3, <3>1, <4>3 DEF WaitsForOne, StateType
      <4>7. Waited'
        BY <1>S, <2>3, <3>1, <4>3 DEF Waited, n
      <4> QED
        BY <4>4, <4>5, <4>6, <4>7 DEF Orderly
    <3> QED
      BY <3>2, <3>3
  <2> QED
    BY <2>6, <2>7
<1>5. ASSUME NEW idle \in SUBSET MayBeIdle, HeartCheck(idle)
      PROVE  Orderly'
  <2>1. /\ UNCHANGED <<chat, uuid, logged, pending, done>>
        /\ \A g \in Handlers : clientOff'[g] <=> clientOff[g] /\ g \notin idle
        /\ \A g \in Handlers : conn'[g] = IF g \in idle /\ conn[g] = "open"
                                          THEN "closing" ELSE conn[g]
        /\ \A q \in Players : entry'[q] = IF entry[q] \in idle THEN Missing ELSE entry[q]
    BY <1>S, <1>5 DEF HeartCheck, StateType
  <2>2. \A g \in idle : g \in Handlers /\ g \in done
    <3> SUFFICES ASSUME NEW g \in MayBeIdle PROVE g \in Handlers /\ g \in done
      OBVIOUS
    <3>1. g \in Handlers /\ \E q \in Players : entry[q] = g
      BY <1>S DEF MayBeIdle, StateType
    <3> QED
      BY <1>S, <3>1 DEF Entered
  <2>3. Entered'
    BY <1>S, <2>1 DEF Entered
  <2>4. LoginFinished'
    BY <1>S, <2>1, <2>2 DEF LoginFinished
  <2>5. WaitsForOne'
    BY <1>S, <2>1 DEF WaitsForOne
  <2>6. Waited'
    BY <1>S, <2>1 DEF Waited
  <2> QED
    BY <2>3, <2>4, <2>5, <2>6 DEF Orderly
<1>6. ASSUME NEW p \in Players, HandlerInGateway(p) \/ MarketNotice(p)
      PROVE  Orderly'
  <2>1. /\ UNCHANGED <<chat, uuid, logged, pending, done, conn, clientOff>>
        /\ \A q \in Players : entry'[q] = entry[q] \/ entry'[q] = Null
    BY <1>S, <1>6 DEF HandlerInGateway, MarketNotice, StateType
  <2> QED
    BY <1>S, <2>1 DEF Orderly, Entered, LoginFinished, WaitsForOne, Waited
<1>7. ASSUME NEW h \in Handlers, NEW p \in Players, LoginRequest(h, p) \/ RegisterRequest(h, p)
      PROVE  Orderly'
  <2>1. ~logged[h] /\ Receives(h) /\ uuid' = [uuid EXCEPT ![h] = p]
    BY <1>7 DEF LoginRequest, RegisterRequest, MayLogin
  <2>2. \/ entry[p] \in Handlers /\ Displace(entry[p], h, p)
        \/ /\ LoginHandle2(h, p, entry, chat, workers)
           /\ UNCHANGED <<clientOff, pending, conn>>
    BY <1>7 DEF LoginRequest, RegisterRequest
  <2> QED
    BY <1>2, <1>3, <2>1, <2>2
<1> QED
  BY <1>0, <1>1, <1>4, <1>5, <1>6, <1>7 DEF Next, HandlerNext

\* Whatever is displaced, timed out or closed in whatever order, a login that waits for
\* the first point to close is finished by that connection: offline_handler is neither
\* lost nor given to two connections, unless a client registers while it is logged in.
THEOREM LoginsPending == Spec => []LoginPending
<1>1. Init => WaitInv
  <2> SUFFICES ASSUME Init PROVE WaitInv
    OBVIOUS
  <2>1. OwnInv
    BY InitOwnInv
  <2>2. Orderly
    BY PresenceAssumption DEF Init, Chat, Orderly, Entered, LoginFinished, WaitsForOne, Waited
  <2> QED
    BY <2>1, <2>2 DEF WaitInv
<1>2. WaitInv /\ [Next]_vars => WaitInv'
  <2> SUFFICES ASSUME WaitInv, [Next]_vars PROVE WaitInv'
    OBVIOUS
  <2>1. OwnInv'
    BY StepOwnInv DEF WaitInv
  <2>2. env' = env
    BY DEF Next, vars
  <2>3. "register" \notin env => Orderly'
    BY StepOrderly DEF WaitInv
  <2> QED
    BY <2>1, <2>2, <2>3 DEF WaitInv
<1>3. WaitInv => LoginPending
  BY DEF WaitInv, Orderly, Waited, LoginPending
<1> QED
  BY <1>1, <1>2, <1>3, PTL DEF Spec

-----------------------------------------------------------------------------
(* One point per player: the registries agree.                             *)

\* Who is dropped by the idle check.
Gone == {h \in Handlers : uuid[h] \in Players /\ ~clientOff[h]}

\* A slot in use has a player, or it belongs to one of the handlers D.
Used(c, D) ==
    \A i \in c.online : (\E p \in Players : c.index[p] = i) \/ c.slot[i] \in D

\* Connection h of player p is not closed.
Open(h, p) == uuid[h] = p /\ conn[h] # "closed"

\* What the table says of player p.
TableAgrees(p) ==
    /\ \A g, h \in Handlers : Open(g, p) /\ Open(h, p) => g = h
    /\ \A h \in Handlers : entry[p] = h <=> Open(h, p) /\ clientOff[h]

\* What the workers believe of player p.
WorkersAgree(p) ==
    /\ \A h \in Handlers : Open(h, p) => p \in workers
    /\ p \in workers =>
          \E h \in Handlers : uuid[h] = p /\ (conn[h] # "closed" \/ ~clientOff[h])
    /\ entry[p] = Missing =>
          \/ p \in workers
          \/ \A h \in Handlers : uuid[h] # p
          \/ \E h \in Handlers : uuid[h] = p /\ clientOff[h]

\* The chat slot of player p.
ChatAgrees(p) ==
    /\ chat.index[p] # None =>
          /\ p \in workers
          /\ \E h \in Handlers : /\ h = chat.slot[chat.index[p]]
                                 /\ uuid[h] = p /\ (conn[h] # "closed" \/ ~clientOff[h])
    /\ /\ \E h \in Handlers : Open(h, p)
       /\ Cardinality(Players) <= MaxClient
       /\ \A h \in Handlers : clientOff[h]
       => chat.index[p] # None

\* Nobody waits for another point, and a connection has a player when it is logged in.
OnePoint(h) ==
    /\ pending[h] = None
    /\ logged[h] <=> uuid[h] # None
    /\ uuid[h] # None => conn[h] # "new"
    /\ uuid[h] = None => clientOff[h]

Agrees ==
    /\ \A p \in Players : TableAgrees(p) /\ WorkersAgree(p) /\ ChatAgrees(p)
    /\ \A h \in Handlers : OnePoint(h)
    /\ Used(chat, Gone)

AgreeInv == SlotInv /\ (OnePointEach => Agrees)

\* As long as a player has no slot, there are slots for all and none is lost, one is free.
LEMMA SlotFree ==
    ASSUME NEW c, ChatOK(c), Used(c, {}), NEW p \in Players, c.index[p] = None,
           Cardinality(Players) <= MaxClient
    PROVE  c.remain # <<>>
<1> SUFFICES ASSUME c.remain = <<>> PROVE FALSE
  OBVIOUS
<1> DEFINE U == {q \in Players : c.index[q] # None}
           f == [q \in U |-> c.index[q]]
<1>1. IsFiniteSet(Slots) /\ Cardinality(Slots) = MaxClient
  <2>1. PICK m \in Int : m = MaxClient - 1
    BY PresenceAssumption
  <2>2. IsFiniteSet(0 .. m) /\ Cardinality(0 .. m) = IF 0 > m THEN 0 ELSE m - 0 + 1
    BY FS_Interval
  <2> QED
    BY <2>1, <2>2, PresenceAssumption DEF Slots
<1>2. c.online = Slots
  <2>1. DOMAIN c.remain = {}
    OBVIOUS
  <2> QED
    BY <2>1 DEF ChatOK, ChatType, FreeOrUsed
<1>3. /\ IsFiniteSet(Players \ {p})
      /\ Cardinality(Players \ {p}) = Cardinality(Players) - 1
      /\ Cardinality(Players) \in Nat
  BY FS_RemoveElement, FS_CardinalityType, PresenceAssumption
<1>4. U \subseteq Players \ {p}
  OBVIOUS
<1>5. IsFiniteSet(U) /\ Cardinality(U) <= Cardinality(Players \ {p})
  BY <1>3, <1>4, FS_Subset
<1>6. f \in [U -> Slots]
  BY <1>2 DEF ChatOK, IndexUsed
<1>7. \A s \in Slots : \E q \in U : f[q] = s
  <2> SUFFICES ASSUME NEW s \in Slots PROVE \E q \in U : f[q] = s
    OBVIOUS
  <2>1. PICK q \in Players : c.index[q] = s
    BY <1>2 DEF Used
  <2>2. q \in U
    BY <2>1, PresenceAssumption
  <2> QED
    BY <2>1, <2>2
<1>8. f \in Surjection(U, Slots)
  BY <1>6, <1>7, Fun_IsSurj
<1>9. Cardinality(Slots) <= Cardinality(U)
  BY <1>5, <1>8, FS_Surjection DEF ExistsSurjection
<1> QED
  BY <1>1, <1>3, <1>5, <1>9, FS_CardinalityType, PresenceAssumption

\* OnlineNotify of a player who has no slot, or the slot of a handler of D.
LEMMA OnlineUsed ==
    ASSUME NEW c, ChatOK(c), NEW D, Used(c, D), NEW p \in Players, NEW h \in Handlers,
           c.index[p] # None => c.slot[c.index[p]] \in D
    PROVE  LET d == OnlineNotify(c, p, h)
           IN /\ Used(d, D)
              /\ \A q \in Players : q # p => d.index[q] = c.index[q]
              /\ \A q \in Players : q # p /\ c.index[q] # None =>
                    d.slot[c.index[q]] = c.slot[c.index[q]]
              /\ d.index[p] # None =>
                    \/ d.slot[d.index[p]] = h
                    \/ c.index[p] # None /\ d.slot[d.index[p]] = c.slot[c.index[p]]
              /\ D = {} /\ Cardinality(Players) <= MaxClient => d.index[p] # None
<1> DEFINE d == OnlineNotify(c, p, h)
<1>1. CASE c.remain = <<>>
  <2>1. d = c
    BY <1>1 DEF OnlineNotify
  <2>2. D = {} => ~(Cardinality(Players) <= MaxClient)
    <3> SUFFICES ASSUME D = {}, Cardinality(Players) <= MaxClient PROVE FALSE
      OBVIOUS
    <3>1. c.index[p] = None /\ Used(c, {})
      OBVIOUS
    <3> QED
      BY <1>1, <3>1, SlotFree
  <2> QED
    BY <2>1, <2>2
<1>2. CASE c.remain # <<>>
  <2> DEFINE i == c.remain[Len(c.remain)]
             x == [c.index EXCEPT ![p] = i]
             s == [c.slot EXCEPT ![i] = h]
  <2>1. d.index = x /\ d.slot = s /\ d.online = c.online \cup {i}
    BY <1>2 DEF OnlineNotify, Chat
  <2>2. i \in Slots /\ i \notin c.online
    BY <1>2, PopBack DEF ChatOK, ChatType, FreeOrUsed
  <2>3. i # None
    BY <2>2, PresenceAssumption
  <2> HIDE DEF i
  <2>4. /\ \A q \in Players : x[q] = IF q = p THEN i ELSE c.index[q]
        /\ \A k \in Slots : s[k] = IF k = i THEN h ELSE c.slot[k]
        /\ c.online \subseteq Slots
    BY DEF ChatOK, ChatType
  <2>5. \A q \in Players : c.index[q] # None => c.index[q] \in Slots /\ c.index[q] # i
    BY <2>2 DEF ChatOK, ChatType, IndexUsed
  <2> HIDE DEF x, s, d
  <2>6. Used(d, D)
    <3> SUFFICES ASSUME NEW k \in c.online \cup {i}
                 PROVE  (\E q \in Players : d.index[q] = k) \/ d.slot[k] \in D
      BY <2>1 DEF Used
    <3>1. CASE k = i
      BY <2>1, <2>4, <3>1
    <3>2. CASE k \in c.online
      <4>1. k \in Slots /\ k # i /\ k # None
        BY <2>2, <2>4, <3>2, PresenceAssumption
      <4>2. CASE c.slot[k] \in D
        BY <2>1, <2>4, <4>1, <4>2
      <4>3. ASSUME NEW q \in Players, c.index[q] = k
            PROVE  (\E r \in Players : d.index[r] = k) \/ d.slot[k] \in D
        <5>1. CASE q = p
          <6>1. c.slot[k] \in D
            BY <4>1, <4>3, <5>1
          <6> QED
            BY <4>2, <6>1
        <5>2. CASE q # p
          <6>1. d.index[q] = k
            BY <2>1, <2>4, <4>3, <5>2
          <6> QED
            BY <6>1
        <5> QED
          BY <5>1, <5>2
      <4> QED
        BY <3>2, <4>2, <4>3 DEF Used
    <3> QED
      BY <3>1, <3>2
  <2>7. d.index[p] = i /\ d.slot[d.index[p]] = h
    BY <2>1, <2>2, <2>4
  <2>8. \A q \in Players : q # p => d.index[q] = c.index[q]
    BY <2>1, <2>4
  <2>9. \A q \in Players : q # p /\ c.index[q] # None =>
           d.slot[c.index[q]] = c.slot[c.index[q]]
    BY <2>1, <2>4, <2>5
  <2> QED
    BY <2>3, <2>6, <2>7, <2>8, <2>9 DEF d
<1> QED
  BY <1>1, <1>2

\* OfflineNotify.
LEMMA OfflineUsed ==
    ASSUME NEW c, ChatOK(c), NEW D, Used(c, D), NEW p \in Players
    PROVE  LET d == OfflineNotify(c, p)
           IN /\ Used(d, D) /\ d.index[p] = None
              /\ \A q \in Players : q # p => d.index[q] = c.index[q]
              /\ \A q \in Players : q # p /\ c.index[q] # None =>
                    d.slot[c.index[q]] = c.slot[c.index[q]]
<1> DEFINE d == OfflineNotify(c, p)
<1>1. CASE c.index[p] = None
  BY <1>1 DEF OfflineNotify
<1>2. CASE c.index[p] # None
  <2> DEFINE i == c.index[p]
             x == [c.index EXCEPT ![p] = None]
             s == [c.slot EXCEPT ![i] = None]
  <2>1. d.index = x /\ d.slot = s /\ d.online = c.online \ {i}
    BY <1>2 DEF OfflineNotify, Chat
  <2>2. /\ \A q \in Players : x[q] = IF q = p THEN None ELSE c.index[q]
        /\ \A k \in Slots : k # i => s[k] = c.slot[k]
        /\ c.online \subseteq Slots
    BY DEF ChatOK, ChatType
  <2>3. \A q \in Players : q # p /\ c.index[q] # None =>
           c.index[q] \in Slots /\ c.index[q] # i
    BY <1>2 DEF ChatOK, ChatType, IndexUsed
  <2> HIDE DEF x, s, d, i
  <2>4. Used(d, D)
    <3> SUFFICES ASSUME NEW k \in c.online, k # i
                 PROVE  (\E q \in Players : d.index[q] = k) \/ d.slot[k] \in D
      BY <2>1 DEF Used
    <3>1. CASE c.slot[k] \in D
      BY <2>1, <2>2, <3>1
    <3>2. ASSUME NEW q \in Players, c.index[q] = k
          PROVE  (\E r \in Players : d.index[r] = k) \/ d.slot[k] \in D
      <4>1. q # p
        BY <3>2 DEF i
      <4>2. d.index[q] = k
        BY <2>1, <2>2, <3>2, <4>1
      <4> QED
        BY <4>2
    <3> QED
      BY <3>1, <3>2 DEF Used
  <2>5. d.index[p] = None /\ \A q \in Players : q # p => d.index[q] = c.index[q]
    BY <2>1, <2>2
  <2>6. \A q \in Players : q # p /\ c.index[q] # None =>
           d.slot[c.index[q]] = c.slot[c.index[q]]
    BY <2>1, <2>2, <2>3
  <2> QED
    BY <2>4, <2>5, <2>6 DEF d
<1> QED
  BY <1>1, <1>2

\* A step that concerns player p alone leaves the others their connections, their
\* entries and their slots.
LEMMA OthersAgree ==
    ASSUME NEW q \in Players, TableAgrees(q), WorkersAgree(q), ChatAgrees(q),
           entry'[q] = entry[q] \/ (entry[q] = Missing /\ entry'[q] = Null),
           \A h \in Handlers : uuid'[h] = q <=> uuid[h] = q,
           \A h \in Handlers : uuid[h] = q => (conn'[h] # "closed" <=> conn[h] # "closed"),
           \A h \in Handlers : clientOff'[h] <=> clientOff[h],
           q \in workers' <=> q \in workers,
           chat'.index[q] = chat.index[q],
           chat.index[q] # None => chat'.slot[chat.index[q]] = chat.slot[chat.index[q]]
    PROVE  TableAgrees(q)' /\ WorkersAgree(q)' /\ ChatAgrees(q)'
<1>0. Missing \notin Handlers /\ Null \notin Handlers /\ Missing # Null
  BY PresenceAssumption
<1>1. TableAgrees(q)'
  BY <1>0 DEF TableAgrees, Open
<1>2. WorkersAgree(q)'
  BY <1>0 DEF WorkersAgree, Open
<1>3. ChatAgrees(q)'
  BY DEF ChatAgrees, Open
<1> QED
  BY <1>1, <1>2, <1>3

\* A login, when every other connection of the player is closed.
LEMMA LoginAgrees ==
    ASSUME SlotInv, Agrees, NEW h \in Handlers, NEW p \in Players, Receives(h), ~logged[h],
           \A g \in Handlers \ {h} : uuid[g] = p => conn[g] = "closed",
           uuid' = [uuid EXCEPT ![h] = p],
           LoginHandle2(h, p, entry, chat, workers),
           UNCHANGED <<clientOff, pending, conn>>
    PROVE  Agrees'
<1>S. /\ StateType /\ ChatOK(chat)
      /\ \A q \in Players : TableAgrees(q) /\ WorkersAgree(q) /\ ChatAgrees(q)
      /\ \A g \in Handlers : OnePoint(g)
      /\ Used(chat, Gone)
      /\ None \notin Handlers /\ None \notin Players
      /\ Missing \notin Handlers /\ Null \notin Handlers /\ Missing # Null
  BY TypeSplit, PresenceAssumption DEF SlotInv, Agrees
<1>1. uuid[h] = None /\ conn[h] # "closed" /\ conn[h] # "new" /\ clientOff[h]
  BY <1>S DEF OnePoint, Receives
<1>2. \A g \in Handlers : uuid[g] = p => conn[g] = "closed"
  BY <1>S, <1>1
<1>3. chat.index[p] # None => chat.slot[chat.index[p]] \in Gone
  BY <1>S, <1>2 DEF ChatAgrees, Gone
<1>4. /\ \A q \in Players : entry'[q] = IF q = p THEN h ELSE entry[q]
      /\ \A g \in Handlers : logged'[g] <=> logged[g] \/ g = h
  <2>1. entry \in [Players -> Handlers \cup {Missing, Null}]
    BY <1>S DEF StateType
  <2> QED
    BY <1>S, <2>1, LoginChanges
<1>5. \A g \in Handlers : uuid'[g] = IF g = h THEN p ELSE uuid[g]
  BY <1>S DEF StateType
<1>6. chat' = OnlineNotify(chat, p, h) /\ workers' = workers \cup {p}
  BY DEF LoginHandle2
<1>7. /\ Used(chat', Gone)
      /\ \A q \in Players : q # p => chat'.index[q] = chat.index[q]
      /\ \A q \in Players : q # p /\ chat.index[q] # None =>
            chat'.slot[chat.index[q]] = chat.slot[chat.index[q]]
      /\ chat'.index[p] # None =>
            \/ chat'.slot[chat'.index[p]] = h
            \/ chat.index[p] # None
               /\ chat'.slot[chat'.index[p]] = chat.slot[chat.index[p]]
      /\ Gone = {} /\ Cardinality(Players) <= MaxClient => chat'.index[p] # None
  <2> PICK D : D = Gone
    OBVIOUS
  <2> PICK d : d = OnlineNotify(chat, p, h)
    OBVIOUS
  <2>0. Used(chat, D) /\ (chat.index[p] # None => chat.slot[chat.index[p]] \in D)
    BY <1>S, <1>3
  <2>1. /\ Used(d, D)
        /\ \A q \in Players : q # p => d.index[q] = chat.index[q]
        /\ \A q \in Players : q # p /\ chat.index[q] # None =>
              d.slot[chat.index[q]] = chat.slot[chat.index[q]]
        /\ d.index[p] # None =>
              \/ d.slot[d.index[p]] = h
              \/ chat.index[p] # None /\ d.slot[d.index[p]] = chat.slot[chat.index[p]]
        /\ D = {} /\ Cardinality(Players) <= MaxClient => d.index[p] # None
    BY <1>S, <2>0, OnlineUsed
  <2>2. chat' = d
    BY <1>6
  <2> QED
    BY <2>1, <2>2
<1>8. Gone' = Gone
  BY <1>S, <1>1, <1>5 DEF Gone
<1>9. ASSUME NEW q \in Players PROVE TableAgrees(q)' /\ WorkersAgree(q)' /\ ChatAgrees(q)'
  <2>1. CASE q = p
    <3>1. \A g \in Handlers : Open(g, p)' <=> g = h
      BY <1>1, <1>2, <1>5 DEF Open
    <3>2. entry'[p] = h /\ p \in workers' /\ clientOff'[h] /\ uuid'[h] = p
      BY <1>1, <1>4, <1>5, <1>6
    <3>3. TableAgrees(p)'
      BY <3>1, <3>2 DEF TableAgrees
    <3>4. WorkersAgree(p)'
      BY <1>1, <3>2 DEF WorkersAgree
    <3>5. chat'.index[p] # None =>
             \E g \in Handlers : /\ g = chat'.slot[chat'.index[p]]
                                 /\ uuid'[g] = p /\ (conn'[g] # "closed" \/ ~clientOff'[g])
      <4> SUFFICES ASSUME chat'.index[p] # None
                   PROVE  \E g \in Handlers :
                             /\ g = chat'.slot[chat'.index[p]]
                             /\ uuid'[g] = p /\ (conn'[g] # "closed" \/ ~clientOff'[g])
        OBVIOUS
      <4>1. CASE chat'.slot[chat'.index[p]] = h
        BY <1>1, <3>2, <4>1
      <4>2. CASE /\ chat.index[p] # None
                 /\ chat'.slot[chat'.index[p]] = chat.slot[chat.index[p]]
        <5>1. PICK g \in Handlers : /\ g = chat.slot[chat.index[p]]
                                    /\ uuid[g] = p /\ (conn[g] # "closed" \/ ~clientOff[g])
          BY <1>S, <4>2 DEF ChatAgrees
        <5> QED
          BY <1>1, <1>5, <4>2, <5>1
      <4> QED
        BY <1>7, <4>1, <4>2
    <3>6. /\ Cardinality(Players) <= MaxClient /\ \A g \in Handlers : clientOff'[g]
          => chat'.index[p] # None
      BY <1>7 DEF Gone
    <3>7. ChatAgrees(p)'
      BY <3>2, <3>5, <3>6 DEF ChatAgrees
    <3> QED
      BY <2>1, <3>3, <3>4, <3>7
  <2>2. CASE q # p
    <3>1. /\ entry'[q] = entry[q] /\ (q \in workers' <=> q \in workers)
          /\ \A g \in Handlers : uuid'[g] = q <=> uuid[g] = q
      BY <1>S, <1>1, <1>4, <1>5, <1>6, <2>2
    <3>2. /\ \A g \in Handlers : uuid[g] = q => (conn'[g] # "closed" <=> conn[g] # "closed")
          /\ \A g \in Handlers : clientOff'[g] <=> clientOff[g]
      OBVIOUS
    <3>3. /\ chat'.index[q] = chat.index[q]
          /\ chat.index[q] # None =>
                chat'.slot[chat.index[q]] = chat.slot[chat.index[q]]
      BY <1>7, <2>2
    <3> QED
      BY <1>S, <3>1, <3>2, <3>3, OthersAgree
  <2> QED
    BY <2>1, <2>2
<1>10. \A g \in Handlers : OnePoint(g)'
  BY <1>S, <1>1, <1>4, <1>5 DEF OnePoint
<1>11. Used(chat, Gone)'
  BY <1>7, <1>8 DEF Used
<1> QED
  BY <1>9, <1>10, <1>11 DEF Agrees

\* A connection closes: its player leaves the workers' view and chat unless the idle check
\* dropped the connection and no worker entered a null pointer since.
LEMMA CloseAgrees ==
    ASSUME SlotInv, Agrees, NEW h \in Handlers, OnClose(h)
    PROVE  Agrees'
<1>S. /\ StateType /\ ChatOK(chat)
      /\ \A q \in Players : TableAgrees(q) /\ WorkersAgree(q) /\ ChatAgrees(q)
      /\ \A g \in Handlers : OnePoint(g)
      /\ Used(chat, Gone)
      /\ None \notin Handlers /\ None \notin Players
      /\ Missing \notin Handlers /\ Null \notin Handlers /\ Missing # Null
  BY TypeSplit, PresenceAssumption DEF SlotInv, Agrees
<1>1. pending[h] = None /\ conn[h] # "closed"
  BY <1>S DEF OnePoint, OnClose, Receives
<1>2. /\ UNCHANGED <<uuid, clientOff, logged>>
      /\ \A g \in Handlers : conn'[g] = IF g = h THEN "closed" ELSE conn[g]
      /\ \A g \in Handlers : pending'[g] = IF g = h THEN None ELSE pending[g]
  BY <1>S, <1>1 DEF OnClose, StateType
<1>3. \A g \in Handlers : OnePoint(g)'
  BY <1>S, <1>2 DEF OnePoint
<1>4. Gone' = Gone
  BY <1>2 DEF Gone
<1>5. ASSUME NEW q \in Players, uuid[h] # q, entry'[q] = entry[q],
             q \in workers' <=> q \in workers, chat'.index[q] = chat.index[q],
             chat.index[q] # None => chat'.slot[chat.index[q]] = chat.slot[chat.index[q]]
      PROVE  TableAgrees(q)' /\ WorkersAgree(q)' /\ ChatAgrees(q)'
  <2>1. /\ \A g \in Handlers : uuid'[g] = q <=> uuid[g] = q
        /\ \A g \in Handlers : clientOff'[g] <=> clientOff[g]
        /\ \A g \in Handlers : uuid[g] = q => (conn'[g] # "closed" <=> conn[g] # "closed")
    BY <1>2, <1>5
  <2> QED
    BY <1>S, <1>5, <2>1, OthersAgree
<1>6. CASE uuid[h] = None
  <2>1. UNCHANGED <<entry, chat, workers>>
    BY <1>1, <1>6 DEF OnClose
  <2>2. ASSUME NEW q \in Players PROVE TableAgrees(q)' /\ WorkersAgree(q)' /\ ChatAgrees(q)'
    BY <1>S, <1>5, <1>6, <2>1
  <2>3. Used(chat, Gone)'
    BY <1>S, <1>4, <2>1 DEF Used
  <2> QED
    BY <1>3, <2>2, <2>3 DEF Agrees
<1>7. CASE uuid[h] # None
  <2> PICK p \in Players : p = uuid[h]
    BY <1>S, <1>7 DEF StateType
  <2>1. \A g \in Handlers : Open(g, p) <=> g = h
    BY <1>S, <1>1 DEF TableAgrees, Open
  <2>2. \A g \in Handlers : ~Open(g, p)'
    BY <1>2, <2>1 DEF Open
  <2>3. \A g \in Handlers : entry[p] = g <=> g = h /\ clientOff[h]
    BY <1>S, <2>1 DEF TableAgrees
  <2>4. CASE entry[p] = Missing
    <3>1. UNCHANGED <<entry, chat, workers>>
      BY <1>1, <2>4 DEF OnClose
    <3>2. ~clientOff[h] /\ p \in workers
      BY <1>S, <2>1, <2>3, <2>4 DEF WorkersAgree
    <3>3. TableAgrees(p)'
      BY <1>S, <2>2, <2>4, <3>1 DEF TableAgrees
    <3>4. WorkersAgree(p)'
      BY <1>2, <2>2, <3>1, <3>2 DEF WorkersAgree
    <3>5. ChatAgrees(p)'
      BY <1>S, <1>2, <2>2, <3>1, <3>2 DEF ChatAgrees
    <3>6. ASSUME NEW q \in Players, q # p
          PROVE  TableAgrees(q)' /\ WorkersAgree(q)' /\ ChatAgrees(q)'
      BY <1>5, <3>1, <3>6
    <3>7. Used(chat, Gone)'
      BY <1>S, <1>4, <3>1 DEF Used
    <3> QED
      BY <1>3, <3>3, <3>4, <3>5, <3>6, <3>7 DEF Agrees
  <2>5. CASE entry[p] # Missing
    <3>1. /\ chat' = OfflineNotify(chat, p) /\ workers' = workers \ {p}
          /\ entry' = IF clientOff[h] THEN [entry EXCEPT ![p] = Missing] ELSE entry
      BY <1>S, <1>1, <2>5 DEF OnClose
    <3>2. \A q \in Players : entry'[q] = IF q = p /\ clientOff[h] THEN Missing ELSE entry[q]
      BY <1>S, <3>1 DEF StateType
    <3>3. /\ Used(chat', Gone) /\ chat'.index[p] = None
          /\ \A q \in Players : q # p => chat'.index[q] = chat.index[q]
          /\ \A q \in Players : q # p /\ chat.index[q] # None =>
                chat'.slot[chat.index[q]] = chat.slot[chat.index[q]]
      <4> PICK D : D = Gone
        OBVIOUS
      <4> PICK d : d = OfflineNotify(chat, p)
        OBVIOUS
      <4>0. Used(chat, D)
        BY <1>S
      <4>1. /\ Used(d, D) /\ d.index[p] = None
            /\ \A q \in Players : q # p => d.index[q] = chat.index[q]
            /\ \A q \in Players : q # p /\ chat.index[q] # None =>
                  d.slot[chat.index[q]] = chat.slot[chat.index[q]]
        BY <1>S, <4>0, OfflineUsed
      <4>2. chat' = d
        BY <3>1
      <4> QED
        BY <4>1, <4>2
    <3>4. \A g \in Handlers : entry'[p] # g
      BY <1>S, <2>3, <3>2
    <3>5. TableAgrees(p)'
      BY <2>2, <3>4 DEF TableAgrees
    <3>6. p \notin workers'
      BY <3>1
    <3>7. WorkersAgree(p)'
      <4>1. entry'[p] = Missing => uuid'[h] = p /\ clientOff'[h]
        BY <1>2, <2>5, <3>2
      <4> QED
        BY <2>2, <3>6, <4>1 DEF WorkersAgree
    <3>8. ChatAgrees(p)'
      BY <2>2, <3>3 DEF ChatAgrees
    <3>9. ASSUME NEW q \in Players, q # p
          PROVE  TableAgrees(q)' /\ WorkersAgree(q)' /\ ChatAgrees(q)'
      BY <1>5, <3>1, <3>2, <3>3, <3>9
    <3>10. Used(chat, Gone)'
      BY <1>4, <3>3 DEF Used
    <3> QED
      BY <1>3, <3>5, <3>7, <3>8, <3>9, <3>10 DEF Agrees
  <2> QED
    BY <2>4, <2>5
<1> QED
  BY <1>6, <1>7

\* The idle check takes connections out of the table and leaves the rest as it is.
LEMMA HeartCheckAgrees ==
    ASSUME SlotInv, Agrees, NEW idle \in SUBSET MayBeIdle, HeartCheck(idle)
    PROVE  Agrees'
<1>S. /\ StateType
      /\ \A q \in Players : TableAgrees(q) /\ WorkersAgree(q) /\ ChatAgrees(q)
      /\ \A g \in Handlers : OnePoint(g)
      /\ Used(chat, Gone)
      /\ None \notin Players
      /\ Missing \notin Handlers /\ Null \notin Handlers /\ Missing # Null
  BY TypeSplit, PresenceAssumption DEF SlotInv, Agrees
<1>1. /\ UNCHANGED <<uuid, logged, pending, chat, workers>>
      /\ \A g \in Handlers : clientOff'[g] <=> clientOff[g] /\ g \notin idle
      /\ \A g \in Handlers : /\ conn'[g] = "closed" <=> conn[g] = "closed"
                             /\ conn'[g] = "new" => conn[g] = "new"
      /\ \A q \in Players : entry'[q] = IF entry[q] \in idle THEN Missing ELSE entry[q]
  BY <1>S DEF HeartCheck, StateType
<1>2. \A g \in idle : /\ g \in Handlers
                      /\ \E q \in Players : entry[q] = g /\ uuid[g] = q /\ Open(g, q)
  <2> SUFFICES ASSUME NEW g \in MayBeIdle
               PROVE  /\ g \in Handlers
                      /\ \E q \in Players : entry[q] = g /\ uuid[g] = q /\ Open(g, q)
    OBVIOUS
  <2>1. g \in Handlers /\ \E q \in Players : entry[q] = g
    BY <1>S DEF MayBeIdle, StateType
  <2> QED
    BY <1>S, <2>1 DEF TableAgrees, Open
<1>3. \A g \in Handlers, q \in Players : Open(g, q)' <=> Open(g, q)
  BY <1>1 DEF Open
<1>4. ASSUME NEW q \in Players PROVE TableAgrees(q)' /\ WorkersAgree(q)' /\ ChatAgrees(q)'
  <2>1. TableAgrees(q)'
    BY <1>S, <1>1, <1>3 DEF TableAgrees
  <2>2. WorkersAgree(q)'
    <3>1. \A g \in Handlers : Open(g, q)' => q \in workers'
      BY <1>S, <1>1, <1>3 DEF WorkersAgree
    <3>2. q \in workers' =>
             \E g \in Handlers : uuid'[g] = q /\ (conn'[g] # "closed" \/ ~clientOff'[g])
      BY <1>S, <1>1 DEF WorkersAgree
    <3>3. ASSUME entry'[q] = Missing, q \notin workers',
                 NEW g \in Handlers, uuid'[g] = q
          PROVE  \E k \in Handlers : uuid'[k] = q /\ clientOff'[k]
      <4>1. entry[q] = Missing
        <5> SUFFICES ASSUME entry[q] \in idle PROVE FALSE
          BY <1>1, <3>3
        <5>1. PICK k \in Handlers : k = entry[q]
          BY <1>2
        <5>2. Open(k, q)
          BY <1>S, <5>1 DEF TableAgrees
        <5> QED
          BY <1>1, <1>S, <3>3, <5>2 DEF WorkersAgree
      <4>2. PICK k \in Handlers : uuid[k] = q /\ clientOff[k]
        BY <1>S, <1>1, <3>3, <4>1 DEF WorkersAgree
      <4>3. k \notin idle
        BY <1>S, <1>2, <4>1, <4>2
      <4> QED
        BY <1>1, <4>2, <4>3
    <3> QED
      BY <3>1, <3>2, <3>3 DEF WorkersAgree
  <2>3. ChatAgrees(q)'
    <3>1. chat'.index[q] # None =>
             /\ q \in workers'
             /\ \E g \in Handlers : /\ g = chat'.slot[chat'.index[q]]
                                    /\ uuid'[g] = q /\ (conn'[g] # "closed" \/ ~clientOff'[g])
      BY <1>S, <1>1 DEF ChatAgrees
    <3>2. /\ \E g \in Handlers : Open(g, q)'
          /\ Cardinality(Players) <= MaxClient
          /\ \A g \in Handlers : clientOff'[g]
          => chat'.index[q] # None
      BY <1>S, <1>1, <1>3 DEF ChatAgrees
    <3> QED
      BY <3>1, <3>2 DEF ChatAgrees
  <2> QED
    BY <2>1, <2>2, <2>3
<1>5. \A g \in Handlers : OnePoint(g)'
  BY <1>S, <1>1, <1>2 DEF OnePoint
<1>6. Used(chat, Gone)'
  <2>1. \A g \in Gone : g \in Gone'
    BY <1>1 DEF Gone
  <2> QED
    BY <1>S, <1>1, <2>1 DEF Used
<1> QED
  BY <1>4, <1>5, <1>6 DEF Agrees

\* A step of one point per player keeps the registries in agreement.
LEMMA StepAgrees ==
    ASSUME OnePointEach, SlotInv, Agrees, [Next]_vars
    PROVE  Agrees'
<1>S. /\ StateType /\ ChatOK(chat)
      /\ \A q \in Players : TableAgrees(q) /\ WorkersAgree(q) /\ ChatAgrees(q)
      /\ \A g \in Handlers : OnePoint(g)
      /\ Used(chat, Gone)
      /\ None \notin Handlers /\ None \notin Players
      /\ Missing \notin Handlers /\ Null \notin Handlers /\ Missing # Null
      /\ "two_point" \notin env /\ "register" \notin env
  BY TypeSplit, PresenceAssumption DEF SlotInv, Agrees, OnePointEach
<1>0. ASSUME UNCHANGED <<uuid, logged, clientOff, pending, chat, workers>>,
             \A q \in Players : \/ entry'[q] = entry[q]
                                \/ entry[q] = Missing /\ entry'[q] = Null,
             \A g \in Handlers : /\ conn'[g] = "closed" <=> conn[g] = "closed"
                                 /\ conn'[g] = "new" => conn[g] = "new"
      PROVE  Agrees'
  <2>1. ASSUME NEW q \in Players PROVE TableAgrees(q)' /\ WorkersAgree(q)' /\ ChatAgrees(q)'
    BY <1>S, <1>0, OthersAgree
  <2>2. \A g \in Handlers : OnePoint(g)'
    BY <1>S, <1>0 DEF OnePoint
  <2>3. Used(chat, Gone)'
    BY <1>S, <1>0 DEF Used, Gone
  <2> QED
    BY <2>1, <2>2, <2>3 DEF Agrees
<1>1. ASSUME NEW h \in Handlers, Connect(h) \/ HeartBeatRequest(h) \/ Rejected(h)
      PROVE  Agrees'
  <2>1. UNCHANGED <<entry, uuid, logged, clientOff, pending, chat, workers, done>>
    BY <1>1 DEF Connect, HeartBeatRequest, Rejected
  <2>2. \A g \in Handlers : /\ conn'[g] = "closed" <=> conn[g] = "closed"
                            /\ conn'[g] = "new" => conn[g] = "new"
    BY <1>S, <1>1 DEF Connect, HeartBeatRequest, Rejected, Closing, StateType
  <2> QED
    BY <1>0, <2>1, <2>2
<1>2. ASSUME UNCHANGED vars PROVE Agrees'
  BY <1>0, <1>2 DEF vars
<1>3. ASSUME NEW p \in Players, HandlerInGateway(p) \/ MarketNotice(p) PROVE Agrees'
  <2>1. /\ UNCHANGED <<uuid, logged, clientOff, pending, chat, workers, conn>>
        /\ \A q \in Players : \/ entry'[q] = entry[q]
                              \/ entry[q] = Missing /\ entry'[q] = Null
    BY <1>S, <1>3 DEF HandlerInGateway, MarketNotice, StateType
  <2> QED
    BY <1>0, <2>1
<1>4. ASSUME NEW h \in Handlers, NEW p \in Players, LoginRequest(h, p) \/ RegisterRequest(h, p)
      PROVE  Agrees'
  <2>1. /\ ~logged[h] /\ Receives(h) /\ uuid' = [uuid EXCEPT ![h] = p]
        /\ \A g \in Handlers \ {h} : uuid[g] = p => conn[g] = "closed"
    BY <1>S, <1>4 DEF LoginRequest, RegisterRequest, MayLogin
  <2>2. entry[p] \notin Handlers
    <3> SUFFICES ASSUME NEW g \in Handlers, entry[p] = g PROVE FALSE
      OBVIOUS
    <3>1. uuid[g] = p /\ conn[g] # "closed"
      BY <1>S DEF TableAgrees, Open
    <3>2. g = h
      BY <2>1, <3>1
    <3> QED
      BY <1>S, <2>1, <3>1, <3>2 DEF OnePoint
  <2>3. LoginHandle2(h, p, entry, chat, workers) /\ UNCHANGED <<clientOff, pending, conn>>
    BY <1>4, <2>2 DEF LoginRequest, RegisterRequest
  <2> QED
    BY <2>1, <2>3, LoginAgrees
<1> QED
  BY <1>1, <1>2, <1>3, <1>4, CloseAgrees, HeartCheckAgrees DEF Next, HandlerNext

\* A slot without a player belongs to a dropped connection, with any number of points: the
\* slot a player has belongs to the connection the table has, or to a dropped one; and the
\* login a connection will finish is its own player's.
Lasting ==
    /\ Used(chat, Gone)
    /\ \A p \in Players : chat.index[p] # None =>
          \/ entry[p] = chat.slot[chat.index[p]]
          \/ chat.slot[chat.index[p]] \in Gone
    /\ \A h \in Handlers : uuid[h] # None => logged[h]
    /\ \A h \in Handlers : pending[h] # None => uuid[pending[h]] = uuid[h]

LastInv == OwnInv /\ ("register" \notin env => Lasting)

\* login_handle2 of a player whose slot, if there is one, belongs to a dropped connection.
LEMMA LoginLasts ==
    ASSUME NEW c, ChatOK(c), NEW D, Used(c, D), NEW p \in Players, NEW h \in Handlers,
           NEW e \in [Players -> Handlers \cup {Missing, Null}], NEW w,
           \A q \in Players : c.index[q] # None =>
               e[q] = c.slot[c.index[q]] \/ c.slot[c.index[q]] \in D,
           c.index[p] # None => c.slot[c.index[p]] \in D,
           LoginHandle2(h, p, e, c, w)
    PROVE  /\ Used(chat', D)
           /\ \A q \in Players : chat'.index[q] # None =>
                 \/ entry'[q] = chat'.slot[chat'.index[q]]
                 \/ chat'.slot[chat'.index[q]] \in D
<1> PICK d : d = OnlineNotify(c, p, h)
  OBVIOUS
<1>1. /\ Used(d, D)
      /\ \A q \in Players : q # p => d.index[q] = c.index[q]
      /\ \A q \in Players : q # p /\ c.index[q] # None =>
            d.slot[c.index[q]] = c.slot[c.index[q]]
      /\ d.index[p] # None =>
            \/ d.slot[d.index[p]] = h
            \/ c.index[p] # None /\ d.slot[d.index[p]] = c.slot[c.index[p]]
  BY OnlineUsed
<1>2. chat' = d /\ \A q \in Players : entry'[q] = IF q = p THEN h ELSE e[q]
  BY DEF LoginHandle2
<1>3. ASSUME NEW q \in Players, d.index[q] # None
      PROVE  entry'[q] = d.slot[d.index[q]] \/ d.slot[d.index[q]] \in D
  <2>1. CASE q = p
    BY <1>1, <1>2, <1>3, <2>1
  <2>2. CASE q # p
    BY <1>1, <1>2, <1>3, <2>2
  <2> QED
    BY <2>1, <2>2
<1> QED
  BY <1>1, <1>2, <1>3

\* Every step loses a slot only to a dropped connection, unless a client registers while
\* it is logged in.
LEMMA StepLasting ==
    ASSUME "register" \notin env, OwnInv, Lasting, [Next]_vars
    PROVE  Lasting'
<1>S. /\ StateType /\ ChatOK(chat) /\ Accepted
      /\ EntryOwned(entry, uuid, logged) /\ SlotOwned(chat, uuid, logged)
      /\ Used(chat, Gone)
      /\ \A p \in Players : chat.index[p] # None =>
            \/ entry[p] = chat.slot[chat.index[p]]
            \/ chat.slot[chat.index[p]] \in Gone
      /\ \A h \in Handlers : uuid[h] # None => logged[h]
      /\ \A h \in Handlers : pending[h] # None => uuid[pending[h]] = uuid[h]
      /\ None \notin Handlers /\ None \notin Players
      /\ Missing \notin Handlers /\ Null \notin Handlers /\ Missing # Null
  BY TypeSplit, PresenceAssumption DEF OwnInv, SlotInv, Owned, Lasting
<1>0. ASSUME UNCHANGED <<uuid, logged, pending, chat>>, \A g \in Gone : g \in Gone',
             \A p \in Players : \/ entry'[p] = entry[p]
                                \/ entry[p] \notin Handlers
                                \/ entry[p] \in Gone'
      PROVE  Lasting'
  <2>1. Used(chat, Gone)'
    BY <1>S, <1>0 DEF Used
  <2>2. ASSUME NEW p \in Players, chat.index[p] # None
        PROVE  entry'[p] = chat.slot[chat.index[p]] \/ chat.slot[chat.index[p]] \in Gone'
    <3>1. chat.slot[chat.index[p]] \in Handlers
      BY <1>S, <2>2 DEF SlotOwned
    <3> QED
      BY <1>S, <1>0, <2>2, <3>1
  <2> QED
    BY <1>S, <1>0, <2>1, <2>2 DEF Lasting
<1>1. ASSUME NEW h \in Handlers, Connect(h) \/ HeartBeatRequest(h) \/ Rejected(h)
      PROVE  Lasting'
  <2>1. UNCHANGED <<entry, uuid, logged, clientOff, pending, chat>>
    BY <1>1 DEF Connect, HeartBeatRequest, Rejected
  <2>2. \A g \in Gone : g \in Gone'
    BY <2>1 DEF Gone
  <2> QED
    BY <1>0, <2>1, <2>2
<1>2. ASSUME UNCHANGED vars PROVE Lasting'
  <2>1. UNCHANGED <<entry, uuid, logged, clientOff, pending, chat>>
    BY <1>2 DEF vars
  <2>2. \A g \in Gone : g \in Gone'
    BY <2>1 DEF Gone
  <2> QED
    BY <1>0, <2>1, <2>2
<1>3. ASSUME NEW p \in Players, HandlerInGateway(p) \/ MarketNotice(p)
      PROVE  Lasting'
  <2>1. /\ UNCHANGED <<uuid, logged, clientOff, pending, chat>>
        /\ \A q \in Players : entry'[q] = entry[q] \/ entry[q] = Missing
    BY <1>S, <1>3 DEF HandlerInGateway, MarketNotice, StateType
  <2>2. \A g \in Gone : g \in Gone'
    BY <2>1 DEF Gone
  <2> QED
    BY <1>0, <1>S, <2>1, <2>2
<1>4. ASSUME NEW idle \in SUBSET MayBeIdle, HeartCheck(idle)
      PROVE  Lasting'
  <2>1. /\ UNCHANGED <<uuid, logged, pending, chat>>
        /\ \A g \in Handlers : clientOff'[g] <=> clientOff[g] /\ g \notin idle
        /\ \A q \in Players : entry'[q] = IF entry[q] \in idle THEN Missing ELSE entry[q]
    BY <1>S, <1>4 DEF HeartCheck, StateType
  <2>2. \A g \in Gone : g \in Gone'
    BY <2>1 DEF Gone
  <2>3. ASSUME NEW q \in Players, entry[q] \in idle, entry[q] \in Handlers
        PROVE  entry[q] \in Gone'
    BY <1>S, <2>1, <2>3 DEF Gone, EntryOwned
  <2> QED
    BY <1>0, <2>1, <2>2, <2>3
<1>5. ASSUME NEW h \in Handlers, NEW p \in Players, ~logged[h],
             uuid' = [uuid EXCEPT ![h] = p], entry[p] \notin Handlers,
             LoginHandle2(h, p, entry, chat, workers), UNCHANGED <<clientOff, pending>>
      PROVE  Lasting'
  <2>1. /\ \A g \in Handlers : uuid'[g] = IF g = h THEN p ELSE uuid[g]
        /\ \A g \in Handlers : logged'[g] <=> logged[g] \/ g = h
    BY <1>S, <1>5 DEF StateType, LoginHandle2
  <2>2. uuid[h] = None
    BY <1>S, <1>5
  <2>3. \A g \in Gone : g \in Gone'
    BY <1>5, <1>S, <2>1 DEF Gone
  <2>4. chat.index[p] # None => chat.slot[chat.index[p]] \in Gone
    BY <1>S, <1>5 DEF SlotOwned
  <2>5. /\ Used(chat', Gone)
        /\ \A q \in Players : chat'.index[q] # None =>
              \/ entry'[q] = chat'.slot[chat'.index[q]]
              \/ chat'.slot[chat'.index[q]] \in Gone
    <3>1. entry \in [Players -> Handlers \cup {Missing, Null}]
      BY <1>S DEF StateType
    <3> QED
      BY <1>S, <1>5, <2>4, <3>1, LoginLasts
  <2>6. Used(chat, Gone)'
    BY <2>3, <2>5 DEF Used
  <2>7. \A g \in Handlers : pending'[g] # None => uuid'[pending'[g]] = uuid'[g]
    <3> SUFFICES ASSUME NEW g \in Handlers, pending[g] # None
                 PROVE  uuid'[pending[g]] = uuid'[g]
      BY <1>5
    <3>1. pending[g] \in Handlers /\ logged[pending[g]] /\ uuid[pending[g]] \in Players
      BY <1>S DEF StateType, Accepted
    <3>2. uuid[pending[g]] = uuid[g]
      BY <1>S
    <3>3. pending[g] # h /\ g # h
      BY <1>S, <1>5, <2>2, <3>1, <3>2
    <3> QED
      BY <2>1, <3>1, <3>2, <3>3
  <2>8. \A g \in Handlers : uuid'[g] # None => logged'[g]
    BY <1>S, <2>1
  <2> QED
    BY <2>3, <2>5, <2>6, <2>7, <2>8 DEF Lasting
<1>6. ASSUME NEW h \in Handlers, NEW p \in Players, ~logged[h], entry[p] \in Handlers,
             uuid' = [uuid EXCEPT ![h] = p], Displace(entry[p], h, p)
      PROVE  Lasting'
  <2> PICK old \in Handlers : old = entry[p]
    BY <1>6
  <2>1. uuid[old] = p /\ logged[old] /\ uuid[h] = None /\ old # h
    BY <1>S, <1>6 DEF EntryOwned
  <2>2. /\ \A g \in Handlers : clientOff'[g] <=> clientOff[g] /\ g # old
        /\ \A g \in Handlers : pending'[g] = IF g = old THEN h ELSE pending[g]
        /\ \A q \in Players : entry'[q] = IF q = p THEN Missing ELSE entry[q]
        /\ \A g \in Handlers : logged'[g] <=> logged[g] \/ g = h
        /\ \A g \in Handlers : uuid'[g] = IF g = h THEN p ELSE uuid[g]
        /\ chat' = chat
    BY <1>S, <1>6 DEF Displace, StateType
  <2>3. (\A g \in Gone : g \in Gone') /\ old \in Gone'
    BY <1>S, <2>1, <2>2 DEF Gone
  <2>4. Used(chat, Gone)'
    BY <1>S, <2>2, <2>3 DEF Used
  <2>5. \A q \in Players : chat'.index[q] # None =>
           \/ entry'[q] = chat'.slot[chat'.index[q]]
           \/ chat'.slot[chat'.index[q]] \in Gone'
    BY <1>S, <2>2, <2>3
  <2>6. \A g \in Handlers : pending'[g] # None => uuid'[pending'[g]] = uuid'[g]
    <3> SUFFICES ASSUME NEW g \in Handlers, pending'[g] # None
                 PROVE  uuid'[pending'[g]] = uuid'[g]
      OBVIOUS
    <3>1. CASE g = old
      BY <2>1, <2>2, <3>1
    <3>2. CASE g # old
      <4>1. pending[g] \in Handlers /\ logged[pending[g]] /\ uuid[pending[g]] \in Players
        BY <1>S, <2>2, <3>2 DEF StateType, Accepted
      <4>2. uuid[pending[g]] = uuid[g]
        BY <1>S, <2>2, <3>2
      <4>3. pending[g] # h /\ g # h
        BY <1>S, <1>6, <2>1, <4>1, <4>2
      <4> QED
        BY <2>2, <3>2, <4>1, <4>2, <4>3
    <3> QED
      BY <3>1, <3>2
  <2>7. \A g \in Handlers : uuid'[g] # None => logged'[g]
    BY <1>S, <2>2
  <2> QED
    BY <2>4, <2>5, <2>6, <2>7 DEF Lasting
<1>7. ASSUME NEW h \in Handlers, OnClose(h)
      PROVE  Lasting'
  <2> DEFINE p == uuid[h]
             here == p # None /\ entry[p] # Missing
             e == IF here /\ clientOff[h] THEN [entry EXCEPT ![p] = Missing]
                  ELSE entry
             c == IF here THEN OfflineNotify(chat, p) ELSE chat
             w == IF here THEN workers \ {p} ELSE workers
             n == pending[h]
  <2>1. /\ UNCHANGED <<uuid, clientOff>>
        /\ \A g \in Handlers : pending'[g] = IF g = h THEN None ELSE pending[g]
    BY <1>S, <1>7 DEF OnClose, StateType
  <2>2. Gone' = Gone
    BY <2>1 DEF Gone
  <2>3. \A g \in Handlers : pending'[g] # None => uuid'[pending'[g]] = uuid'[g]
    BY <1>S, <2>1
  <2>4. p \in Players \cup {None}
    BY <1>S DEF StateType
  <2>5. e \in [Players -> Handlers \cup {Missing, Null}]
    BY <1>S DEF StateType
  <2>6. /\ ChatOK(c) /\ Used(c, Gone)
        /\ here => c.index[p] = None
        /\ \A q \in Players : q # p => c.index[q] = chat.index[q]
        /\ \A q \in Players : q # p /\ chat.index[q] # None =>
              c.slot[chat.index[q]] = chat.slot[chat.index[q]]
    <3>1. CASE here
      <4> PICK D : D = Gone
        OBVIOUS
      <4> PICK d : d = OfflineNotify(chat, p)
        OBVIOUS
      <4>0. p \in Players /\ Used(chat, D)
        BY <1>S, <2>4, <3>1
      <4>1. /\ Used(d, D) /\ d.index[p] = None
            /\ \A q \in Players : q # p => d.index[q] = chat.index[q]
            /\ \A q \in Players : q # p /\ chat.index[q] # None =>
                  d.slot[chat.index[q]] = chat.slot[chat.index[q]]
        BY <1>S, <4>0, OfflineUsed
      <4>2. c = d
        BY <3>1
      <4>3. ChatOK(c)
        BY <1>S, <2>4, <3>1, OfflineKeeps
      <4> QED
        BY <4>1, <4>2, <4>3
    <3>2. CASE ~here
      BY <1>S, <3>2
    <3> QED
      BY <3>1, <3>2
  <2>7. ASSUME NEW q \in Players, c.index[q] # None
        PROVE  e[q] = c.slot[c.index[q]] \/ c.slot[c.index[q]] \in Gone
    <3>1. CASE q # p
      <4>1. e[q] = entry[q]
        BY <1>S, <3>1 DEF StateType
      <4>2. chat.index[q] # None /\ c.index[q] = chat.index[q]
            /\ c.slot[c.index[q]] = chat.slot[chat.index[q]]
        BY <2>6, <2>7, <3>1
      <4> HIDE DEF e, c
      <4> QED
        BY <1>S, <4>1, <4>2
    <3>2. CASE q = p
      <4>1. ~here
        BY <2>6, <2>7, <3>2
      <4>2. e = entry /\ c = chat
        BY <4>1
      <4> HIDE DEF e, c
      <4> QED
        BY <1>S, <2>7, <4>2
    <3> QED
      BY <3>1, <3>2
  <2>8. CASE n = None
    <3>1. entry' = e /\ chat' = c /\ logged' = logged
      BY <1>7, <2>8 DEF OnClose
    <3> HIDE DEF e, c
    <3> QED
      BY <1>S, <2>1, <2>2, <2>3, <2>6, <2>7, <3>1 DEF Lasting, Used
  <2>9. CASE n # None /\ ~Referenced(n)
    <3>1. entry' = entry /\ chat' = chat /\ logged' = logged
      BY <1>7, <2>9 DEF OnClose
    <3> HIDE DEF e, c
    <3> QED
      BY <1>S, <2>1, <2>2, <2>3, <3>1 DEF Lasting, Used
  <2>10. CASE n # None /\ Referenced(n)
    <3>1. n \in Handlers /\ logged[n] /\ uuid[n] = p /\ p \in Players
      BY <1>S, <2>10 DEF StateType, Accepted
    <3>2. LoginHandle2(n, p, e, c, w)
      BY <1>7, <2>10, <3>1 DEF OnClose
    <3>3. c.index[p] # None => c.slot[c.index[p]] \in Gone
      <4> SUFFICES ASSUME c.index[p] # None PROVE c.slot[c.index[p]] \in Gone
        OBVIOUS
      <4>1. ~here
        BY <2>6
      <4>2. entry[p] = Missing /\ c = chat
        BY <1>S, <3>1, <4>1
      <4>3. chat.slot[chat.index[p]] \in Handlers
        BY <1>S, <3>1, <4>2 DEF SlotOwned
      <4> QED
        BY <1>S, <3>1, <4>2, <4>3
    <3> HIDE DEF e, c, w, n, here
    <3> DEFINE G == Gone
    <3>4. Used(c, G) /\ (c.index[p] # None => c.slot[c.index[p]] \in G)
          /\ \A q \in Players : c.index[q] # None =>
                e[q] = c.slot[c.index[q]] \/ c.slot[c.index[q]] \in G
      BY <2>6, <2>7, <3>3
    <3> HIDE DEF G
    <3>5. /\ Used(chat', G)
          /\ \A q \in Players : chat'.index[q] # None =>
                \/ entry'[q] = chat'.slot[chat'.index[q]]
                \/ chat'.slot[chat'.index[q]] \in G
      BY <2>5, <2>6, <3>1, <3>2, <3>4, LoginLasts
    <3>6. logged' = logged
      BY <1>S, <3>1, <3>2 DEF LoginHandle2, StateType
    <3> QED
      BY <1>S, <2>1, <2>2, <2>3, <3>5, <3>6 DEF Lasting, Used, G
  <2> QED
    BY <2>8, <2>9, <2>10
<1>8. ASSUME NEW h \in Handlers, NEW p \in Players, LoginRequest(h, p) \/ RegisterRequest(h, p)
      PROVE  Lasting'
  <2>1. ~logged[h] /\ uuid' = [uuid EXCEPT ![h] = p]
    BY <1>8 DEF LoginRequest, RegisterRequest, MayLogin
  <2>2. \/ entry[p] \in Handlers /\ Displace(entry[p], h, p)
        \/ /\ entry[p] \notin Handlers
           /\ LoginHandle2(h, p, entry, chat, workers)
           /\ UNCHANGED <<clientOff, pending>>
    BY <1>S, <1>8 DEF LoginRequest, RegisterRequest
  <2> QED
    BY <1>5, <1>6, <2>1, <2>2
<1> QED
  BY <1>1, <1>2, <1>3, <1>4, <1>7, <1>8 DEF Next, HandlerNext

\* From the start on, a slot is lost only to a dropped connection.
LEMMA AlwaysLasting == Spec => []LastInv
<1>1. Init => LastInv
  <2> SUFFICES ASSUME Init PROVE Lasting
    BY InitOwnInv DEF LastInv
  <2>1. Used(chat, Gone)
    BY DEF Init, Chat, Used
  <2>2. \A p \in Players : chat.index[p] = None
    BY DEF Init, Chat
  <2>3. \A h \in Handlers : uuid[h] = None /\ pending[h] = None
    BY DEF Init
  <2> QED
    BY <2>1, <2>2, <2>3 DEF Lasting
<1>2. LastInv /\ [Next]_vars => LastInv'
  <2> SUFFICES ASSUME LastInv, [Next]_vars PROVE LastInv'
    OBVIOUS
  <2>1. OwnInv' /\ env' = env
    BY StepOwnInv DEF LastInv, Next, vars
  <2>2. "register" \notin env => Lasting'
    BY StepLasting DEF LastInv
  <2> QED
    BY <2>1, <2>2 DEF LastInv
<1> QED
  BY <1>1, <1>2, PTL DEF Spec

\* When players log in from one place at a time, whatever the idle check drops and the
\* workers write, the table, the chat slots, what the workers were told and the open
\* connections agree about who is online, but for connections the idle check dropped; and
\* with any number of points no slot is lost but to a dropped connection.
THEOREM RegistriesAgree == Spec => []OnlineAgreed
<1>1. Init => AgreeInv
  <2> SUFFICES ASSUME Init PROVE Agrees
    BY InitSlotInv DEF AgreeInv
  <2>1. \A p \in Players : TableAgrees(p) /\ WorkersAgree(p) /\ ChatAgrees(p)
    BY PresenceAssumption DEF Init, Chat, TableAgrees, WorkersAgree, ChatAgrees, Open
  <2>2. \A h \in Handlers : OnePoint(h)
    BY DEF Init, OnePoint
  <2>3. Used(chat, Gone)
    BY DEF Init, Chat, Used
  <2> QED
    BY <2>1, <2>2, <2>3 DEF Agrees
<1>2. AgreeInv /\ [Next]_vars => AgreeInv'
  <2> SUFFICES ASSUME AgreeInv, [Next]_vars PROVE AgreeInv'
    OBVIOUS
  <2>1. SlotInv'
    BY StepSlotInv DEF AgreeInv
  <2>2. env' = env
    BY DEF Next, vars
  <2>3. OnePointEach => Agrees'
    BY StepAgrees DEF AgreeInv
  <2> QED
    BY <2>1, <2>2, <2>3 DEF AgreeInv, OnePointEach
<1>3. AgreeInv /\ LastInv => OnlineAgreed
  <2> SUFFICES ASSUME AgreeInv, LastInv
               PROVE  OnlineAgreed
    OBVIOUS
  <2>1. ASSUME OnePointEach, NEW p \in Players
        PROVE  /\ Cardinality(Held(p)) <= 1
               /\ \A h \in Handlers : entry[p] = h <=> h \in Held(p) \ Dropped(p)
               /\ Held(p) # {} => p \in workers
               /\ p \in workers => Held(p) \cup Dropped(p) # {}
               /\ Had(p) # {} /\ Had(p) \subseteq Dropped(p) /\ entry[p] = Missing =>
                     p \in workers
               /\ chat.index[p] # None =>
                     /\ p \in workers
                     /\ chat.slot[chat.index[p]] \in Held(p) \cup Dropped(p)
               /\ /\ Held(p) # {} /\ Cardinality(Players) <= MaxClient
                  /\ \A h \in Handlers : clientOff[h]
                  => chat.index[p] # None
    <3>S. TableAgrees(p) /\ WorkersAgree(p) /\ ChatAgrees(p)
      BY <2>1 DEF AgreeInv, Agrees
    <3>0. /\ \A h : h \in Had(p) <=> h \in Handlers /\ uuid[h] = p
          /\ \A h : h \in Held(p) <=> h \in Handlers /\ Open(h, p)
          /\ \A h : h \in Dropped(p) <=> h \in Handlers /\ uuid[h] = p /\ ~clientOff[h]
      BY DEF Had, Held, Dropped, Open
    <3>1. Cardinality(Held(p)) <= 1
      <4>1. \A g, h \in Held(p) : g = h
        BY <3>S, <3>0 DEF TableAgrees
      <4>2. CASE Held(p) = {}
        BY <4>2, FS_EmptySet
      <4>3. ASSUME NEW g \in Held(p) PROVE Cardinality(Held(p)) <= 1
        <5>1. Held(p) = {g}
          BY <4>1
        <5>2. Cardinality({g}) = 1
          BY FS_Singleton
        <5> QED
          BY <5>1, <5>2
      <4> QED
        BY <4>2, <4>3
    <3>2. \A h \in Handlers : entry[p] = h <=> h \in Held(p) \ Dropped(p)
      BY <3>S, <3>0 DEF TableAgrees, Open
    <3>3. /\ Held(p) # {} => p \in workers
          /\ p \in workers => Held(p) \cup Dropped(p) # {}
          /\ Had(p) # {} /\ Had(p) \subseteq Dropped(p) /\ entry[p] = Missing =>
                p \in workers
      BY <3>S, <3>0 DEF WorkersAgree, Open
    <3>4. chat.index[p] # None =>
             p \in workers /\ chat.slot[chat.index[p]] \in Held(p) \cup Dropped(p)
      BY <3>S, <3>0 DEF ChatAgrees, Open
    <3>5. /\ Held(p) # {} /\ Cardinality(Players) <= MaxClient
          /\ \A h \in Handlers : clientOff[h]
          => chat.index[p] # None
      BY <3>S, <3>0 DEF ChatAgrees
    <3> QED
      BY <3>1, <3>2, <3>3, <3>4, <3>5
  <2>2. ASSUME "register" \notin env, NEW i \in chat.online
        PROVE  \/ \E p \in Players : chat.index[p] = i
               \/ \E p \in Players : chat.slot[i] \in Dropped(p)
    <3>1. Used(chat, Gone)
      BY <2>2 DEF LastInv, Lasting
    <3> QED
      BY <3>1 DEF Used, Gone, Dropped, Had
  <2> QED
    BY <2>1, <2>2 DEF OnlineAgreed
<1> QED
  BY <1>1, <1>2, <1>3, AlwaysLasting, PTL DEF Spec

-----------------------------------------------------------------------------
(* Folds and functions defined by recursion on numbers.                    *)

\* A set of naturals that is not empty has a least element.
LEMMA LeastElement ==
    ASSUME NEW T \in SUBSET Nat, T # {}
    PROVE  \E x \in T : \A y \in T : x <= y
<1> DEFINE F == {0 .. n : n \in T}
<1>1. F # {} /\ F \subseteq FiniteSubsetsOf(Nat)
  <2>1. \A n \in T : IsFiniteSet(0 .. n) /\ 0 .. n \in SUBSET Nat
    <3> TAKE n \in T
    <3>1. n \in Int /\ 0 \in Int
      OBVIOUS
    <3>2. IsFiniteSet(0 .. n)
      BY <3>1, FS_Interval
    <3> QED
      BY <3>2
  <2> QED
    BY <2>1 DEF FiniteSubsetsOf
<1>2. \E x \in F : \A y \in F : ~(<<y, x>> \in StrictSubsetOrdering(Nat))
  BY <1>1, FS_StrictSubsetOrderingWellFounded, WFMin
<1>3. PICK x \in T : \A y \in T : ~(<<0 .. y, 0 .. x>> \in StrictSubsetOrdering(Nat))
  BY <1>2
<1>4. ASSUME NEW y \in T, y < x PROVE FALSE
  <2>1. 0 .. y \in SUBSET Nat /\ 0 .. x \in SUBSET Nat /\ 0 .. y \subseteq 0 .. x
    BY <1>4
  <2>2. x \in 0 .. x /\ x \notin 0 .. y
    BY <1>4
  <2> QED
    BY <1>3, <2>1, <2>2 DEF StrictSubsetOrdering
<1>5. \A y \in T : x <= y
  BY <1>4
<1> QED
  BY <1>5

\* A set of finite sets has a member with no other below it.
LEMMA SmallestSubset ==
    ASSUME NEW S, IsFiniteSet(S), NEW B \in SUBSET (SUBSET S), B # {}
    PROVE  \E U \in B : \A V \in SUBSET U : V # U => V \notin B
<1>1. B \subseteq FiniteSubsetsOf(S)
  BY FS_FiniteSubsetsOfFinite
<1>2. PICK U \in B : \A V \in B : ~(<<V, U>> \in StrictSubsetOrdering(S))
  BY <1>1, FS_StrictSubsetOrderingWellFounded, WFMin
<1>3. ASSUME NEW V \in SUBSET U, V # U PROVE V \notin B
  <2>1. U \subseteq S /\ V \subseteq S
    OBVIOUS
  <2>2. <<V, U>> \in StrictSubsetOrdering(S)
    BY <1>3, <2>1 DEF StrictSubsetOrdering
  <2> QED
    BY <1>2, <2>2
<1> QED
  BY <1>3

\* A set of indices that is not empty has a last one.
LEMMA MaxIn ==
    ASSUME NEW n \in Nat, NEW T \in SUBSET (1 .. n), T # {}
    PROVE  Max(T) \in T
<1>1. PICK Z : Z = {n - i : i \in T}
  OBVIOUS
<1>2. Z \in SUBSET Nat /\ Z # {}
  <2>1. \A i \in T : n - i \in Nat
    OBVIOUS
  <2> QED
    BY <1>1, <2>1
<1>3. PICK z \in Z : \A y \in Z : z <= y
  BY <1>2, LeastElement
<1>4. PICK i \in T : z = n - i
  BY <1>1
<1>5. ASSUME NEW j \in T PROVE i >= j
  <2>1. n - j \in Z /\ i \in Int /\ j \in Int
    BY <1>1
  <2> QED
    BY <1>3, <1>4, <2>1
<1> QED
  BY <1>5 DEF Max

\* Each part of S has a last index.
Ordered(S) == IsFiniteSet(S) /\ \A T \in SUBSET S : T # {} => Max(T) \in T

\* The indices of a sequence are ordered, and so is each part of them.
LEMMA OrderedParts ==
    /\ \A n \in Nat : Ordered(1 .. n)
    /\ \A S : Ordered(S) => \A T \in SUBSET S : Ordered(T)
<1>1. ASSUME NEW n \in Nat PROVE Ordered(1 .. n)
  <2>1. IsFiniteSet(1 .. n)
    <3>1. 1 \in Int /\ n \in Int
      OBVIOUS
    <3> QED
      BY <3>1, FS_Interval
  <2>2. \A T \in SUBSET (1 .. n) : T # {} => Max(T) \in T
    BY MaxIn
  <2> QED
    BY <2>1, <2>2 DEF Ordered
<1>2. ASSUME NEW S, Ordered(S), NEW T \in SUBSET S PROVE Ordered(T)
  BY <1>2, FS_Subset DEF Ordered
<1> QED
  BY <1>1, <1>2

\* The partial results of a fold over the indices S of q, from b, by the table G.
Folds(g, G, b, q, S) ==
    g = [T \in SUBSET S |-> IF T = {} THEN b ELSE G[<<g[T \ {Max(T)}], q[Max(T)]>>]]

\* They do not depend on the indices that follow.
LEMMA FoldsAgree ==
    ASSUME NEW S, Ordered(S), NEW T \in SUBSET S,
           NEW G, NEW b, NEW q, NEW g, NEW h, Folds(g, G, b, q, S), Folds(h, G, b, q, T)
    PROVE  g[T] = h[T]
<1> DEFINE B == {V \in SUBSET T : g[V] # h[V]}
<1> SUFFICES ASSUME B # {} PROVE FALSE
  OBVIOUS
<1>1. B \in SUBSET (SUBSET S) /\ IsFiniteSet(S)
  BY DEF Ordered
<1> HIDE DEF B
<1>2. PICK V \in B : \A W \in SUBSET V : W # V => W \notin B
  BY <1>1, SmallestSubset
<1>3. V \in SUBSET S /\ V \in SUBSET T /\ g[V] # h[V]
  BY DEF B
<1>4. V # {}
  <2>1. V = {} => g[V] = b /\ h[V] = b
    BY <1>3 DEF Folds
  <2> QED
    BY <1>3, <2>1
<1>5. PICK c, W : c = Max(V) /\ W = V \ {c}
  OBVIOUS
<1>6. c \in V
  BY <1>3, <1>4, <1>5 DEF Ordered
<1>7. g[V] = G[<<g[W], q[c]>>] /\ h[V] = G[<<h[W], q[c]>>]
  <2>1. g[V] = G[<<g[W], q[c]>>]
    BY <1>3, <1>4, <1>5 DEF Folds
  <2>2. h[V] = G[<<h[W], q[c]>>]
    BY <1>3, <1>4, <1>5 DEF Folds
  <2> QED
    BY <2>1, <2>2
<1>8. g[W] = h[W]
  BY <1>2, <1>3, <1>5, <1>6 DEF B
<1> QED
  BY <1>3, <1>7, <1>8

\* There are partial results.
LEMMA FoldsExist ==
    ASSUME NEW S, Ordered(S), NEW G, NEW b, NEW q
    PROVE  \E g : Folds(g, G, b, q, S)
<1> DEFINE B == {U \in SUBSET S : ~\E g : Folds(g, G, b, q, U)}
<1> SUFFICES ASSUME B # {} PROVE FALSE
  OBVIOUS
<1>1. B \in SUBSET (SUBSET S) /\ IsFiniteSet(S)
  BY DEF Ordered
<1> HIDE DEF B
<1>2. PICK U \in B : \A V \in SUBSET U : V # U => V \notin B
  BY <1>1, SmallestSubset
<1>3. U \in SUBSET S /\ ~\E g : Folds(g, G, b, q, U)
  BY DEF B
<1>4. ASSUME NEW V \in SUBSET U, V # U PROVE \E g : Folds(g, G, b, q, V)
  BY <1>2, <1>3, <1>4 DEF B
<1> DEFINE W(V) == CHOOSE g : Folds(g, G, b, q, V)
           val(T) == IF T = {} THEN b ELSE G[<<W(T \ {Max(T)})[T \ {Max(T)}], q[Max(T)]>>]
           h == [T \in SUBSET U |-> val(T)]
<1>5. ASSUME NEW V \in SUBSET U, V # U PROVE Folds(W(V), G, b, q, V)
  BY <1>4, <1>5
<1> HIDE DEF W
<1>6. ASSUME NEW T \in SUBSET U PROVE Ordered(T) /\ (T # {} => Max(T) \in T)
  BY <1>3, OrderedParts DEF Ordered
<1>7. ASSUME NEW V \in SUBSET U, V # U PROVE W(V)[V] = val(V)
  <2>1. Folds(W(V), G, b, q, V) /\ V \in SUBSET V
    BY <1>5, <1>7
  <2>2. CASE V = {}
    BY <2>1, <2>2 DEF Folds
  <2>3. CASE V # {}
    <3>1. PICK c, X : c = Max(V) /\ X = V \ {c}
      OBVIOUS
    <3>2. c \in V
      BY <1>6, <2>3, <3>1
    <3>3. W(V)[V] = G[<<W(V)[X], q[c]>>]
      BY <2>1, <2>3, <3>1 DEF Folds
    <3>4. X \in SUBSET U /\ X # U /\ X \in SUBSET V /\ Ordered(V)
      BY <1>6, <3>1, <3>2
    <3>5. Folds(W(X), G, b, q, X)
      BY <1>5, <3>4
    <3>6. W(V)[X] = W(X)[X]
      <4>1. PICK v, w : v = W(V) /\ w = W(X)
        OBVIOUS
      <4>2. Folds(v, G, b, q, V) /\ Folds(w, G, b, q, X)
        BY <2>1, <3>5, <4>1
      <4>3. v[X] = w[X]
        BY <3>4, <4>2, FoldsAgree
      <4> QED
        BY <4>1, <4>3
    <3> QED
      BY <2>3, <3>1, <3>3, <3>6
  <2> QED
    BY <2>2, <2>3
<1>8. h = [T \in SUBSET U |-> IF T = {} THEN b ELSE G[<<h[T \ {Max(T)}], q[Max(T)]>>]]
  <2>1. ASSUME NEW T \in SUBSET U, T # {} PROVE h[T] = G[<<h[T \ {Max(T)}], q[Max(T)]>>]
    <3>1. PICK c, X : c = Max(T) /\ X = T \ {c}
      OBVIOUS
    <3>2. c \in T
      BY <1>6, <2>1, <3>1
    <3>3. X \in SUBSET U /\ X # U
      BY <3>1, <3>2
    <3>4. h[X] = val(X) /\ W(X)[X] = val(X)
      BY <1>7, <3>3
    <3>5. h[T] = G[<<W(X)[X], q[c]>>]
      BY <2>1, <3>1
    <3> QED
      BY <3>1, <3>4, <3>5
  <2>2. h[{}] = b
    OBVIOUS
  <2> HIDE DEF val
  <2>3. h = [T \in SUBSET U |-> h[T]]
    OBVIOUS
  <2> HIDE DEF h
  <2> QED
    BY <2>1, <2>2, <2>3
<1>9. Folds(h, G, b, q, U)
  BY <1>8 DEF Folds
<1> QED
  BY <1>3, <1>9

\* What each index keeps in R, all of them do.
LEMMA FoldStays ==
    ASSUME NEW S, Ordered(S), NEW R, NEW g, g[{}] \in R,
           \A T \in SUBSET S : T # {} /\ g[T \ {Max(T)}] \in R => g[T] \in R
    PROVE  \A T \in SUBSET S : g[T] \in R
<1> DEFINE B == {T \in SUBSET S : g[T] \notin R}
<1> SUFFICES ASSUME B # {} PROVE FALSE
  OBVIOUS
<1>1. B \in SUBSET (SUBSET S) /\ IsFiniteSet(S)
  BY DEF Ordered
<1> HIDE DEF B
<1>2. PICK T \in B : \A V \in SUBSET T : V # T => V \notin B
  BY <1>1, SmallestSubset
<1>3. T \in SUBSET S /\ g[T] \notin R /\ T # {}
  BY DEF B
<1>4. PICK c, X : c = Max(T) /\ X = T \ {c}
  OBVIOUS
<1>5. c \in T
  BY <1>3, <1>4 DEF Ordered
<1>6. X \in SUBSET T /\ X # T /\ X \in SUBSET S
  BY <1>3, <1>4, <1>5
<1>7. g[X] \in R
  BY <1>2, <1>6 DEF B
<1> QED
  BY <1>3, <1>4, <1>7

\* The table G keeps R, for the elements of q.
Keeps(G, q, S, R) == \A r \in R, i \in S : G[<<r, q[i]>>] \in R

\* A fold by a table that keeps R.
LEMMA FoldIn ==
    ASSUME NEW S, Ordered(S), NEW R, NEW b \in R, NEW q, NEW G, Keeps(G, q, S, R)
    PROVE  \E g : Folds(g, G, b, q, S) /\ \A T \in SUBSET S : g[T] \in R
<1>1. PICK g : Folds(g, G, b, q, S)
  BY FoldsExist
<1>2. g[{}] \in R
  BY <1>1 DEF Folds
<1>3. ASSUME NEW T \in SUBSET S, T # {}, g[T \ {Max(T)}] \in R PROVE g[T] \in R
  <2>1. PICK i, X : i = Max(T) /\ X = T \ {i}
    OBVIOUS
  <2>2. i \in S
    BY <1>3, <2>1 DEF Ordered
  <2>3. g[T] = G[<<g[X], q[i]>>]
    BY <1>1, <1>3, <2>1 DEF Folds
  <2> QED
    BY <1>3, <2>1, <2>2, <2>3 DEF Keeps
<1>4. \A T \in SUBSET S : g[T] \in R
  BY <1>2, <1>3, FoldStays
<1> QED
  BY <1>1, <1>4

\* What holds of 0 and of each number with its predecessor holds up to n: I says where.
LEMMA Upwards ==
    ASSUME NEW n \in Nat, NEW I, 0 \in I, \A k \in 1 .. n : k - 1 \in I => k \in I
    PROVE  \A k \in 0 .. n : k \in I
<1> DEFINE T == {k \in 0 .. n : k \notin I}
<1> SUFFICES ASSUME T # {} PROVE FALSE
  OBVIOUS
<1>1. T \in SUBSET Nat
  OBVIOUS
<1>2. PICK m \in T : \A k \in T : m <= k
  BY <1>1, LeastElement
<1>3. m \in 1 .. n /\ m - 1 \in 0 .. n /\ ~(m <= m - 1)
  BY <1>1
<1>4. m - 1 \in I
  BY <1>2, <1>3
<1> QED
  BY <1>3, <1>4

-----------------------------------------------------------------------------
(* The first elements of a sequence.                                       *)

\* The last of the first n + 1 numbers.
LEMMA LastIndex ==
    ASSUME NEW n \in Nat
    PROVE  Max(1 .. n + 1) = n + 1 /\ (1 .. n + 1) \ {n + 1} = 1 .. n
<1>1. n + 1 \in Nat /\ 1 .. n + 1 \in SUBSET (1 .. n + 1) /\ n + 1 \in 1 .. n + 1
  OBVIOUS
<1>2. PICK m : m = Max(1 .. n + 1)
  OBVIOUS
<1>3. \A x \in 1 .. n + 1 : n + 1 >= x
  OBVIOUS
<1>4. m \in 1 .. n + 1 /\ \A x \in 1 .. n + 1 : m >= x
  BY <1>1, <1>2, <1>3 DEF Max
<1>5. m = n + 1
  BY <1>1, <1>4
<1> QED
  BY <1>2, <1>5

\* The first n elements of s are those of t.
SameUpTo(s, t, n) == \A i \in 1 .. n : s[i] = t[i]

\* A fold over one element more goes on from the fold over those before it.
LEMMA FoldMore ==
    ASSUME NEW n \in Nat, NEW G, NEW b, NEW q, NEW p, SameUpTo(q, p, n),
           NEW g, Folds(g, G, b, q, 1 .. n), NEW h, Folds(h, G, b, p, 1 .. n + 1)
    PROVE  h[1 .. n + 1] = G[<<g[1 .. n], p[n + 1]>>]
<1>1. Ordered(1 .. n) /\ Ordered(1 .. n + 1) /\ n + 1 \in Nat
  BY OrderedParts
<1>2. PICK S, Z : S = 1 .. n /\ Z = 1 .. n + 1
  OBVIOUS
<1>3. S \in SUBSET Z /\ Z # {} /\ Max(Z) = n + 1 /\ Z \ {n + 1} = S
  <2>1. S \in SUBSET Z /\ n + 1 \in Z
    BY <1>2
  <2> QED
    BY <2>1, <1>2, LastIndex
<1>4. Folds(g, G, b, p, S)
  <2>1. ASSUME NEW T \in SUBSET S
        PROVE  g[T] = IF T = {} THEN b ELSE G[<<g[T \ {Max(T)}], p[Max(T)]>>]
    <3>1. g[T] = IF T = {} THEN b ELSE G[<<g[T \ {Max(T)}], q[Max(T)]>>]
      BY <1>2 DEF Folds
    <3>2. T # {} => Max(T) \in 1 .. n
      BY <1>1, <1>2 DEF Ordered
    <3>3. \A i \in 1 .. n : q[i] = p[i]
      BY DEF SameUpTo
    <3> QED
      BY <3>1, <3>2, <3>3
  <2>2. g = [T \in SUBSET S |-> g[T]]
    BY <1>2 DEF Folds
  <2> QED
    BY <2>1, <2>2 DEF Folds
<1>5. h[S] = g[S]
  BY <1>1, <1>2, <1>3, <1>4, FoldsAgree
<1>6. h[Z] = G[<<h[Z \ {Max(Z)}], p[Max(Z)]>>]
  BY <1>2, <1>3 DEF Folds
<1> QED
  BY <1>2, <1>3, <1>5, <1>6

-----------------------------------------------------------------------------
(* The configuration: what rows are, and the size of a page.               *)

TableRows == [type : Nat, level : Nat, width : Nat, n : Nat]
Size(rs) == FoldLeft(LAMBDA sum, r : sum + r.width, 0, rs)
Adds == [p \in Nat \X TableRows |-> p[1] + p[2].width]

\* A page's size is a fold by Adds.
LEMMA SizeFolds ==
    ASSUME NEW q \in Seq(TableRows)
    PROVE  \E h : Folds(h, Adds, 0, q, 1 .. Len(q)) /\ Size(q) = h[1 .. Len(q)] /\ Size(q) \in Nat
<1>1. PICK S : S = DOMAIN q
  OBVIOUS
<1>2. S = 1 .. Len(q) /\ Len(q) \in Nat /\ \A i \in S : q[i] \in TableRows
  BY <1>1
<1>3. Ordered(S)
  BY <1>2, OrderedParts
<1> DEFINE Is(h) == h = [T \in SUBSET S |-> IF T = {} THEN 0 ELSE h[T \ {Max(T)}] + q[Max(T)].width]
<1>4. Size(q) = (CHOOSE h : Is(h))[S]
  BY <1>1 DEF Size, FoldLeft, MapThenFoldSet
<1>5. ASSUME NEW x \in Nat, NEW r \in TableRows
      PROVE  Adds[<<x, r>>] = x + r.width /\ x + r.width \in Nat
  BY DEF Adds, TableRows
<1>6. PICK g : Folds(g, Adds, 0, q, S) /\ \A T \in SUBSET S : g[T] \in Nat
  <2>1. 0 \in Nat /\ Keeps(Adds, q, S, Nat)
    BY <1>2, <1>5 DEF Keeps
  <2> QED
    BY <1>3, <2>1, FoldIn
<1>7. ASSUME NEW T \in SUBSET S, T # {} PROVE Max(T) \in S /\ T \ {Max(T)} \in SUBSET S
  BY <1>3, <1>7 DEF Ordered
<1>8. Is(g)
  <2>1. ASSUME NEW T \in SUBSET S
        PROVE  g[T] = IF T = {} THEN 0 ELSE g[T \ {Max(T)}] + q[Max(T)].width
    <3>1. CASE T = {}
      BY <1>6, <3>1 DEF Folds
    <3>2. CASE T # {}
      <4>1. PICK i, X : i = Max(T) /\ X = T \ {i}
        OBVIOUS
      <4>2. i \in S /\ X \in SUBSET S
        BY <1>7, <3>2, <4>1
      <4>3. g[T] = Adds[<<g[X], q[i]>>]
        BY <1>6, <3>2, <4>1 DEF Folds
      <4>4. g[T] = g[X] + q[i].width
        BY <1>2, <1>5, <1>6, <4>2, <4>3
      <4> QED
        BY <3>2, <4>1, <4>4
    <3> QED
      BY <3>1, <3>2
  <2>2. g = [T \in SUBSET S |-> g[T]]
    BY <1>6 DEF Folds
  <2> QED
    BY <2>1, <2>2
<1>9. PICK h : h = CHOOSE f : Is(f)
  OBVIOUS
<1>10. Is(h)
  BY <1>8, <1>9
<1>11. h[{}] \in Nat
  BY <1>10
<1>12. ASSUME NEW T \in SUBSET S, T # {}, h[T \ {Max(T)}] \in Nat
       PROVE  h[T] \in Nat /\ h[T] = Adds[<<h[T \ {Max(T)}], q[Max(T)]>>]
  <2>1. PICK i, X : i = Max(T) /\ X = T \ {i}
    OBVIOUS
  <2>2. h[T] = h[X] + q[i].width
    BY <1>10, <1>12, <2>1
  <2>3. q[i] \in TableRows
    BY <1>2, <1>7, <1>12, <2>1
  <2> QED
    BY <1>5, <1>12, <2>1, <2>2, <2>3
<1>13. \A T \in SUBSET S : h[T] \in Nat
  BY <1>3, <1>11, <1>12, FoldStays
<1>14. Folds(h, Adds, 0, q, S)
  <2>1. h = [T \in SUBSET S |-> h[T]]
    BY <1>10
  <2>2. ASSUME NEW T \in SUBSET S, T # {} PROVE h[T] = Adds[<<h[T \ {Max(T)}], q[Max(T)]>>]
    BY <1>7, <1>12, <1>13, <2>2
  <2>3. h[{}] = 0
    BY <1>10
  <2> QED
    BY <2>1, <2>2, <2>3 DEF Folds
<1>15. Size(q) = h[S] /\ h[S] \in Nat
  BY <1>4, <1>9, <1>13
<1> QED
  BY <1>2, <1>14, <1>15

\* A row more is its width more.
LEMMA SizeAdds ==
    ASSUME NEW q \in Seq(TableRows), NEW r \in TableRows
    PROVE  Size(Append(q, r)) = Size(q) + r.width /\ Size(q) \in Nat
<1>1. PICK p : p = Append(q, r)
  OBVIOUS
<1>2. PICK n \in Nat : n = Len(q)
  OBVIOUS
<1>3. /\ p \in Seq(TableRows) /\ Len(p) = n + 1 /\ p[n + 1] = r
      /\ \A i \in 1 .. n : p[i] = q[i]
  BY <1>1, <1>2
<1>4. PICK g : Folds(g, Adds, 0, q, 1 .. n) /\ Size(q) = g[1 .. n] /\ Size(q) \in Nat
  BY <1>2, SizeFolds
<1>5. PICK h : Folds(h, Adds, 0, p, 1 .. n + 1) /\ Size(p) = h[1 .. n + 1]
  BY <1>3, SizeFolds
<1>6. Size(p) = Adds[<<Size(q), r>>]
  <2>1. SameUpTo(q, p, n)
    BY <1>3 DEF SameUpTo
  <2>2. PICK G, b : G = Adds /\ b = 0
    OBVIOUS
  <2>3. Folds(g, G, b, q, 1 .. n) /\ Folds(h, G, b, p, 1 .. n + 1)
    BY <1>4, <1>5, <2>2
  <2>4. h[1 .. n + 1] = G[<<g[1 .. n], p[n + 1]>>]
    BY <2>1, <2>3, FoldMore
  <2> QED
    BY <1>3, <1>4, <1>5, <2>2, <2>4
<1>7. PICK x \in Nat : x = Size(q)
  BY <1>4
<1>8. Adds[<<x, r>>] = x + r.width
  BY DEF Adds
<1> QED
  BY <1>1, <1>6, <1>7, <1>8

\* A page without rows.
LEMMA SizeEmpty == Size(<<>>) = 0
<1>1. <<>> \in Seq(TableRows) /\ Len(<<>>) = 0 /\ 1 .. 0 = {}
  OBVIOUS
<1>2. PICK h : Folds(h, Adds, 0, <<>>, 1 .. 0) /\ Size(<<>>) = h[1 .. 0]
  BY <1>1, SizeFolds
<1> QED
  BY <1>1, <1>2 DEF Folds

-----------------------------------------------------------------------------
(* Lists of lists that are joined.                                         *)

\* The first lists of ss joined.
Joins(f, ss, n) == f = [i \in 1 .. n |-> IF i = 1 THEN ss[1] ELSE f[i - 1] \o ss[i]]

\* There are such joins, and they are lists.
LEMMA JoinsExist ==
    ASSUME NEW X, NEW n \in Nat, NEW ss, \A i \in 1 .. n : ss[i] \in Seq(X)
    PROVE  \E f : Joins(f, ss, n)
<1> DEFINE I == {m \in 0 .. n : \E f : Joins(f, ss, m)}
<1>1. 0 \in I
  <2>1. Joins([i \in 1 .. 0 |-> ss[1]], ss, 0)
    BY DEF Joins
  <2> QED
    BY <2>1
<1>2. ASSUME NEW m \in 1 .. n, m - 1 \in I PROVE m \in I
  <2>1. PICK f : Joins(f, ss, m - 1)
    BY <1>2
  <2> DEFINE h == [i \in 1 .. m |-> IF i = m THEN (IF m = 1 THEN ss[1] ELSE f[m - 1] \o ss[m])
                                    ELSE f[i]]
  <2>2. ASSUME NEW i \in 1 .. m PROVE h[i] = IF i = 1 THEN ss[1] ELSE h[i - 1] \o ss[i]
    <3>1. CASE i = m
      <4>1. CASE m = 1
        BY <3>1, <4>1
      <4>2. CASE m # 1
        <5>1. m - 1 \in 1 .. m /\ m - 1 # m
          BY <4>2
        <5>2. h[m - 1] = f[m - 1]
          BY <5>1
        <5> QED
          BY <3>1, <4>2, <5>2
      <4> QED
        BY <4>1, <4>2
    <3>2. CASE i # m
      <4>1. i \in 1 .. m - 1
        BY <3>2
      <4>2. f[i] = IF i = 1 THEN ss[1] ELSE f[i - 1] \o ss[i]
        BY <2>1, <4>1 DEF Joins
      <4>3. h[i] = f[i]
        BY <3>2
      <4>4. i # 1 => h[i - 1] = f[i - 1]
        <5>1. i # 1 => i - 1 \in 1 .. m /\ i - 1 # m
          BY <4>1
        <5> QED
          BY <5>1
      <4> QED
        BY <4>2, <4>3, <4>4
    <3> QED
      BY <3>1, <3>2
  <2>3. h = [i \in 1 .. m |-> h[i]]
    OBVIOUS
  <2> HIDE DEF h
  <2>4. Joins(h, ss, m)
    BY <2>2, <2>3 DEF Joins
  <2> QED
    BY <2>4
<1> HIDE DEF I
<1>3. \A k \in 0 .. n : k \in I
  BY <1>1, <1>2, Upwards
<1> QED
  BY <1>3 DEF I

\* They do not depend on the lists that follow.
LEMMA JoinsAgree ==
    ASSUME NEW n \in Nat, NEW k \in Nat, n <= k, NEW s, NEW t, SameUpTo(s, t, n),
           NEW f, Joins(f, s, n), NEW h, Joins(h, t, k)
    PROVE  \A i \in 1 .. n : f[i] = h[i]
<1> DEFINE I == {0} \cup {i \in 1 .. n : f[i] = h[i]}
<1>1. 0 \in I
  OBVIOUS
<1>2. ASSUME NEW i \in 1 .. n, i - 1 \in I PROVE i \in I
  <2>1. i \in 1 .. k /\ (i # 1 => i - 1 \in 1 .. n)
    OBVIOUS
  <2>2. f[i] = IF i = 1 THEN s[1] ELSE f[i - 1] \o s[i]
    BY DEF Joins
  <2>3. h[i] = IF i = 1 THEN t[1] ELSE h[i - 1] \o t[i]
    BY <2>1 DEF Joins
  <2>4. i # 1 => f[i - 1] = h[i - 1]
    BY <1>2, <2>1
  <2>5. s[i] = t[i] /\ (i = 1 => s[1] = t[1])
    BY DEF SameUpTo
  <2> QED
    BY <2>2, <2>3, <2>4, <2>5
<1> HIDE DEF I
<1>3. \A i \in 0 .. n : i \in I
  BY <1>1, <1>2, Upwards
<1> QED
  BY <1>3 DEF I

\* FlattenSeq is the last of the joins.
LEMMA Flattened ==
    ASSUME NEW X, NEW ss \in Seq(Seq(X)), ss # <<>>
    PROVE  \E f : Joins(f, ss, Len(ss)) /\ FlattenSeq(ss) = f[Len(ss)]
<1>1. Len(ss) \in Nat /\ Len(ss) # 0 /\ \A i \in 1 .. Len(ss) : ss[i] \in Seq(X)
  OBVIOUS
<1> DEFINE Is(f) == f = [i \in 1 .. Len(ss) |-> IF i = 1 THEN ss[i] ELSE f[i - 1] \o ss[i]]
<1>2. FlattenSeq(ss) = (CHOOSE f : Is(f))[Len(ss)]
  BY <1>1 DEF FlattenSeq
<1>3. ASSUME NEW f PROVE Is(f) <=> Joins(f, ss, Len(ss))
  <2>1. \A g, i : (IF i = 1 THEN ss[i] ELSE g[i - 1] \o ss[i])
                  = (IF i = 1 THEN ss[1] ELSE g[i - 1] \o ss[i])
    OBVIOUS
  <2> QED
    BY <2>1 DEF Joins
<1>4. \E f : Is(f)
  BY <1>1, <1>3, JoinsExist
<1>5. PICK f : f = CHOOSE g : Is(g)
  OBVIOUS
<1>6. Is(f)
  BY <1>4, <1>5
<1>7. FlattenSeq(ss) = f[Len(ss)]
  BY <1>2, <1>5
<1> HIDE DEF Is
<1>8. Joins(f, ss, Len(ss))
  BY <1>3, <1>6
<1> QED
  BY <1>7, <1>8

\* A list more, joined to those before it.
LEMMA FlattenAppends ==
    ASSUME NEW X, NEW ss \in Seq(Seq(X)), NEW s \in Seq(X)
    PROVE  FlattenSeq(Append(ss, s)) = FlattenSeq(ss) \o s /\ FlattenSeq(ss) \in Seq(X)
<1>1. PICK n \in Nat : n = Len(ss)
  OBVIOUS
<1>2. PICK tt : tt = Append(ss, s)
  OBVIOUS
<1>3. /\ tt \in Seq(Seq(X)) /\ Len(tt) = n + 1 /\ tt # <<>> /\ tt[n + 1] = s
      /\ \A i \in 1 .. n : ss[i] = tt[i]
  BY <1>1, <1>2
<1>4. PICK h : Joins(h, tt, n + 1) /\ FlattenSeq(tt) = h[n + 1]
  BY <1>3, Flattened
<1>5. CASE n = 0
  <2>1. ss = <<>>
    <3>1. Len(ss) = 0
      BY <1>1, <1>5
    <3> QED
      BY <3>1, EmptySeq
  <2>4. FlattenSeq(ss) = <<>>
    BY <1>1, <1>5, <2>1 DEF FlattenSeq
  <2>2. h[1] = tt[1]
    BY <1>4, <1>5 DEF Joins
  <2>3. <<>> \o s = s /\ <<>> \in Seq(X)
    OBVIOUS
  <2>5. FlattenSeq(tt) = s
    BY <1>3, <1>4, <1>5, <2>2
  <2> QED
    BY <1>2, <2>3, <2>4, <2>5
<1>6. CASE n # 0
  <2>1. ss # <<>>
    BY <1>1, <1>6
  <2>2. PICK f : Joins(f, ss, n) /\ FlattenSeq(ss) = f[n]
    BY <1>1, <2>1, Flattened
  <2>3. \A i \in 1 .. n : f[i] = h[i]
    <3>1. n + 1 \in Nat /\ n <= n + 1
      OBVIOUS
    <3>2. SameUpTo(ss, tt, n)
      BY <1>3 DEF SameUpTo
    <3>3. Joins(f, ss, n) /\ Joins(h, tt, n + 1)
      BY <1>4, <2>2
    <3> QED
      BY <3>1, <3>2, <3>3, JoinsAgree
  <2>4. h[n + 1] = h[n] \o s
    <3>1. n + 1 \in 1 .. n + 1 /\ n + 1 # 1 /\ (n + 1) - 1 = n
      BY <1>6
    <3>2. h[n + 1] = h[(n + 1) - 1] \o tt[n + 1]
      BY <1>4, <3>1 DEF Joins
    <3> QED
      BY <1>3, <3>1, <3>2
  <2>5. f[n] \in Seq(X)
    <3> DEFINE I == {0} \cup {i \in 1 .. n : f[i] \in Seq(X)}
    <3>1. 0 \in I
      OBVIOUS
    <3>2. ASSUME NEW i \in 1 .. n, i - 1 \in I PROVE i \in I
      <4>1. f[i] = IF i = 1 THEN ss[1] ELSE f[i - 1] \o ss[i]
        BY <2>2 DEF Joins
      <4>2. ss[i] \in Seq(X) /\ ss[1] \in Seq(X)
        BY <1>1
      <4>3. i # 1 => f[i - 1] \in Seq(X)
        BY <3>2
      <4>4. \A u, v \in Seq(X) : u \o v \in Seq(X)
        OBVIOUS
      <4> QED
        BY <4>1, <4>2, <4>3, <4>4
    <3> HIDE DEF I
    <3>3. \A i \in 0 .. n : i \in I
      BY <3>1, <3>2, Upwards
    <3> QED
      BY <1>6, <3>3 DEF I
  <2>6. n \in 1 .. n
    BY <1>6
  <2> QED
    BY <1>2, <1>4, <2>2, <2>3, <2>4, <2>5, <2>6
<1> QED
  BY <1>5, <1>6

-----------------------------------------------------------------------------
(* The tables that are read and the pages they are packed into.            *)

Pages == [flags : Nat, rows : Seq(TableRows)]
RowsOf(ps) == [i \in DOMAIN ps |-> ps[i].rows]
Fits(rs) == Len(rs) > 1 => Size(rs) <= PageSize

\* The page p that fills has, with those before it, the rows g.
PageOK(p, g) ==
    /\ p \in [done : Seq(Pages), flags : {0, 1}, rows : Seq(TableRows), size : Nat]
    /\ FlattenSeq(RowsOf(p.done)) \o p.rows = g
    /\ p.flags = 0 <=> p.done = <<>>
    /\ \A i \in 1 .. Len(p.done) : /\ p.done[i].flags = IF i = 1 THEN 0 ELSE 1
                                   /\ Fits(p.done[i].rows)
    /\ p.size = Size(p.rows) /\ Fits(p.rows)
    /\ p.rows = <<>> => p.done = <<>>

\* The pages ps have the rows g and are marked.
ListOK(ps, g) ==
    /\ ps \in Seq(Pages) /\ FlattenSeq(RowsOf(ps)) = g
    /\ \A i \in 1 .. Len(ps) :
         /\ ps[i].flags = IF Len(ps) = 1 THEN 3 ELSE IF i = 1 THEN 0 ELSE IF i = Len(ps) THEN 2 ELSE 1
         /\ Fits(ps[i].rows)

\* The table t has the latest of the rows g, and no others.
LatestIn(g, r) == \A x \in ToSet(g) : x.type = r.type /\ x.level = r.level => x.n <= r.n
TableOK(t, g) ==
    /\ \A type \in DOMAIN t : /\ t[type] \in Seq(TableRows \cup {NoRow})
                              /\ \A r \in ToSet(t[type]) : r = NoRow \/ r \in ToSet(g)
    /\ \A r \in ToSet(g) : LatestIn(g, r) =>
         r.type \in DOMAIN t /\ r.level + 1 \in 1 .. Len(t[r.type]) /\ t[r.type][r.level + 1] = r

\* The functions that read the lists, and how far they are.
At == [arms |-> 2, build |-> 3, skill |-> 7]
Unread(l) == step < At[l] \/ (step = At[l] /\ query = "max")
Filling(l) == step = At[l] /\ query = "rows"

ConfigTypes ==
    /\ step \in 1 .. 8 /\ query \in {"max", "rows"} /\ top \in Nat /\ rows \in Nat
    /\ good = [l \in Paged |-> good[l]] /\ pages = [l \in Paged |-> pages[l]]
    /\ global = [l \in Paged |-> global[l]]

ListInv(l) ==
    /\ good[l] \in Seq(TableRows) /\ \A i \in 1 .. Len(good[l]) : good[l][i].n <= rows
    /\ TableOK(global[l], good[l])
    /\ Unread(l) => good[l] = <<>> /\ pages[l] = <<>> /\ global[l] = <<>>
    /\ Filling(l) => PageOK(page, good[l]) /\ DOMAIN global[l] = 0 .. top
    /\ step > At[l] => ListOK(pages[l], good[l])
ConfigInv == ConfigTypes /\ \A l \in Paged : ListInv(l)

\* Where the functions are called.
LEMMA Called ==
    ASSUME step \in 1 .. 8
    PROVE  \A l \in Paged : /\ At[l] \in 1 .. 7 /\ (In(l) <=> step = At[l])
                            /\ (Served(l) <=> step > At[l])
<1>1. /\ Len(Steps) = 7 /\ Steps[1] = "version" /\ Steps[2] = "arms" /\ Steps[3] = "build"
      /\ Steps[4] = "city" /\ Steps[5] = "combat" /\ Steps[6] = "hero" /\ Steps[7] = "skill"
  BY DEF Steps
<1>2. \A i \in 1 .. 7 : i = 1 \/ i = 2 \/ i = 3 \/ i = 4 \/ i = 5 \/ i = 6 \/ i = 7
  OBVIOUS
<1>3. At["arms"] = 2 /\ At["build"] = 3 /\ At["skill"] = 7
  BY DEF At
<1>4. \A l \in Paged : l = "arms" \/ l = "build" \/ l = "skill"
  BY DEF Paged
<1>5. \A l \in Paged : At[l] \in 1 .. 7 /\ \A i \in 1 .. 7 : Steps[i] = l <=> i = At[l]
  BY <1>1, <1>2, <1>3, <1>4
<1>6. ASSUME NEW l \in Paged PROVE In(l) <=> step = At[l]
  <2>1. step <= 7 <=> step \in 1 .. 7
    OBVIOUS
  <2> QED
    BY <1>1, <1>5, <2>1 DEF In
<1>7. ASSUME NEW l \in Paged PROVE Served(l) <=> step > At[l]
  BY <1>1, <1>5 DEF Served
<1> QED
  BY <1>5, <1>6, <1>7

\* The rows of a list of pages, and those of one more.
LEMMA RowsMore ==
    ASSUME NEW d \in Seq(Pages), NEW x \in Pages
    PROVE  /\ RowsOf(d) \in Seq(Seq(TableRows))
           /\ RowsOf(Append(d, x)) = Append(RowsOf(d), x.rows)
           /\ FlattenSeq(RowsOf(Append(d, x))) = FlattenSeq(RowsOf(d)) \o x.rows
           /\ FlattenSeq(RowsOf(d)) \in Seq(TableRows)
<1>1. PICK n \in Nat : n = Len(d)
  OBVIOUS
<1>2. \A i \in 1 .. n : d[i].rows \in Seq(TableRows)
  <2>1. \A i \in 1 .. n : d[i] \in Pages
    BY <1>1
  <2>2. \A y \in Pages : y.rows \in Seq(TableRows)
    BY DEF Pages
  <2> QED
    BY <2>1, <2>2
<1>3. x.rows \in Seq(TableRows)
  BY DEF Pages
<1>4. RowsOf(d) = [i \in 1 .. n |-> d[i].rows]
  BY <1>1 DEF RowsOf
<1>5. RowsOf(d) \in Seq(Seq(TableRows)) /\ Len(RowsOf(d)) = n
  <2>1. [i \in 1 .. n |-> d[i].rows] \in [1 .. n -> Seq(TableRows)]
    BY <1>2
  <2> QED
    BY <1>4, <2>1
<1>6. PICK e : e = Append(d, x)
  OBVIOUS
<1>7. /\ e \in Seq(Pages) /\ Len(e) = n + 1 /\ e[n + 1] = x
      /\ \A i \in 1 .. n : e[i] = d[i]
  BY <1>1, <1>6
<1>8. RowsOf(e) = [i \in 1 .. n + 1 |-> e[i].rows]
  BY <1>7 DEF RowsOf
<1>9. PICK s, t : s = RowsOf(d) /\ t = Append(s, x.rows)
  OBVIOUS
<1>10. /\ t \in Seq(Seq(TableRows)) /\ Len(t) = n + 1 /\ t[n + 1] = x.rows
       /\ \A i \in 1 .. n : t[i] = s[i]
  BY <1>3, <1>5, <1>9
<1>11. RowsOf(e) = t
  <2>1. t = [i \in 1 .. n + 1 |-> t[i]]
    BY <1>10
  <2>2. ASSUME NEW i \in 1 .. n + 1 PROVE t[i] = e[i].rows
    <3>1. CASE i = n + 1
      BY <1>7, <1>10, <3>1
    <3>2. CASE i # n + 1
      <4>1. i \in 1 .. n
        BY <3>2
      <4>2. s[i] = d[i].rows
        BY <1>4, <1>9, <4>1
      <4> QED
        BY <1>7, <1>10, <4>1, <4>2
    <3> QED
      BY <3>1, <3>2
  <2> QED
    BY <1>8, <2>1, <2>2
<1>12. FlattenSeq(t) = FlattenSeq(s) \o x.rows /\ FlattenSeq(s) \in Seq(TableRows)
  BY <1>3, <1>5, <1>9, FlattenAppends
<1> QED
  BY <1>5, <1>6, <1>9, <1>11, <1>12

\* A row is put into its page.
LEMMA RowPaged ==
    ASSUME NEW p, NEW g \in Seq(TableRows), PageOK(p, g), NEW r \in TableRows
    PROVE  PageOK(WithRow(p, r), Append(g, r))
<1>1. /\ p.done \in Seq(Pages) /\ p.flags \in {0, 1} /\ p.rows \in Seq(TableRows) /\ p.size \in Nat
      /\ r.width \in Nat /\ PageSize \in Nat
      /\ p = [done |-> p.done, flags |-> p.flags, rows |-> p.rows, size |-> p.size]
  BY ConfigAssumption DEF PageOK, TableRows
<1>2. CASE ~(p.size + r.width > PageSize)
  <2>1. WithRow(p, r) = [done |-> p.done, flags |-> p.flags, rows |-> Append(p.rows, r),
                         size |-> p.size + r.width]
    BY <1>2 DEF WithRow
  <2>2. PICK q : q = WithRow(p, r)
    OBVIOUS
  <2>3. q.done = p.done /\ q.flags = p.flags /\ q.rows = Append(p.rows, r) /\ q.size = p.size + r.width
    BY <2>1, <2>2
  <2>4. q \in [done : Seq(Pages), flags : {0, 1}, rows : Seq(TableRows), size : Nat]
    BY <1>1, <2>1, <2>2
  <2>5. FlattenSeq(RowsOf(q.done)) \o q.rows = Append(g, r)
    <3>1. PICK f : f = FlattenSeq(RowsOf(p.done))
      OBVIOUS
    <3>2. f \in Seq(TableRows)
      <4>1. PICK x \in Pages : TRUE
        <5>1. [flags |-> 0, rows |-> <<>>] \in Pages
          BY DEF Pages
        <5> QED
          BY <5>1
      <4> QED
        BY <1>1, <3>1, <4>1, RowsMore
    <3>3. f \o p.rows = g
      BY <3>1 DEF PageOK
    <3>4. f \o Append(p.rows, r) = Append(f \o p.rows, r)
      BY <1>1, <3>2
    <3> QED
      BY <2>3, <3>1, <3>3, <3>4
  <2>6. q.size = Size(q.rows)
    <3>1. Size(Append(p.rows, r)) = Size(p.rows) + r.width
      BY <1>1, SizeAdds
    <3> QED
      BY <2>3, <3>1 DEF PageOK
  <2>7. Fits(q.rows)
    BY <1>1, <1>2, <2>3, <2>6 DEF Fits
  <2>8. q.rows # <<>>
    <3>1. Len(q.rows) = Len(p.rows) + 1 /\ Len(p.rows) \in Nat
      BY <1>1, <2>3
    <3> QED
      BY <3>1
  <2>9. /\ q.flags = 0 <=> q.done = <<>>
        /\ \A i \in 1 .. Len(q.done) : /\ q.done[i].flags = IF i = 1 THEN 0 ELSE 1
                                       /\ Fits(q.done[i].rows)
    BY <2>3 DEF PageOK
  <2> QED
    BY <2>2, <2>4, <2>5, <2>6, <2>7, <2>8, <2>9 DEF PageOK
<1>3. CASE p.size + r.width > PageSize
  <2>1. PICK x : x = [flags |-> p.flags, rows |-> p.rows]
    OBVIOUS
  <2>2. x \in Pages /\ x.flags = p.flags /\ x.rows = p.rows
    BY <1>1, <2>1 DEF Pages
  <2>3. WithRow(p, r) = [done |-> Append(p.done, x), flags |-> 1, rows |-> Append(<<>>, r),
                         size |-> 0 + r.width]
    <3>1. PICK y : y = Flush(p)
      OBVIOUS
    <3>2. y.done = Append(p.done, x) /\ y.flags = 1 /\ y.rows = <<>> /\ y.size = 0
      BY <2>1, <3>1 DEF Flush
    <3>3. WithRow(p, r) = [done |-> y.done, flags |-> y.flags, rows |-> Append(y.rows, r),
                           size |-> y.size + r.width]
      BY <1>3, <3>1 DEF WithRow
    <3> QED
      BY <3>2, <3>3
  <2>4. PICK q : q = WithRow(p, r)
    OBVIOUS
  <2>5. /\ q.done = Append(p.done, x) /\ q.flags = 1 /\ q.rows = Append(<<>>, r)
        /\ q.size = 0 + r.width
    BY <2>3, <2>4
  <2>6. <<>> \in Seq(TableRows) /\ Append(<<>>, r) \in Seq(TableRows) /\ Len(Append(<<>>, r)) = 1
    OBVIOUS
  <2>7. q \in [done : Seq(Pages), flags : {0, 1}, rows : Seq(TableRows), size : Nat]
    <3>1. Append(p.done, x) \in Seq(Pages)
      BY <1>1, <2>2
    <3> QED
      BY <1>1, <2>3, <2>4, <2>6, <3>1
  <2>8. FlattenSeq(RowsOf(q.done)) \o q.rows = Append(g, r)
    <3>1. FlattenSeq(RowsOf(q.done)) = FlattenSeq(RowsOf(p.done)) \o p.rows
      BY <1>1, <2>2, <2>5, RowsMore
    <3>2. FlattenSeq(RowsOf(q.done)) = g
      BY <3>1 DEF PageOK
    <3>3. g \o Append(<<>>, r) = Append(g, r)
      OBVIOUS
    <3> QED
      BY <2>5, <3>2, <3>3
  <2>9. q.size = Size(q.rows)
    <3>1. Size(Append(<<>>, r)) = Size(<<>>) + r.width
      BY <2>6, SizeAdds
    <3> QED
      BY <2>5, <3>1, SizeEmpty
  <2>10. Fits(q.rows) /\ q.rows # <<>>
    BY <2>5, <2>6 DEF Fits
  <2>11. PICK n \in Nat : n = Len(p.done)
    BY <1>1
  <2>12. /\ Len(q.done) = n + 1 /\ q.done[n + 1] = x
         /\ \A i \in 1 .. n : q.done[i] = p.done[i]
    BY <1>1, <2>2, <2>5, <2>11
  <2>13. q.flags # 0 /\ q.done # <<>>
    BY <2>5, <2>12
  <2>14. ASSUME NEW i \in 1 .. n + 1
         PROVE  q.done[i].flags = (IF i = 1 THEN 0 ELSE 1) /\ Fits(q.done[i].rows)
    <3>1. CASE i = n + 1
      <4>1. p.flags = 0 <=> n = 0
        <5>1. p.done = <<>> <=> n = 0
          BY <1>1, <2>11, EmptySeq
        <5> QED
          BY <5>1 DEF PageOK
      <4>2. Fits(p.rows)
        BY DEF PageOK
      <4> QED
        BY <1>1, <2>2, <2>12, <3>1, <4>1, <4>2
    <3>2. CASE i # n + 1
      <4>1. i \in 1 .. n
        BY <3>2
      <4> QED
        BY <2>11, <2>12, <4>1 DEF PageOK
    <3> QED
      BY <3>1, <3>2
  <2> QED
    BY <2>4, <2>7, <2>8, <2>9, <2>10, <2>12, <2>13, <2>14 DEF PageOK
<1> QED
  BY <1>2, <1>3

\* The last page.
LEMMA LastPaged ==
    ASSUME NEW p, NEW g, PageOK(p, g)
    PROVE  ListOK(LastPage(p), g)
<1>1. /\ p.done \in Seq(Pages) /\ p.flags \in {0, 1} /\ p.rows \in Seq(TableRows)
      /\ Len(p.done) \in Nat
  BY DEF PageOK
<1>2. CASE p.rows = <<>>
  <2>1. p.done = <<>> /\ LastPage(p) = <<>> /\ FlattenSeq(RowsOf(<<>>)) \o <<>> = g
    BY <1>2 DEF PageOK, LastPage
  <2>2. RowsOf(<<>>) = <<>>
    BY DEF RowsOf
  <2>3. FlattenSeq(<<>>) = <<>>
    BY DEF FlattenSeq
  <2>4. <<>> \o <<>> = <<>>
    OBVIOUS
  <2>5. <<>> \in Seq(Pages) /\ FlattenSeq(RowsOf(<<>>)) = g /\ 1 .. Len(<<>>) = {}
    BY <2>1, <2>2, <2>3, <2>4
  <2> QED
    BY <2>1, <2>5 DEF ListOK
<1>3. CASE p.rows # <<>>
  <2>1. PICK x : x = [flags |-> IF p.flags = 0 THEN 3 ELSE 2, rows |-> p.rows]
    OBVIOUS
  <2>2. x \in Pages /\ x.flags = (IF p.flags = 0 THEN 3 ELSE 2) /\ x.rows = p.rows
    BY <1>1, <2>1 DEF Pages
  <2>3. PICK ps : ps = Append(p.done, x)
    OBVIOUS
  <2>4. LastPage(p) = ps
    BY <1>3, <2>1, <2>3 DEF LastPage
  <2>5. PICK n \in Nat : n = Len(p.done)
    BY <1>1
  <2>6. /\ ps \in Seq(Pages) /\ Len(ps) = n + 1 /\ ps[n + 1] = x
        /\ \A i \in 1 .. n : ps[i] = p.done[i]
    BY <1>1, <2>2, <2>3, <2>5
  <2>7. FlattenSeq(RowsOf(ps)) = g
    <3>1. FlattenSeq(RowsOf(ps)) = FlattenSeq(RowsOf(p.done)) \o p.rows
      BY <1>1, <2>2, <2>3, RowsMore
    <3> QED
      BY <3>1 DEF PageOK
  <2>8. p.flags = 0 <=> n = 0
    <3>1. p.done = <<>> <=> n = 0
      BY <1>1, <2>5, EmptySeq
    <3> QED
      BY <3>1 DEF PageOK
  <2>9. ASSUME NEW i \in 1 .. n + 1
        PROVE  /\ ps[i].flags = IF n + 1 = 1 THEN 3 ELSE IF i = 1 THEN 0
                                ELSE IF i = n + 1 THEN 2 ELSE 1
               /\ Fits(ps[i].rows)
    <3>1. CASE i = n + 1
      <4>1. Fits(p.rows)
        BY DEF PageOK
      <4> QED
        BY <2>2, <2>6, <2>8, <3>1, <4>1
    <3>2. CASE i # n + 1
      <4>1. i \in 1 .. n
        BY <3>2
      <4>2. p.done[i].flags = (IF i = 1 THEN 0 ELSE 1) /\ Fits(p.done[i].rows)
        BY <2>5, <4>1 DEF PageOK
      <4> QED
        BY <2>6, <3>2, <4>1, <4>2
    <3> QED
      BY <3>1, <3>2
  <2> QED
    BY <2>4, <2>6, <2>7, <2>9 DEF ListOK
<1> QED
  BY <1>2, <1>3

\* A row is put into the vector of its type.
LEMMA RowPut ==
    ASSUME NEW v \in Seq(TableRows \cup {NoRow}), NEW r \in TableRows
    PROVE  /\ PutAt(v, r) \in Seq(TableRows \cup {NoRow})
           /\ r.level + 1 \in 1 .. Len(PutAt(v, r)) /\ PutAt(v, r)[r.level + 1] = r
           /\ \A i \in 1 .. Len(v) : i # r.level + 1 =>
                i \in 1 .. Len(PutAt(v, r)) /\ PutAt(v, r)[i] = v[i]
           /\ \A i \in 1 .. Len(PutAt(v, r)) :
                PutAt(v, r)[i] = r \/ PutAt(v, r)[i] = NoRow \/ PutAt(v, r)[i] \in ToSet(v)
<1>1. PICK n \in Nat : n = Len(v)
  OBVIOUS
<1>2. PICK k \in Nat : k = r.level
  BY DEF TableRows
<1>3. PICK m \in Nat : m = IF k < n THEN n ELSE k + 1
  BY <1>1, <1>2
<1>4. PICK w : w = PutAt(v, r)
  OBVIOUS
<1>5. w = [i \in 1 .. m |-> IF i = k + 1 THEN r ELSE IF i <= n THEN v[i] ELSE NoRow]
  BY <1>1, <1>2, <1>3, <1>4 DEF PutAt
<1>6. \A i \in 1 .. n : v[i] \in TableRows \cup {NoRow} /\ v[i] \in ToSet(v)
  BY <1>1 DEF ToSet
<1>7. w \in [1 .. m -> TableRows \cup {NoRow}]
  <2>1. \A i \in 1 .. m : w[i] \in TableRows \cup {NoRow}
    <3> TAKE i \in 1 .. m
    <3>1. i <= n => i \in 1 .. n
      OBVIOUS
    <3>2. w[i] = IF i = k + 1 THEN r ELSE IF i <= n THEN v[i] ELSE NoRow
      BY <1>5
    <3> QED
      BY <1>6, <3>1, <3>2
  <2>2. w = [i \in 1 .. m |-> w[i]]
    BY <1>5
  <2> QED
    BY <2>1, <2>2
<1>8. w \in Seq(TableRows \cup {NoRow}) /\ Len(w) = m
  BY <1>7
<1>9. k + 1 \in 1 .. m /\ \A i \in 1 .. n : i \in 1 .. m
  BY <1>3
<1>10. w[k + 1] = r
  BY <1>5, <1>9
<1>11. ASSUME NEW i \in 1 .. m
       PROVE  /\ i \in 1 .. n /\ i # k + 1 => w[i] = v[i]
              /\ w[i] = r \/ w[i] = NoRow \/ w[i] \in ToSet(v)
  <2>1. w[i] = IF i = k + 1 THEN r ELSE IF i <= n THEN v[i] ELSE NoRow
    BY <1>5
  <2>2. i <= n <=> i \in 1 .. n
    OBVIOUS
  <2> QED
    BY <1>6, <2>1, <2>2
<1> QED
  BY <1>1, <1>2, <1>4, <1>8, <1>9, <1>10, <1>11

\* The elements of a list that gets one more.
LEMMA OneMore ==
    ASSUME NEW X, NEW g \in Seq(X), NEW r \in X
    PROVE  ToSet(Append(g, r)) = ToSet(g) \cup {r}
<1>1. PICK n \in Nat : n = Len(g)
  OBVIOUS
<1>2. PICK h : h = Append(g, r)
  OBVIOUS
<1>3. DOMAIN g = 1 .. n /\ DOMAIN h = 1 .. n + 1 /\ h[n + 1] = r /\ \A i \in 1 .. n : h[i] = g[i]
  BY <1>1, <1>2
<1>4. \A i \in 1 .. n + 1 : i \in 1 .. n \/ i = n + 1
  OBVIOUS
<1>5. n + 1 \in 1 .. n + 1 /\ \A i \in 1 .. n : i \in 1 .. n + 1
  OBVIOUS
<1> QED
  BY <1>2, <1>3, <1>4, <1>5 DEF ToSet

\* A later row of a type in range, put into the table.
LEMMA TableAdded ==
    ASSUME NEW t, NEW g \in Seq(TableRows), TableOK(t, g), NEW r \in TableRows, r.type \in DOMAIN t,
           \A i \in 1 .. Len(g) : g[i].n < r.n
    PROVE  TableOK([t EXCEPT ![r.type] = PutAt(@, r)], Append(g, r))
<1>1. PICK v, w : v = t[r.type] /\ w = PutAt(v, r)
  OBVIOUS
<1>2. PICK u : u = [t EXCEPT ![r.type] = PutAt(@, r)]
  OBVIOUS
<1>3. DOMAIN u = DOMAIN t /\ u[r.type] = w /\ \A y \in DOMAIN t : y # r.type => u[y] = t[y]
  BY <1>1, <1>2
<1>4. PICK h : h = Append(g, r)
  OBVIOUS
<1>5. ToSet(h) = ToSet(g) \cup {r}
  BY <1>4, OneMore
<1>6. v \in Seq(TableRows \cup {NoRow}) /\ \A x \in ToSet(v) : x = NoRow \/ x \in ToSet(g)
  BY <1>1 DEF TableOK
<1>7. /\ w \in Seq(TableRows \cup {NoRow})
      /\ r.level + 1 \in 1 .. Len(w) /\ w[r.level + 1] = r
      /\ \A i \in 1 .. Len(v) : i # r.level + 1 => i \in 1 .. Len(w) /\ w[i] = v[i]
      /\ \A i \in 1 .. Len(w) : w[i] = r \/ w[i] = NoRow \/ w[i] \in ToSet(v)
  BY <1>1, <1>6, RowPut
<1>8. ASSUME NEW type \in DOMAIN u
      PROVE  /\ u[type] \in Seq(TableRows \cup {NoRow})
             /\ \A x \in ToSet(u[type]) : x = NoRow \/ x \in ToSet(h)
  <2>1. CASE type = r.type
    <3>1. \A x \in ToSet(w) : \E i \in 1 .. Len(w) : w[i] = x
      BY <1>7 DEF ToSet
    <3> QED
      BY <1>3, <1>5, <1>6, <1>7, <2>1, <3>1
  <2>2. CASE type # r.type
    <3>1. u[type] = t[type] /\ type \in DOMAIN t
      BY <1>3, <2>2
    <3> QED
      BY <1>5, <3>1 DEF TableOK
  <2> QED
    BY <2>1, <2>2
<1>9. ASSUME NEW x \in ToSet(h), LatestIn(h, x)
      PROVE  x.type \in DOMAIN u /\ x.level + 1 \in 1 .. Len(u[x.type]) /\ u[x.type][x.level + 1] = x
  <2>1. CASE x = r
    BY <1>3, <1>7, <2>1
  <2>2. CASE x # r
    <3>1. x \in ToSet(g)
      BY <1>5, <2>2
    <3>2. x \in TableRows /\ x.n < r.n
      BY <3>1 DEF ToSet
    <3>3. ~(r.type = x.type /\ r.level = x.level)
      <4>1. r.type = x.type /\ r.level = x.level => r.n <= x.n
        BY <1>5, <1>9 DEF LatestIn
      <4>2. r.n \in Nat /\ x.n \in Nat
        BY <3>2 DEF TableRows
      <4> QED
        BY <3>2, <4>1, <4>2
    <3>4. LatestIn(g, x)
      BY <1>5, <1>9 DEF LatestIn
    <3>5. x.type \in DOMAIN t /\ x.level + 1 \in 1 .. Len(t[x.type]) /\ t[x.type][x.level + 1] = x
      BY <3>1, <3>4 DEF TableOK
    <3>6. CASE x.type # r.type
      BY <1>3, <3>5, <3>6
    <3>7. CASE x.type = r.type
      <4>1. r.level \in Nat /\ x.level \in Nat
        BY <3>2 DEF TableRows
      <4>2. x.level + 1 # r.level + 1
        BY <3>3, <3>7, <4>1
      <4>3. x.level + 1 \in 1 .. Len(v) /\ v[x.level + 1] = x
        BY <1>1, <3>5, <3>7
      <4> QED
        BY <1>3, <1>7, <3>5, <3>7, <4>2, <4>3
    <3> QED
      BY <3>6, <3>7
  <2> QED
    BY <2>1, <2>2
<1> QED
  BY <1>2, <1>4, <1>8, <1>9 DEF TableOK

\* Before any row, and with an empty vector for each type.
LEMMA NoRows ==
    /\ PageOK(Empty, <<>>) /\ ListOK(<<>>, <<>>) /\ TableOK(<<>>, <<>>)
    /\ \A t \in Nat : TableOK([i \in 0 .. t |-> <<>>], <<>>)
<1>1. RowsOf(<<>>) = <<>>
  BY DEF RowsOf
<1>2. FlattenSeq(<<>>) = <<>>
  BY DEF FlattenSeq
<1>3. <<>> \o <<>> = <<>> /\ Len(<<>>) = 0 /\ 1 .. 0 = {} /\ DOMAIN <<>> = {}
  OBVIOUS
<1>4. ToSet(<<>>) = {}
  BY <1>3 DEF ToSet
<1>5. Fits(<<>>)
  BY <1>3 DEF Fits
<1>6. PICK p : p = Empty
  OBVIOUS
<1>7. p = [done |-> <<>>, flags |-> 0, rows |-> <<>>, size |-> 0]
  BY <1>6 DEF Empty
<1>8. p.done = <<>> /\ p.flags = 0 /\ p.rows = <<>> /\ p.size = 0
  BY <1>7
<1>9. p \in [done : Seq(Pages), flags : {0, 1}, rows : Seq(TableRows), size : Nat]
  BY <1>7
<1>10. PageOK(p, <<>>)
  BY <1>1, <1>2, <1>3, <1>5, <1>8, <1>9, SizeEmpty DEF PageOK
<1>11. ListOK(<<>>, <<>>)
  <2>1. <<>> \in Seq(Pages)
    OBVIOUS
  <2> QED
    BY <1>1, <1>2, <1>3, <2>1 DEF ListOK
<1>12. TableOK(<<>>, <<>>)
  BY <1>3, <1>4 DEF TableOK
<1>13. ASSUME NEW t \in Nat PROVE TableOK([i \in 0 .. t |-> <<>>], <<>>)
  <2>1. <<>> \in Seq(TableRows \cup {NoRow})
    OBVIOUS
  <2>2. PICK f : f = [i \in 0 .. t |-> <<>>]
    OBVIOUS
  <2>3. DOMAIN f = 0 .. t /\ \A i \in 0 .. t : f[i] = <<>>
    BY <2>2
  <2>4. TableOK(f, <<>>)
    BY <1>4, <2>1, <2>3 DEF TableOK
  <2> QED
    BY <2>2, <2>4
<1> QED
  BY <1>6, <1>10, <1>11, <1>12, <1>13

\* Nothing is read when the gateway starts.
LEMMA ConfigInitially == ConfigInit => ConfigInv
<1> SUFFICES ASSUME ConfigInit PROVE ConfigInv
  OBVIOUS
<1>1. /\ step = 1 /\ query = "max" /\ top = 0 /\ rows = 0
      /\ good = [l \in Paged |-> <<>>] /\ global = [l \in Paged |-> <<>>]
      /\ pages = [l \in Paged |-> <<>>]
  BY DEF ConfigInit
<1>2. ConfigTypes
  BY <1>1 DEF ConfigTypes
<1>3. ASSUME NEW l \in Paged PROVE ListInv(l)
  <2>1. good[l] = <<>> /\ global[l] = <<>> /\ pages[l] = <<>>
    BY <1>1
  <2>2. At[l] \in {2, 3, 7}
    BY DEF At, Paged
  <2>3. ~(step > At[l]) /\ ~Filling(l)
    BY <1>1, <2>2 DEF Filling
  <2>4. <<>> \in Seq(TableRows) /\ Len(<<>>) = 0 /\ 1 .. 0 = {}
    OBVIOUS
  <2> QED
    BY <2>1, <2>3, <2>4, NoRows DEF ListInv
<1> QED
  BY <1>2, <1>3 DEF ConfigInv

\* What a list needs when its rows and its table are as before.
LEMMA ListKept ==
    ASSUME NEW l \in Paged, ListInv(l), rows \in Nat, rows' \in Nat, rows <= rows',
           good'[l] = good[l], global'[l] = global[l], pages'[l] = pages[l],
           Unread(l)' => Unread(l),
           Filling(l)' => Filling(l) /\ page' = page /\ top' = top,
           step' > At[l] => step > At[l] \/ Unread(l)
    PROVE  ListInv(l)'
<1>1. good'[l] \in Seq(TableRows) /\ \A i \in 1 .. Len(good'[l]) : good'[l][i].n <= rows'
  <2>1. ASSUME NEW i \in 1 .. Len(good[l]) PROVE good[l][i].n <= rows'
    <3>1. good[l][i] \in TableRows /\ good[l][i].n <= rows
      BY DEF ListInv
    <3>2. good[l][i].n \in Nat
      BY <3>1 DEF TableRows
    <3> QED
      BY <3>1, <3>2
  <2> QED
    BY <2>1 DEF ListInv
<1>2. TableOK(global'[l], good'[l])
  BY DEF ListInv
<1>3. Unread(l)' => good'[l] = <<>> /\ pages'[l] = <<>> /\ global'[l] = <<>>
  BY DEF ListInv
<1>4. Filling(l)' => PageOK(page', good'[l]) /\ DOMAIN global'[l] = 0 .. top'
  BY DEF ListInv
<1>5. step' > At[l] => ListOK(pages'[l], good'[l])
  BY NoRows DEF ListInv
<1> QED
  BY <1>1, <1>2, <1>3, <1>4, <1>5 DEF ListInv

\* A function ends, or another one than the list's runs: nothing changes for the list.
LEMMA ListsEnd ==
    ASSUME ConfigInv, Finished, rows' \in Nat, rows <= rows', UNCHANGED <<global, pages, good>>,
           step \in 1 .. 7, \A l \in Paged : In(l) => query = "max"
    PROVE  \A l \in Paged : ListInv(l)'
<1> TAKE l \in Paged
<1>1. ListInv(l) /\ rows \in Nat
  BY DEF ConfigInv, ConfigTypes
<1>2. At[l] \in 1 .. 7 /\ (In(l) <=> step = At[l])
  <2>1. step \in 1 .. 8
    BY DEF ConfigInv, ConfigTypes
  <2> QED
    BY <2>1, Called
<1>3. step' = step + 1 /\ query' = "max" /\ query' # "rows"
  BY DEF Finished
<1>4. Unread(l)' => Unread(l)
  BY <1>2, <1>3 DEF Unread
<1>5. ~Filling(l)'
  BY <1>3 DEF Filling
<1>6. step' > At[l] => step > At[l] \/ Unread(l)
  BY <1>2, <1>3 DEF Unread
<1> QED
  BY <1>1, <1>4, <1>5, <1>6, ListKept

\* A function that reads something else than a list that is packed.
LEMMA OtherReads ==
    ASSUME ConfigInv, rows' \in Nat, rows <= rows', UNCHANGED <<step, global, pages, good>>,
           step \in 1 .. 7, \A l \in Paged : ~In(l)
    PROVE  \A l \in Paged : ListInv(l)'
<1> TAKE l \in Paged
<1>1. ListInv(l) /\ rows \in Nat
  BY DEF ConfigInv, ConfigTypes
<1>2. At[l] \in 1 .. 7 /\ step # At[l]
  <2>1. step \in 1 .. 8
    BY DEF ConfigInv, ConfigTypes
  <2> QED
    BY <2>1, Called
<1>3. (Unread(l)' => Unread(l)) /\ ~Filling(l)' /\ (step' > At[l] => step > At[l] \/ Unread(l))
  BY <1>2 DEF Unread, Filling
<1> QED
  BY <1>1, <1>3, ListKept

\* Only one function runs.
LEMMA OneRuns ==
    /\ \A x, y : In(x) /\ In(y) => x = y
    /\ \A x : In(x) /\ step \in 1 .. 8 => step \in 1 .. 7
    /\ "version" \notin Paged /\ "hero" \notin Paged /\ \A l \in Limits : l \notin Paged
<1>1. Len(Steps) = 7
  BY DEF Steps
<1> QED
  BY <1>1 DEF In, Paged, Limits

\* The types stay.
LEMMA ConfigTyped ==
    ASSUME ConfigInv, ConfigNext
    PROVE  /\ step' \in 1 .. 8 /\ query' \in {"max", "rows"} /\ top' \in Nat
           /\ rows' \in Nat /\ rows <= rows'
           /\ good' = [l \in Paged |-> good'[l]] /\ pages' = [l \in Paged |-> pages'[l]]
           /\ global' = [l \in Paged |-> global'[l]]
<1>1. ConfigTypes
  BY DEF ConfigInv
<1>2. rows + 1 \in Nat /\ rows <= rows + 1 /\ rows <= rows
  BY <1>1 DEF ConfigTypes
<1>3. ASSUME NEW x, In(x), Finished PROVE step' \in 1 .. 8 /\ query' \in {"max", "rows"}
  <2>1. step \in 1 .. 7
    BY <1>1, <1>3, OneRuns DEF ConfigTypes
  <2> QED
    BY <1>3, <2>1 DEF Finished
<1>4. CASE \E f \in Fields : ReadGameVersion(f)
  BY <1>1, <1>2, <1>4 DEF ReadGameVersion, Fetch, ConfigTypes, paging
<1>5. CASE ReadHeroConfig
  BY <1>1, <1>2, <1>5 DEF ReadHeroConfig, Fetch, ConfigTypes, paging
<1>6. CASE EndSingle
  BY <1>1, <1>2, <1>3, <1>6 DEF EndSingle, ConfigTypes, paging
<1>7. ASSUME NEW list \in Paged \cup Limits, MaxType(list) \/ NoMaxType(list)
      PROVE  /\ step' \in 1 .. 8 /\ query' \in {"max", "rows"} /\ top' \in Nat
             /\ rows' = rows /\ good' = good /\ pages' = pages
             /\ global' = [l \in Paged |-> global'[l]]
  <2>1. CASE NoMaxType(list)
    BY <1>1, <1>3, <2>1 DEF NoMaxType, ConfigTypes, paging
  <2>2. CASE MaxType(list)
    <3>1. top' \in Nat
      BY <2>2, ConfigAssumption DEF MaxType
    <3>2. query' = "rows" /\ UNCHANGED <<step, rows, good, pages>>
      BY <2>2 DEF MaxType
    <3>3. global' = [l \in Paged |-> global'[l]]
      <4>1. PICK t : global' = (IF list \in Paged THEN [global EXCEPT ![list] = [i \in 0 .. t |-> <<>>]]
                                ELSE global)
        BY <2>2 DEF MaxType
      <4> QED
        BY <1>1, <4>1 DEF ConfigTypes
    <3> QED
      BY <1>1, <3>1, <3>2, <3>3 DEF ConfigTypes
  <2> QED
    BY <1>7, <2>1, <2>2
<1>8. ASSUME NEW r, NEW list, PagedRow(list, r)
      PROVE  /\ step' = step /\ query' = query /\ top' = top
             /\ rows' = rows + 1 /\ pages' = pages
             /\ good' = [l \in Paged |-> good'[l]] /\ global' = [l \in Paged |-> global'[l]]
  <2>1. UNCHANGED <<step, query, top, pages>> /\ rows' = rows + 1
    BY <1>8 DEF PagedRow, Fetch
  <2>2. \/ UNCHANGED <<global, good>>
        \/ /\ global' = [global EXCEPT ![list] = global'[list]]
           /\ good' = [good EXCEPT ![list] = good'[list]]
    <3>1. CASE r.type \in 1 .. top
      <4>1. PICK v, w : global' = [global EXCEPT ![list] = v] /\ good' = [good EXCEPT ![list] = w]
        BY <1>8, <3>1 DEF PagedRow
      <4>2. CASE list \in Paged
        <5>1. v = global'[list] /\ w = good'[list]
          BY <1>1, <4>1, <4>2 DEF ConfigTypes
        <5> QED
          BY <4>1, <5>1
      <4>3. CASE list \notin Paged
        <5>1. DOMAIN global = Paged /\ DOMAIN good = Paged
          BY <1>1 DEF ConfigTypes
        <5>2. global' = global /\ good' = good
          BY <1>1, <4>1, <4>3, <5>1 DEF ConfigTypes
        <5> QED
          BY <5>2
      <4> QED
        BY <4>2, <4>3
    <3>2. CASE r.type \notin 1 .. top
      BY <1>8, <3>2 DEF PagedRow
    <3> QED
      BY <3>1, <3>2
  <2> QED
    BY <1>1, <2>1, <2>2 DEF ConfigTypes
<1>9. ASSUME NEW r, NEW list, LimitRow(list, r)
      PROVE  /\ step' \in 1 .. 8 /\ query' \in {"max", "rows"} /\ top' = top
             /\ rows' = rows + 1 /\ pages' = pages /\ good' = good /\ global' = global
  BY <1>1, <1>3, <1>9 DEF LimitRow, Fetch, paging, ConfigTypes
<1>10. CASE \E r \in Rows : \/ ReadArmsData(r) \/ ReadBuildData(r) \/ ReadSkillConfig(r)
                            \/ ReadCityLimit(r) \/ ReadCombatLimit(r)
  BY <1>1, <1>2, <1>8, <1>9, <1>10
     DEF ReadArmsData, ReadBuildData, ReadSkillConfig, ReadCityLimit, ReadCombatLimit, ConfigTypes
<1>11. ASSUME NEW list \in Paged, EndPaged(list)
       PROVE  /\ step' \in 1 .. 8 /\ query' \in {"max", "rows"}
              /\ pages' = [l \in Paged |-> pages'[l]] /\ UNCHANGED <<top, rows, good, global>>
  BY <1>1, <1>3, <1>11 DEF EndPaged, ConfigTypes
<1>12. ASSUME NEW list \in Limits, EndLimit(list)
       PROVE  /\ step' \in 1 .. 8 /\ query' \in {"max", "rows"}
              /\ UNCHANGED <<top, rows, good, global, pages>>
  BY <1>3, <1>12 DEF EndLimit, paging
<1>13. CASE \E list \in Paged \cup Limits : MaxType(list) \/ NoMaxType(list)
  BY <1>1, <1>2, <1>7, <1>13 DEF ConfigTypes
<1>14. CASE (\E list \in Paged : EndPaged(list)) \/ (\E list \in Limits : EndLimit(list))
  BY <1>1, <1>2, <1>11, <1>12, <1>14 DEF ConfigTypes
<1> QED
  BY <1>4, <1>5, <1>6, <1>10, <1>13, <1>14 DEF ConfigNext

\* The first query of a list makes its table and its first page.
LEMMA TypesCounted ==
    ASSUME ConfigInv, NEW list \in Paged \cup Limits, MaxType(list)
    PROVE  \A l \in Paged : ListInv(l)'
<1>1. ConfigTypes /\ In(list) /\ query = "max" /\ step \in 1 .. 7
  BY OneRuns DEF ConfigInv, ConfigTypes, MaxType
<1>2. PICK t \in Nat :
        /\ query' = "rows" /\ top' = t /\ page' = Empty /\ UNCHANGED <<step, rows, pages, good>>
        /\ global' = IF list \in Paged THEN [global EXCEPT ![list] = [i \in 0 .. t |-> <<>>]]
                     ELSE global
  <2>1. PICK t \in Tops :
          /\ query' = "rows" /\ top' = t
          /\ IF list \in Paged
             THEN global' = [global EXCEPT ![list] = [i \in 0 .. t |-> <<>>]] /\ UNCHANGED limit
             ELSE limit' = [limit EXCEPT ![list] = [i \in 0 .. t |-> NoRow]] /\ UNCHANGED global
    BY DEF MaxType
  <2>2. page' = Empty /\ UNCHANGED <<step, rows, pages, good>>
    BY DEF MaxType
  <2>3. t \in Nat
    BY ConfigAssumption
  <2> QED
    BY <2>1, <2>2, <2>3
<1>3. CASE list \notin Paged
  <2>1. \A l \in Paged : ~In(l)
    BY <1>1, <1>3, OneRuns
  <2>2. rows' \in Nat /\ rows <= rows'
    BY <1>1, <1>2 DEF ConfigTypes
  <2> QED
    BY <1>1, <1>2, <1>3, <2>1, <2>2, OtherReads
<1>4. CASE list \in Paged
  <2> TAKE l \in Paged
  <2>1. /\ At[l] \in 1 .. 7 /\ (In(l) <=> step = At[l])
        /\ At[list] = step
    BY <1>1, <1>4, Called DEF ConfigTypes
  <2>2. ListInv(l) /\ rows \in Nat
    BY <1>1 DEF ConfigInv, ConfigTypes
  <2>3. CASE l = list
    <3>1. Unread(l)
      BY <1>1, <2>1, <2>3 DEF Unread
    <3>2. good[l] = <<>> /\ good'[l] = <<>>
      BY <1>2, <2>2, <3>1 DEF ListInv
    <3>3. global'[l] = [i \in 0 .. t |-> <<>>]
      BY <1>1, <1>2, <1>4, <2>3 DEF ConfigTypes
    <3>4. TableOK(global'[l], good'[l])
      BY <3>2, <3>3, NoRows
    <3>5. PageOK(page', good'[l]) /\ DOMAIN global'[l] = 0 .. top'
      BY <1>2, <3>2, <3>3, NoRows
    <3>6. ~Unread(l)' /\ ~(step' > At[l])
      BY <1>2, <2>1, <2>3 DEF Unread
    <3>7. <<>> \in Seq(TableRows) /\ 1 .. Len(<<>>) = {}
      OBVIOUS
    <3> QED
      BY <3>2, <3>4, <3>5, <3>6, <3>7 DEF ListInv
  <2>4. CASE l # list
    <3>1. step # At[l]
      BY <1>1, <2>1, <2>4, OneRuns
    <3>2. global'[l] = global[l]
      BY <1>1, <1>2, <2>4 DEF ConfigTypes
    <3>3. (Unread(l)' => Unread(l)) /\ ~Filling(l)' /\ (step' > At[l] => step > At[l] \/ Unread(l))
      BY <1>2, <2>1, <3>1 DEF Unread, Filling
    <3>4. rows' \in Nat /\ rows <= rows'
      BY <1>2, <2>2
    <3> QED
      BY <1>2, <2>2, <3>2, <3>3, <3>4, ListKept
  <2> QED
    BY <2>3, <2>4
<1> QED
  BY <1>3, <1>4

\* A row of a list.
LEMMA RowRead ==
    ASSUME ConfigInv, NEW list \in Paged, NEW r \in Rows, PagedRow(list, r)
    PROVE  \A l \in Paged : ListInv(l)'
<1>1. /\ ConfigTypes /\ In(list) /\ query = "rows" /\ step \in 1 .. 7
      /\ rows' = rows + 1 /\ UNCHANGED <<step, query, top, pages>>
  BY OneRuns DEF ConfigInv, ConfigTypes, PagedRow, Fetch
<1>2. r \in TableRows /\ r.n = rows + 1
  BY <1>1, ConfigAssumption DEF Rows, TableRows, ConfigTypes
<1>3. rows \in Nat /\ rows' \in Nat /\ rows <= rows'
  BY <1>1 DEF ConfigTypes
<1> TAKE l \in Paged
<1>4. At[l] \in 1 .. 7 /\ (In(l) <=> step = At[l]) /\ ListInv(l) /\ At[list] = step
  BY <1>1, Called DEF ConfigInv, ConfigTypes
<1>5. CASE l = list /\ r.type \in 1 .. top
  <2>1. PICK g, t : g = good[l] /\ t = global[l]
    OBVIOUS
  <2>2. /\ good'[l] = Append(g, r) /\ page' = WithRow(page, r)
        /\ global'[l] = [t EXCEPT ![r.type] = PutAt(@, r)]
    <3>1. /\ good' = [good EXCEPT ![list] = Append(@, r)] /\ page' = WithRow(page, r)
          /\ global' = [global EXCEPT ![list][r.type] = PutAt(@, r)]
      BY <1>5 DEF PagedRow
    <3>2. DOMAIN good = Paged /\ DOMAIN global = Paged
      BY <1>1 DEF ConfigTypes
    <3>3. global' = [global EXCEPT ![list] = [global[list] EXCEPT ![r.type] = PutAt(@, r)]]
      BY <3>1
    <3> QED
      BY <1>5, <2>1, <3>1, <3>2, <3>3
  <2>3. Filling(l) /\ Filling(l)' /\ ~Unread(l)' /\ ~(step' > At[l])
    BY <1>1, <1>4, <1>5 DEF Filling, Unread
  <2>4. /\ g \in Seq(TableRows) /\ TableOK(t, g) /\ PageOK(page, g) /\ DOMAIN t = 0 .. top
        /\ \A i \in 1 .. Len(g) : g[i].n <= rows
    BY <1>4, <2>1, <2>3 DEF ListInv
  <2>5. PICK h, u : h = Append(g, r) /\ u = [t EXCEPT ![r.type] = PutAt(@, r)]
    OBVIOUS
  <2>6. PICK n \in Nat : n = Len(g)
    BY <2>4
  <2>7. \A i \in 1 .. n : g[i].n \in Nat /\ g[i].n <= rows
    <3>1. \A i \in 1 .. n : g[i] \in TableRows
      BY <2>4, <2>6
    <3> QED
      BY <2>4, <2>6, <3>1 DEF TableRows
  <2>8. h \in Seq(TableRows) /\ \A i \in 1 .. Len(h) : h[i].n <= rows'
    <3>1. Len(h) = n + 1 /\ h[n + 1] = r /\ \A i \in 1 .. n : h[i] = g[i]
      BY <1>2, <2>4, <2>5, <2>6
    <3>2. \A i \in 1 .. n + 1 : i \in 1 .. n \/ i = n + 1
      OBVIOUS
    <3> QED
      BY <1>1, <1>2, <1>3, <2>4, <2>5, <2>7, <3>1, <3>2
  <2>9. TableOK(u, h)
    <3>1. r.type \in DOMAIN t
      BY <1>1, <1>5, <2>4 DEF ConfigTypes
    <3>2. \A i \in 1 .. Len(g) : g[i].n < r.n
      BY <1>2, <1>3, <2>6, <2>7
    <3> QED
      BY <1>2, <2>4, <2>5, <3>1, <3>2, TableAdded
  <2>10. PageOK(WithRow(page, r), h)
    BY <1>2, <2>4, <2>5, RowPaged
  <2>11. DOMAIN u = 0 .. top
    BY <2>4, <2>5
  <2>12. good'[l] = h /\ global'[l] = u
    BY <2>2, <2>5
  <2> QED
    BY <1>1, <2>2, <2>3, <2>8, <2>9, <2>10, <2>11, <2>12 DEF ListInv
<1>6. CASE ~(l = list /\ r.type \in 1 .. top)
  <2>1. good'[l] = good[l] /\ global'[l] = global[l]
    <3>1. CASE r.type \in 1 .. top
      <4>1. /\ good' = [good EXCEPT ![list] = Append(@, r)]
            /\ global' = [global EXCEPT ![list][r.type] = PutAt(@, r)]
        BY <3>1 DEF PagedRow
      <4>2. DOMAIN good = Paged /\ DOMAIN global = Paged
        BY <1>1 DEF ConfigTypes
      <4> QED
        BY <1>6, <3>1, <4>1, <4>2
    <3>2. CASE r.type \notin 1 .. top
      BY <3>2 DEF PagedRow
    <3> QED
      BY <3>1, <3>2
  <2>2. Filling(l)' => page' = page /\ Filling(l)
    <3>1. ASSUME l # list PROVE ~Filling(l)'
      <4>1. step # At[l]
        BY <1>1, <1>4, <3>1, OneRuns
      <4> QED
        BY <1>1, <4>1 DEF Filling
    <3>2. ASSUME r.type \notin 1 .. top PROVE page' = page
      BY <3>2 DEF PagedRow
    <3> QED
      BY <1>1, <1>6, <3>1, <3>2 DEF Filling
  <2>3. (Unread(l)' => Unread(l)) /\ (step' > At[l] => step > At[l])
    BY <1>1 DEF Unread
  <2> QED
    BY <1>1, <1>3, <1>4, <2>1, <2>2, <2>3, ListKept
<1> QED
  BY <1>5, <1>6

\* The last row of a list has been read.
LEMMA ListPacked ==
    ASSUME ConfigInv, NEW list \in Paged, EndPaged(list)
    PROVE  \A l \in Paged : ListInv(l)'
<1>1. /\ ConfigTypes /\ In(list) /\ query = "rows" /\ step \in 1 .. 7
      /\ step' = step + 1 /\ query' = "max" /\ UNCHANGED <<top, global, page, good, rows>>
      /\ pages' = [pages EXCEPT ![list] = LastPage(page)]
  BY OneRuns DEF ConfigInv, ConfigTypes, EndPaged, Finished
<1> TAKE l \in Paged
<1>2. At[l] \in 1 .. 7 /\ (In(l) <=> step = At[l]) /\ ListInv(l) /\ At[list] = step
  BY <1>1, Called DEF ConfigInv, ConfigTypes
<1>3. CASE l = list
  <2>1. Filling(l) /\ ~Unread(l)' /\ ~Filling(l)'
    BY <1>1, <1>2, <1>3 DEF Filling, Unread
  <2>2. ListOK(LastPage(page), good[l])
    BY <1>2, <2>1, LastPaged DEF ListInv
  <2>3. pages'[l] = LastPage(page)
    BY <1>1, <1>3 DEF ConfigTypes
  <2> QED
    BY <1>1, <1>2, <2>1, <2>2, <2>3 DEF ListInv
<1>4. CASE l # list
  <2>1. step # At[l]
    BY <1>1, <1>2, <1>4, OneRuns
  <2>2. pages'[l] = pages[l]
    BY <1>1, <1>4 DEF ConfigTypes
  <2>3. query' # "rows" /\ ~Filling(l)'
    BY <1>1 DEF Filling
  <2>4. (Unread(l)' => Unread(l)) /\ (step' > At[l] => step > At[l] \/ Unread(l))
    BY <1>1, <1>2, <2>1 DEF Unread
  <2>5. rows \in Nat /\ rows' \in Nat /\ rows <= rows'
    BY <1>1 DEF ConfigTypes
  <2> QED
    BY <1>1, <1>2, <2>2, <2>3, <2>4, <2>5, ListKept
<1> QED
  BY <1>3, <1>4

\* Every step keeps the invariant of the configuration.
LEMMA ConfigStep == ConfigInv /\ [ConfigNext]_configVars => ConfigInv'
<1> SUFFICES ASSUME ConfigInv, [ConfigNext]_configVars PROVE ConfigInv'
  OBVIOUS
<1>1. CASE UNCHANGED configVars
  BY <1>1 DEF configVars, ConfigInv, ConfigTypes, ListInv, Unread, Filling
<1>2. CASE ConfigNext
  <2>1. /\ step' \in 1 .. 8 /\ query' \in {"max", "rows"} /\ top' \in Nat
        /\ rows' \in Nat /\ rows <= rows'
        /\ good' = [l \in Paged |-> good'[l]] /\ pages' = [l \in Paged |-> pages'[l]]
        /\ global' = [l \in Paged |-> global'[l]]
    BY <1>2, ConfigTyped
  <2>2. ConfigTypes'
    BY <2>1 DEF ConfigTypes
  <2>3. step \in 1 .. 8
    BY DEF ConfigInv, ConfigTypes
  <2>4. ASSUME NEW x, In(x) PROVE step \in 1 .. 7 /\ (x \notin Paged => \A l \in Paged : ~In(l))
    BY <2>3, <2>4, OneRuns
  <2>5. \A l \in Paged : ListInv(l)'
    <3>1. CASE (\E f \in Fields : ReadGameVersion(f)) \/ ReadHeroConfig
      <4>1. In("version") \/ In("hero")
        BY <3>1 DEF ReadGameVersion, ReadHeroConfig
      <4>2. UNCHANGED <<step, global, pages, good>>
        BY <3>1 DEF ReadGameVersion, ReadHeroConfig, paging
      <4>3. step \in 1 .. 7 /\ \A l \in Paged : ~In(l)
        BY <2>4, <4>1, OneRuns
      <4> QED
        BY <2>1, <4>2, <4>3, OtherReads
    <3>2. CASE EndSingle
      <4>1. In("version") \/ In("hero")
        BY <3>2 DEF EndSingle
      <4>2. Finished /\ UNCHANGED <<global, pages, good>>
        BY <3>2 DEF EndSingle, paging
      <4>3. step \in 1 .. 7 /\ \A l \in Paged : In(l) => query = "max"
        BY <2>4, <4>1, OneRuns
      <4> QED
        BY <2>1, <4>2, <4>3, ListsEnd
    <3>3. ASSUME NEW list \in Paged \cup Limits, MaxType(list) PROVE \A l \in Paged : ListInv(l)'
      BY <3>3, TypesCounted
    <3>4. ASSUME NEW list \in Paged \cup Limits, NoMaxType(list) PROVE \A l \in Paged : ListInv(l)'
      <4>1. In(list) /\ query = "max" /\ Finished /\ UNCHANGED <<global, pages, good>>
        BY <3>4 DEF NoMaxType, paging
      <4> QED
        BY <2>1, <2>4, <4>1, ListsEnd
    <3>5. ASSUME NEW r \in Rows, NEW list \in Paged, PagedRow(list, r)
           PROVE  \A l \in Paged : ListInv(l)'
      BY <3>5, RowRead
    <3>6. ASSUME NEW r \in Rows, NEW list \in Limits, LimitRow(list, r)
          PROVE \A l \in Paged : ListInv(l)'
      <4>1. In(list) /\ UNCHANGED <<global, pages, good>> /\ (Finished \/ UNCHANGED step)
        BY <3>6 DEF LimitRow, paging
      <4>2. step \in 1 .. 7 /\ \A l \in Paged : ~In(l)
        BY <2>4, <4>1, OneRuns
      <4> QED
        BY <2>1, <4>1, <4>2, ListsEnd, OtherReads
    <3>7. ASSUME NEW list \in Paged, EndPaged(list) PROVE \A l \in Paged : ListInv(l)'
      BY <3>7, ListPacked
    <3>8. ASSUME NEW list \in Limits, EndLimit(list) PROVE \A l \in Paged : ListInv(l)'
      <4>1. In(list) /\ Finished /\ UNCHANGED <<global, pages, good>>
        BY <3>8 DEF EndLimit, paging
      <4>2. step \in 1 .. 7 /\ \A l \in Paged : ~In(l)
        BY <2>4, <4>1, OneRuns
      <4> QED
        BY <2>1, <4>1, <4>2, ListsEnd
    <3>9. "arms" \in Paged /\ "build" \in Paged /\ "skill" \in Paged
          /\ "city" \in Limits /\ "combat" \in Limits
      BY DEF Paged, Limits
    <3>10. CASE \E r \in Rows : \/ ReadArmsData(r) \/ ReadBuildData(r) \/ ReadSkillConfig(r)
                                \/ ReadCityLimit(r) \/ ReadCombatLimit(r)
      BY <3>5, <3>6, <3>9, <3>10
         DEF ReadArmsData, ReadBuildData, ReadSkillConfig, ReadCityLimit, ReadCombatLimit
    <3> QED
      BY <1>2, <3>1, <3>2, <3>3, <3>4, <3>7, <3>8, <3>10 DEF ConfigNext
  <2> QED
    BY <2>2, <2>5 DEF ConfigInv
<1> QED
  BY <1>1, <1>2

\* What clients are sent is what the gateway plays by (PagesComplete), for every order of
\* types, levels and sizes of rows, however many there are and whatever a page holds.
THEOREM PagesAreComplete == ConfigSpec => []PagesComplete
<1>1. ConfigInv => PagesComplete
  <2> SUFFICES ASSUME ConfigInv, NEW list \in Paged, Served(list)
               PROVE  /\ FlattenSeq([i \in DOMAIN pages[list] |-> pages[list][i].rows]) = good[list]
                      /\ \A i \in DOMAIN pages[list] : pages[list][i].flags =
                           IF Len(pages[list]) = 1 THEN 3 ELSE IF i = 1 THEN 0
                           ELSE IF i = Len(pages[list]) THEN 2 ELSE 1
                      /\ \A i \in DOMAIN pages[list] : Len(pages[list][i].rows) > 1 =>
                           FoldLeft(LAMBDA sum, r : sum + r.width, 0, pages[list][i].rows) <= PageSize
                      /\ \A r \in ToSet(good[list]) : Latest(list, r) =>
                           global[list][r.type][r.level + 1] = r
                      /\ \A type \in DOMAIN global[list] : \A r \in ToSet(global[list][type]) :
                           r = NoRow \/ r \in ToSet(good[list])
    BY DEF PagesComplete
  <2>1. step > At[list] /\ ListInv(list)
    BY Called DEF ConfigInv, ConfigTypes
  <2>2. ListOK(pages[list], good[list]) /\ TableOK(global[list], good[list])
    BY <2>1 DEF ListInv
  <2>3. PICK ps, g, t : ps = pages[list] /\ g = good[list] /\ t = global[list]
    OBVIOUS
  <2>4. ListOK(ps, g) /\ TableOK(t, g) /\ DOMAIN ps = 1 .. Len(ps)
    BY <2>2, <2>3 DEF ListOK
  <2>5. FlattenSeq([i \in DOMAIN ps |-> ps[i].rows]) = g
    BY <2>4 DEF ListOK, RowsOf
  <2>6. \A i \in DOMAIN ps : ps[i].flags =
          IF Len(ps) = 1 THEN 3 ELSE IF i = 1 THEN 0 ELSE IF i = Len(ps) THEN 2 ELSE 1
    BY <2>4 DEF ListOK
  <2>7. \A i \in DOMAIN ps : Len(ps[i].rows) > 1 =>
          FoldLeft(LAMBDA sum, r : sum + r.width, 0, ps[i].rows) <= PageSize
    BY <2>4 DEF ListOK, Fits, Size
  <2>8. \A r \in ToSet(g) : Latest(list, r) => t[r.type][r.level + 1] = r
    BY <2>3, <2>4 DEF TableOK, LatestIn, Latest
  <2>9. \A type \in DOMAIN t : \A r \in ToSet(t[type]) : r = NoRow \/ r \in ToSet(g)
    BY <2>4 DEF TableOK
  <2> QED
    BY <2>3, <2>5, <2>6, <2>7, <2>8, <2>9
<1>2. ConfigInit => ConfigInv
  BY ConfigInitially
<1>3. ConfigInv /\ [ConfigNext]_configVars => ConfigInv'
  BY ConfigStep
<1> QED
  BY <1>1, <1>2, <1>3, PTL DEF ConfigSpec

-----------------------------------------------------------------------------
(* The tables of gateway and client undo each other.                       *)

Maps == [Bytes -> Bytes]
Undo(b, t) == \A v \in Bytes : t[b[v]] = v /\ b[t[v]] = v

\* Two values are exchanged.
LEMMA ExchangedIs ==
    ASSUME NEW f \in Maps, NEW i \in Bytes, NEW j \in Bytes
    PROVE  /\ Exchanged(f, i, j) \in Maps
           /\ Exchanged(f, i, j)[i] = f[j] /\ Exchanged(f, i, j)[j] = f[i]
           /\ \A x \in Bytes : x # i /\ x # j => Exchanged(f, i, j)[x] = f[x]
<1>1. PICK g : g = [f EXCEPT ![i] = f[j]]
  OBVIOUS
<1>2. Exchanged(f, i, j) = [g EXCEPT ![j] = f[i]]
  BY <1>1 DEF Exchanged
<1>3. g \in [Bytes -> Bytes] /\ g[i] = f[j] /\ \A x \in Bytes : x # i => g[x] = f[x]
  BY <1>1 DEF Maps
<1>4. f[i] \in Bytes
  BY DEF Maps
<1> QED
  BY <1>2, <1>3, <1>4 DEF Maps

\* Where a value is.
LEMMA IndexIs ==
    ASSUME NEW b \in Maps, NEW t \in Maps, Undo(b, t), NEW v \in Bytes
    PROVE  IndexOf(t, v) = b[v]
<1>1. PICK w \in Bytes : w = b[v]
  BY DEF Maps
<1>2. \A i \in Bytes : t[i] = v <=> i = w
  BY <1>1 DEF Undo
<1>3. PICK Z : Z = {i \in Bytes : t[i] = v} \cup {0}
  OBVIOUS
<1>4. Z = {w, 0}
  BY <1>2, <1>3
<1>5. w >= 0 /\ w >= w /\ w \in Z /\ w \in Nat
  BY <1>4 DEF Bytes
<1>6. PICK m : m = Max(Z)
  OBVIOUS
<1>7. m \in Z /\ \A x \in Z : m >= x
  BY <1>4, <1>5, <1>6 DEF Max
<1>8. m = w
  BY <1>4, <1>5, <1>7
<1> QED
  BY <1>1, <1>3, <1>6, <1>8 DEF IndexOf

\* One pair: exchanging two indices of a box is exchanging two values of its inverse.
LEMMA PairUndone ==
    ASSUME NEW b \in Maps, NEW t \in Maps, Undo(b, t), NEW i \in Bytes, NEW j \in Bytes
    PROVE  /\ Exchanged(b, i, j) \in Maps /\ SwitchSbox(t, i, j) \in Maps
           /\ Undo(Exchanged(b, i, j), SwitchSbox(t, i, j))
<1>1. PICK c : c = Exchanged(b, i, j)
  OBVIOUS
<1>2. c \in Maps /\ c[i] = b[j] /\ c[j] = b[i] /\ \A x \in Bytes : x # i /\ x # j => c[x] = b[x]
  <2>1. /\ Exchanged(b, i, j) \in Maps
        /\ Exchanged(b, i, j)[i] = b[j] /\ Exchanged(b, i, j)[j] = b[i]
        /\ \A x \in Bytes : x # i /\ x # j => Exchanged(b, i, j)[x] = b[x]
    BY ExchangedIs
  <2> QED
    BY <1>1, <2>1
<1>3. PICK u : u = SwitchSbox(t, i, j)
  OBVIOUS
<1>4. b[i] \in Bytes /\ b[j] \in Bytes /\ \A v \in Bytes : b[v] \in Bytes /\ t[v] \in Bytes
  BY DEF Maps
<1>5. \A v \in Bytes : t[b[v]] = v /\ b[t[v]] = v
  BY DEF Undo
<1>6. CASE i = j
  <2>1. u = t
    BY <1>3, <1>6 DEF SwitchSbox
  <2>2. \A v \in Bytes : c[v] = b[v]
    BY <1>2, <1>6
  <2>3. Undo(c, u)
    BY <1>4, <1>5, <2>1, <2>2 DEF Undo
  <2> QED
    BY <1>1, <1>2, <1>3, <2>1, <2>3
<1>7. CASE i # j
  <2>1. u = Exchanged(t, b[i], b[j])
    BY <1>3, <1>7, IndexIs DEF SwitchSbox
  <2>2. /\ u \in Maps /\ u[b[i]] = t[b[j]] /\ u[b[j]] = t[b[i]]
        /\ \A x \in Bytes : x # b[i] /\ x # b[j] => u[x] = t[x]
    <3>1. PICK y \in Bytes, z \in Bytes : y = b[i] /\ z = b[j]
      BY <1>4
    <3>2. /\ Exchanged(t, y, z) \in Maps
          /\ Exchanged(t, y, z)[y] = t[z] /\ Exchanged(t, y, z)[z] = t[y]
          /\ \A x \in Bytes : x # y /\ x # z => Exchanged(t, y, z)[x] = t[x]
      BY ExchangedIs
    <3> QED
      BY <2>1, <3>1, <3>2
  <2>3. u[b[i]] = j /\ u[b[j]] = i
    BY <1>5, <2>2
  <2>4. ASSUME NEW v \in Bytes PROVE u[c[v]] = v
    <3>1. CASE v = i \/ v = j
      BY <1>2, <2>3, <3>1
    <3>2. CASE v # i /\ v # j
      <4>1. c[v] = b[v] /\ b[v] # b[i] /\ b[v] # b[j]
        BY <1>2, <1>5, <3>2
      <4> QED
        BY <1>4, <1>5, <2>2, <4>1
    <3> QED
      BY <3>1, <3>2
  <2>5. ASSUME NEW v \in Bytes PROVE c[u[v]] = v
    <3>1. CASE v = b[i]
      BY <1>2, <2>3, <3>1
    <3>2. CASE v = b[j]
      BY <1>2, <2>3, <3>2
    <3>3. CASE v # b[i] /\ v # b[j]
      <4>1. u[v] = t[v] /\ t[v] # i /\ t[v] # j /\ t[v] \in Bytes
        BY <1>4, <1>5, <2>2, <3>3
      <4> QED
        BY <1>2, <1>5, <4>1
    <3> QED
      BY <3>1, <3>2, <3>3
  <2>6. Undo(c, u)
    BY <2>4, <2>5 DEF Undo
  <2> QED
    BY <1>1, <1>2, <1>3, <2>2, <2>6
<1> QED
  BY <1>6, <1>7

\* A fold, as FoldLeft has it: of boxes, and of tables.
IsBox(h, q, S) == h = [T \in SUBSET S |->
    IF T = {} THEN GenerateOriginalBoxe ELSE Exchanged(h[T \ {Max(T)}], q[Max(T)][1], q[Max(T)][2])]
IsTable(h, q, S) == h = [T \in SUBSET S |->
    IF T = {} THEN Stable ELSE SwitchSbox(h[T \ {Max(T)}], q[Max(T)][1], q[Max(T)][2])]
Undone == {x \in Maps \X Maps : Undo(x[1], x[2])}
Exchange == [x \in Undone \X (Bytes \X Bytes) |->
               <<Exchanged(x[1][1], x[2][1], x[2][2]), SwitchSbox(x[1][2], x[2][1], x[2][2])>>]

\* A pair of random numbers takes tables that undo each other to such tables.
LEMMA ExchangeKeeps ==
    ASSUME NEW x \in Undone, NEW p \in Bytes \X Bytes
    PROVE  /\ Exchange[<<x, p>>] = <<Exchanged(x[1], p[1], p[2]), SwitchSbox(x[2], p[1], p[2])>>
           /\ Exchange[<<x, p>>] \in Undone
<1>1. PICK b \in Maps, t \in Maps : x = <<b, t>> /\ Undo(b, t)
  BY DEF Undone
<1>2. PICK i \in Bytes, j \in Bytes : p = <<i, j>>
  OBVIOUS
<1>3. PICK c, u : c = Exchanged(b, i, j) /\ u = SwitchSbox(t, i, j)
  OBVIOUS
<1>4. c \in Maps /\ u \in Maps /\ Undo(c, u)
  BY <1>1, <1>3, PairUndone
<1>5. Exchange[<<x, p>>] = <<c, u>>
  BY <1>1, <1>2, <1>3 DEF Exchange
<1>6. <<c, u>> \in Undone
  BY <1>4 DEF Undone
<1> QED
  BY <1>1, <1>2, <1>3, <1>5, <1>6

\* Both folds exist, and undo each other all along.
LEMMA BoxesFold ==
    ASSUME NEW n \in Nat, NEW q, \A i \in 1 .. n : q[i] \in Bytes \X Bytes
    PROVE  /\ \E h : IsBox(h, q, 1 .. n)
           /\ \E h : IsTable(h, q, 1 .. n)
           /\ \A f, h : IsBox(f, q, 1 .. n) /\ IsTable(h, q, 1 .. n) =>
                <<f[1 .. n], h[1 .. n]>> \in Undone
<1>1. PICK S : S = 1 .. n
  OBVIOUS
<1>2. Ordered(S) /\ \A i \in S : q[i] \in Bytes \X Bytes
  BY <1>1, OrderedParts
<1>3. <<GenerateOriginalBoxe, Stable>> \in Undone
  BY StableUndoes DEF Undone, Maps, Undo
<1>4. Keeps(Exchange, q, S, Undone)
  BY <1>2, ExchangeKeeps DEF Keeps
<1>5. PICK g : Folds(g, Exchange, <<GenerateOriginalBoxe, Stable>>, q, S)
               /\ \A T \in SUBSET S : g[T] \in Undone
  <2>1. PICK G, b : G = Exchange /\ b = <<GenerateOriginalBoxe, Stable>>
    OBVIOUS
  <2>2. \E g : Folds(g, G, b, q, S) /\ \A T \in SUBSET S : g[T] \in Undone
    BY <1>2, <1>3, <1>4, <2>1, FoldIn
  <2> QED
    BY <2>1, <2>2
<1>6. ASSUME NEW T \in SUBSET S, T # {}
      PROVE  Max(T) \in S /\ T \ {Max(T)} \in SUBSET S /\ q[Max(T)] \in Bytes \X Bytes
  BY <1>2, <1>6 DEF Ordered
<1>7. ASSUME NEW T \in SUBSET S
      PROVE  g[T] = IF T = {} THEN <<GenerateOriginalBoxe, Stable>>
                    ELSE <<Exchanged(g[T \ {Max(T)}][1], q[Max(T)][1], q[Max(T)][2]),
                           SwitchSbox(g[T \ {Max(T)}][2], q[Max(T)][1], q[Max(T)][2])>>
  <2>1. CASE T = {}
    BY <1>5, <2>1 DEF Folds
  <2>2. CASE T # {}
    <3>1. PICK X, p : X = T \ {Max(T)} /\ p = q[Max(T)]
      OBVIOUS
    <3>2. X \in SUBSET S /\ p \in Bytes \X Bytes
      BY <1>6, <2>2, <3>1
    <3>3. g[T] = Exchange[<<g[X], p>>]
      BY <1>5, <2>2, <3>1 DEF Folds
    <3>4. g[X] \in Undone
      BY <1>5, <3>2
    <3>5. g[T] = <<Exchanged(g[X][1], p[1], p[2]), SwitchSbox(g[X][2], p[1], p[2])>>
      BY <3>2, <3>3, <3>4, ExchangeKeeps
    <3> QED
      BY <2>2, <3>1, <3>5
  <2> QED
    BY <2>1, <2>2
<1>8. \E h : IsBox(h, q, S)
  <2>1. PICK h : h = [T \in SUBSET S |-> g[T][1]]
    OBVIOUS
  <2>2. ASSUME NEW T \in SUBSET S
        PROVE  h[T] = IF T = {} THEN GenerateOriginalBoxe
                      ELSE Exchanged(h[T \ {Max(T)}], q[Max(T)][1], q[Max(T)][2])
    <3>1. CASE T = {}
      <4>1. g[T] = <<GenerateOriginalBoxe, Stable>>
        BY <1>7, <3>1
      <4> QED
        BY <2>1, <3>1, <4>1
    <3>2. CASE T # {}
      <4>1. h[T \ {Max(T)}] = g[T \ {Max(T)}][1]
        BY <1>6, <2>1, <3>2
      <4>2. PICK c, u : c = Exchanged(g[T \ {Max(T)}][1], q[Max(T)][1], q[Max(T)][2])
                     /\ u = SwitchSbox(g[T \ {Max(T)}][2], q[Max(T)][1], q[Max(T)][2])
        OBVIOUS
      <4>3. g[T] = <<c, u>>
        BY <1>7, <3>2, <4>2
      <4>4. h[T] = c
        BY <2>1, <4>3
      <4> QED
        BY <3>2, <4>1, <4>2, <4>4
    <3> QED
      BY <3>1, <3>2
  <2>3. h = [T \in SUBSET S |-> h[T]]
    BY <2>1
  <2> QED
    BY <2>2, <2>3 DEF IsBox
<1>9. \E h : IsTable(h, q, S)
  <2>1. PICK h : h = [T \in SUBSET S |-> g[T][2]]
    OBVIOUS
  <2>2. ASSUME NEW T \in SUBSET S
        PROVE  h[T] = IF T = {} THEN Stable
                      ELSE SwitchSbox(h[T \ {Max(T)}], q[Max(T)][1], q[Max(T)][2])
    <3>1. CASE T = {}
      <4>1. g[T] = <<GenerateOriginalBoxe, Stable>>
        BY <1>7, <3>1
      <4> QED
        BY <2>1, <3>1, <4>1
    <3>2. CASE T # {}
      <4>1. h[T \ {Max(T)}] = g[T \ {Max(T)}][2]
        BY <1>6, <2>1, <3>2
      <4>2. PICK c, u : c = Exchanged(g[T \ {Max(T)}][1], q[Max(T)][1], q[Max(T)][2])
                     /\ u = SwitchSbox(g[T \ {Max(T)}][2], q[Max(T)][1], q[Max(T)][2])
        OBVIOUS
      <4>3. g[T] = <<c, u>>
        BY <1>7, <3>2, <4>2
      <4>4. h[T] = u
        BY <2>1, <4>3
      <4> QED
        BY <3>2, <4>1, <4>2, <4>4
    <3> QED
      BY <3>1, <3>2
  <2>3. h = [T \in SUBSET S |-> h[T]]
    BY <2>1
  <2> QED
    BY <2>2, <2>3 DEF IsTable
<1>10. ASSUME NEW f, NEW h, IsBox(f, q, S), IsTable(h, q, S)
       PROVE  <<f[S], h[S]>> \in Undone
  <2>1. PICK k : k = [T \in SUBSET S |-> <<f[T], h[T]>>]
    OBVIOUS
  <2>2. ASSUME NEW T \in SUBSET S PROVE k[T] = <<f[T], h[T]>>
    BY <2>1
  <2>3. f[{}] = GenerateOriginalBoxe /\ h[{}] = Stable
    BY <1>10 DEF IsBox, IsTable
  <2>4. k[{}] \in Undone
    BY <1>3, <2>2, <2>3
  <2>5. ASSUME NEW T \in SUBSET S, T # {}, k[T \ {Max(T)}] \in Undone
        PROVE  k[T] \in Undone
    <3>1. PICK X, p : X = T \ {Max(T)} /\ p = q[Max(T)]
      OBVIOUS
    <3>2. X \in SUBSET S /\ p \in Bytes \X Bytes
      BY <1>6, <2>5, <3>1
    <3>3. f[T] = Exchanged(f[X], p[1], p[2])
      BY <1>10, <2>5, <3>1 DEF IsBox
    <3>4. h[T] = SwitchSbox(h[X], p[1], p[2])
      BY <1>10, <2>5, <3>1 DEF IsTable
    <3>5. PICK x : x = <<f[X], h[X]>>
      OBVIOUS
    <3>6. x \in Undone /\ x[1] = f[X] /\ x[2] = h[X]
      BY <2>2, <2>5, <3>1, <3>2, <3>5
    <3>7. Exchange[<<x, p>>] = <<f[T], h[T]>> /\ Exchange[<<x, p>>] \in Undone
      BY <3>2, <3>3, <3>4, <3>6, ExchangeKeeps
    <3> QED
      BY <2>2, <3>7
  <2>6. \A T \in SUBSET S : k[T] \in Undone
    BY <1>2, <2>4, <2>5, FoldStays
  <2> QED
    BY <2>2, <2>6
<1> QED
  BY <1>1, <1>8, <1>9, <1>10

\* Whatever numbers a session draws, the box that the gateway forms with them and the table
\* that the client makes with them undo each other (formNewBoxes, SwithTable): the
\* gateway exchanges what is at two indices, the client two values, wherever they are.
THEOREM TablesUndoBoxes ==
    ASSUME NEW r \in Seq(Bytes), Len(r) % 2 = 0
    PROVE  /\ FormNewBoxes(r) \in [Bytes -> Bytes] /\ SwithTable(r) \in [Bytes -> Bytes]
           /\ \A v \in Bytes : /\ SwithTable(r)[FormNewBoxes(r)[v]] = v
                               /\ FormNewBoxes(r)[SwithTable(r)[v]] = v
<1>1. PICK m \in Nat : Len(r) = 2 * m /\ Len(r) \div 2 = m
  OBVIOUS
<1>2. PICK q : q = Pairs(r)
  OBVIOUS
<1>3. q = [k \in 1 .. m |-> <<r[2 * k - 1], r[2 * k]>>]
  BY <1>1, <1>2 DEF Pairs
<1>4. \A k \in 1 .. m : q[k] \in Bytes \X Bytes
  <2> TAKE k \in 1 .. m
  <2>1. 2 * k - 1 \in 1 .. Len(r) /\ 2 * k \in 1 .. Len(r)
    BY <1>1
  <2>2. r[2 * k - 1] \in Bytes /\ r[2 * k] \in Bytes
    BY <2>1
  <2> QED
    BY <1>3, <2>2
<1>5. PICK S : S = 1 .. m
  OBVIOUS
<1>6. DOMAIN q = S
  BY <1>3, <1>5
<1>7. FormNewBoxes(r) = (CHOOSE h : IsBox(h, q, S))[S]
  BY <1>2, <1>6 DEF FormNewBoxes, FoldLeft, MapThenFoldSet, IsBox
<1>8. SwithTable(r) = (CHOOSE h : IsTable(h, q, S))[S]
  BY <1>2, <1>6 DEF SwithTable, FoldLeft, MapThenFoldSet, IsTable
<1>9. PICK f, h : f = (CHOOSE k : IsBox(k, q, S)) /\ h = (CHOOSE k : IsTable(k, q, S))
  OBVIOUS
<1>10. IsBox(f, q, S) /\ IsTable(h, q, S)
  BY <1>4, <1>5, <1>9, BoxesFold
<1>11. <<f[S], h[S]>> \in Undone
  BY <1>4, <1>5, <1>10, BoxesFold
<1>12. f[S] = FormNewBoxes(r) /\ h[S] = SwithTable(r)
  BY <1>7, <1>8, <1>9
<1> QED
  BY <1>11, <1>12 DEF Undone, Maps, Undo

-----------------------------------------------------------------------------
(* What becomes of the messages.                                           *)

(* What is on its way, by its numbers; the challenge has number 0.         *)
Numbers(q) == {q[i].n : i \in DOMAIN q}
Rising(q) == \A i, j \in DOMAIN q : i < j => q[i].n < q[j].n
Below(A, B) == \A x \in A, y \in B : x < y

\* A handler's messages come in order: g read, d to be read, b being written, o to be posted.
InOrder(g, d, b, o, k) ==
    /\ Rising(g) /\ Rising(d) /\ Rising(b) /\ Rising(o)
    /\ Numbers(g) \subseteq 1 .. k
    /\ Numbers(d) \subseteq 0 .. k /\ Numbers(b) \subseteq 0 .. k /\ Numbers(o) \subseteq 0 .. k
    /\ Below(Numbers(g), Numbers(d)) /\ Below(Numbers(g) \cup Numbers(d), Numbers(b))
    /\ Below(Numbers(g) \cup Numbers(d) \cup Numbers(b), Numbers(o))

NetMessages == [kind : {"challenge", "response"}, n : Nat, size : Nat, data : Nat]
Frames == [size : Nat, n : Nat, text : Bytes, randoms : Randoms \cup {NoRandoms}]
Sents == [text : Bytes, size : Nat, shared : BOOLEAN]

WireTypes ==
    /\ vectors \in Seq(Bytes)
    /\ outbox \in [Sessions -> Seq(NetMessages)] /\ batch \in [Sessions -> Seq(NetMessages)]
    /\ phase \in [Sessions -> {"read", "write", "insert"}]
    /\ byte \in [Sessions -> Bytes \cup {NoByte}]
    /\ pBox \in [Sessions -> Randoms \cup {NoRandoms}]
    /\ down \in [Sessions -> Seq(Frames)]
    /\ up \in [Sessions -> Seq([text : Bytes, size : Nat])]
    /\ table \in [Sessions -> Randoms \cup {NoRandoms}] /\ broken \in [Sessions -> BOOLEAN]
    /\ sent \in [Sessions -> Seq(Sents)] /\ got \in [Sessions -> Seq([n : Nat, text : Bytes])]
    /\ asked \in [Sessions -> Seq([text : Bytes, size : Nat])]
    /\ heard \in [Sessions -> Seq(Bytes)]

\* The challenge: until it has been written the session has no box, until it has been
\* read the client no table; then both have the same numbers.
Started(s) ==
    /\ pBox[s] = NoRandoms <=> 0 \in Numbers(batch[s]) \cup Numbers(outbox[s])
    /\ table[s] = NoRandoms =>
         /\ got[s] = <<>> /\ up[s] = <<>> /\ asked[s] = <<>> /\ heard[s] = <<>>
         /\ pBox[s] # NoRandoms => 0 \in Numbers(down[s])
    /\ table[s] # NoRandoms => table[s] = pBox[s] /\ 0 \notin Numbers(down[s])

\* The messages on the gateway's side, and who else has a vector.
Waiting(s) == ToSet(outbox[s]) \cup ToSet(batch[s])
Own(s, m) == m.n > 0 /\ IsDynamic(m) /\ ~sent[s][m.n].shared
Pending(s) ==
    /\ \A m \in Waiting(s) :
         /\ m.n = 0 => m.kind = "challenge" /\ m.size = 5 /\ m.data = 0
         /\ m.n > 0 => /\ m.kind = "response" /\ m.size = sent[s][m.n].size
                       /\ IsDynamic(m) => m.data \in DOMAIN vectors
                       /\ ~IsDynamic(m) => m.data = sent[s][m.n].text
    /\ phase[s] # "read" => Writes(s) /\ IsDynamic(Head(batch[s])) /\ Head(batch[s]).size <= MaxSize
    /\ phase[s] = "write" => byte[s] \in Bytes

\* A vector that was made for one session is in one message, and is encrypted once.
Sole(s) ==
    \A m \in Waiting(s) : Own(s, m) =>
        \A t \in Sessions : \A l \in Waiting(t) :
            l.n > 0 /\ IsDynamic(l) /\ l.data = m.data => t = s /\ l.n = m.n
Fresh(s) ==
    \A m \in Waiting(s) : Own(s, m) =>
        /\ vectors[m.data] = IF phase[s] = "insert" /\ m = Head(batch[s])
                             THEN Encrypted(s, sent[s][m.n].text) ELSE sent[s][m.n].text
        /\ phase[s] = "write" /\ m = Head(batch[s]) => byte[s] = sent[s][m.n].text

\* What is on its way to the client, and what it has read.
Coming(s) ==
    /\ \A f \in ToSet(down[s]) :
         /\ f.n = 0 => f.randoms = pBox[s]
         /\ f.n > 0 => /\ f.size = sent[s][f.n].size
                       /\ ~(sent[s][f.n].shared /\ IsDynamic(sent[s][f.n])) =>
                            f.text = Encrypted(s, sent[s][f.n].text)
    /\ \A e \in ToSet(got[s]) : ~(sent[s][e.n].shared /\ IsDynamic(sent[s][e.n])) =>
         e.text = sent[s][e.n].text

\* What the client asks.
Asking(s) ==
    /\ Len(heard[s]) + Len(up[s]) = Len(asked[s])
    /\ \A i \in DOMAIN up[s] : LET a == asked[s][Len(heard[s]) + i] IN
         up[s][i] = [text |-> Tables[table[s]][a.text], size |-> a.size]
    /\ \A i \in DOMAIN heard[s] : Decrypts(asked[s][i].size) => heard[s][i] = asked[s][i].text

\* Nothing is lost unless a message was too large.
Short(s) == \A n \in DOMAIN sent[s] : ~Negative(sent[s][n].size)
Whole(s) ==
    /\ Short(s) => 0 .. Len(sent[s]) \subseteq
         Numbers(got[s]) \cup Numbers(down[s]) \cup Numbers(batch[s]) \cup Numbers(outbox[s])
           \cup (IF table[s] = NoRandoms THEN {} ELSE {0})
    /\ broken[s] => ~Short(s)

Sequenced(s) == InOrder(got[s], down[s], batch[s], outbox[s], Len(sent[s]))

SessionInv(s) ==
    Sequenced(s) /\ Started(s) /\ Pending(s) /\ Fresh(s) /\ Coming(s) /\ Asking(s) /\ Whole(s)
WireInv == WireTypes /\ \A s \in Sessions : SessionInv(s) /\ Sole(s)

\* One message more.
LEMMA NumbersAppended ==
    ASSUME NEW X, NEW q \in Seq(X), NEW x \in X
    PROVE  /\ Numbers(Append(q, x)) = Numbers(q) \cup {x.n}
           /\ ToSet(Append(q, x)) = ToSet(q) \cup {x}
           /\ Rising(q) /\ Below(Numbers(q), {x.n}) => Rising(Append(q, x))
<1>1. PICK n \in Nat : n = Len(q)
  OBVIOUS
<1>2. PICK h : h = Append(q, x)
  OBVIOUS
<1>3. DOMAIN q = 1 .. n /\ DOMAIN h = 1 .. n + 1 /\ h[n + 1] = x /\ \A i \in 1 .. n : h[i] = q[i]
  BY <1>1, <1>2
<1>4. \A i \in 1 .. n + 1 : i \in 1 .. n \/ i = n + 1
  OBVIOUS
<1>5. n + 1 \in 1 .. n + 1 /\ \A i \in 1 .. n : i \in 1 .. n + 1
  OBVIOUS
<1>6. Numbers(h) = Numbers(q) \cup {x.n}
  BY <1>3, <1>4, <1>5 DEF Numbers
<1>7. ToSet(h) = ToSet(q) \cup {x}
  BY <1>3, <1>4, <1>5 DEF ToSet
<1>8. ASSUME Rising(q), Below(Numbers(q), {x.n}), NEW i \in 1 .. n + 1, NEW j \in 1 .. n + 1, i < j
      PROVE  h[i].n < h[j].n
  <2>1. i \in 1 .. n
    BY <1>8
  <2>2. CASE j = n + 1
    <3>1. q[i].n \in Numbers(q)
      BY <1>3, <2>1 DEF Numbers
    <3> QED
      BY <1>3, <1>8, <2>1, <2>2, <3>1 DEF Below
  <2>3. CASE j # n + 1
    <3>1. j \in 1 .. n
      BY <2>3
    <3> QED
      BY <1>3, <1>8, <2>1, <3>1 DEF Rising
  <2> QED
    BY <2>2, <2>3
<1> QED
  BY <1>2, <1>3, <1>6, <1>7, <1>8 DEF Rising

\* The first message goes.
LEMMA NumbersTail ==
    ASSUME NEW X, NEW q \in Seq(X), q # <<>>
    PROVE  /\ Tail(q) \in Seq(X) /\ Head(q) \in X /\ Head(q) \in ToSet(q)
           /\ ToSet(q) = ToSet(Tail(q)) \cup {Head(q)}
           /\ Numbers(q) = Numbers(Tail(q)) \cup {Head(q).n}
           /\ Rising(q) => Rising(Tail(q)) /\ Below({Head(q).n}, Numbers(Tail(q)))
<1>1. PICK n \in Nat : Len(q) = n + 1
  <2>1. Len(q) # 0
    BY EmptySeq
  <2>2. Len(q) - 1 \in Nat
    BY <2>1
  <2> QED
    BY <2>2
<1>2. PICK h, x : h = Tail(q) /\ x = Head(q)
  OBVIOUS
<1>3. /\ h \in Seq(X) /\ DOMAIN q = 1 .. n + 1 /\ DOMAIN h = 1 .. n /\ x = q[1] /\ x \in X
      /\ \A i \in 1 .. n : h[i] = q[i + 1]
  BY <1>1, <1>2
<1>4. \A i \in 1 .. n + 1 : i = 1 \/ i - 1 \in 1 .. n
  OBVIOUS
<1>5. 1 \in 1 .. n + 1 /\ \A i \in 1 .. n : i + 1 \in 1 .. n + 1 /\ 1 < i + 1
  OBVIOUS
<1>6. \A i \in 1 .. n + 1 : i # 1 => q[i] = h[i - 1]
  <2> TAKE i \in 1 .. n + 1
  <2> HAVE i # 1
  <2>1. i - 1 \in 1 .. n /\ (i - 1) + 1 = i
    OBVIOUS
  <2> QED
    BY <1>3, <2>1
<1>7. ToSet(q) = ToSet(h) \cup {x}
  <2>1. \A y \in ToSet(q) : y \in ToSet(h) \cup {x}
    <3>1. ASSUME NEW i \in 1 .. n + 1 PROVE q[i] \in ToSet(h) \cup {x}
      <4>1. CASE i = 1
        BY <1>3, <4>1
      <4>2. CASE i # 1
        <5>1. i - 1 \in 1 .. n
          BY <4>2
        <5>2. h[i - 1] \in ToSet(h)
          BY <1>3, <5>1 DEF ToSet
        <5> QED
          BY <1>6, <4>2, <5>2
      <4> QED
        BY <4>1, <4>2
    <3> QED
      BY <1>3, <3>1 DEF ToSet
  <2>2. \A y \in ToSet(h) : y \in ToSet(q)
    BY <1>3, <1>5 DEF ToSet
  <2>3. x \in ToSet(q)
    BY <1>3, <1>5 DEF ToSet
  <2> QED
    BY <2>1, <2>2, <2>3
<1>8. Numbers(q) = Numbers(h) \cup {x.n}
  <2>1. \A y \in Numbers(q) : y \in Numbers(h) \cup {x.n}
    <3>1. ASSUME NEW i \in 1 .. n + 1 PROVE q[i].n \in Numbers(h) \cup {x.n}
      <4>1. CASE i = 1
        BY <1>3, <4>1
      <4>2. CASE i # 1
        <5>1. i - 1 \in 1 .. n
          BY <4>2
        <5>2. h[i - 1].n \in Numbers(h)
          BY <1>3, <5>1 DEF Numbers
        <5> QED
          BY <1>6, <4>2, <5>2
      <4> QED
        BY <4>1, <4>2
    <3> QED
      BY <1>3, <3>1 DEF Numbers
  <2>2. \A y \in Numbers(h) : y \in Numbers(q)
    BY <1>3, <1>5 DEF Numbers
  <2>3. x.n \in Numbers(q)
    BY <1>3, <1>5 DEF Numbers
  <2> QED
    BY <2>1, <2>2, <2>3
<1>9. ASSUME Rising(q) PROVE Rising(h) /\ Below({x.n}, Numbers(h))
  <2>1. ASSUME NEW i \in 1 .. n, NEW j \in 1 .. n, i < j PROVE h[i].n < h[j].n
    <3>1. i + 1 \in 1 .. n + 1 /\ j + 1 \in 1 .. n + 1 /\ i + 1 < j + 1
      BY <2>1
    <3> QED
      BY <1>3, <1>9, <3>1 DEF Rising
  <2>2. ASSUME NEW i \in 1 .. n PROVE x.n < h[i].n
    BY <1>3, <1>5, <1>9 DEF Rising
  <2> QED
    BY <1>3, <2>1, <2>2 DEF Rising, Below, Numbers
<1> QED
  BY <1>2, <1>3, <1>7, <1>8, <1>9

\* The messages found together, and those behind them.
LEMMA NumbersSplit ==
    ASSUME NEW X, NEW q \in Seq(X), NEW k \in 1 .. Len(q)
    PROVE  /\ SubSeq(q, 1, k) \in Seq(X) /\ SubSeq(q, k + 1, Len(q)) \in Seq(X)
           /\ ToSet(q) = ToSet(SubSeq(q, 1, k)) \cup ToSet(SubSeq(q, k + 1, Len(q)))
           /\ Numbers(q) = Numbers(SubSeq(q, 1, k)) \cup Numbers(SubSeq(q, k + 1, Len(q)))
           /\ Rising(q) => /\ Rising(SubSeq(q, 1, k)) /\ Rising(SubSeq(q, k + 1, Len(q)))
                           /\ Below(Numbers(SubSeq(q, 1, k)), Numbers(SubSeq(q, k + 1, Len(q))))
<1>1. PICK n \in Nat : Len(q) = k + n
  <2>1. Len(q) \in Nat /\ k \in Nat /\ k <= Len(q)
    OBVIOUS
  <2>2. Len(q) - k \in Nat /\ Len(q) = k + (Len(q) - k)
    BY <2>1
  <2> QED
    BY <2>2
<1>2. PICK u, v : u = SubSeq(q, 1, k) /\ v = SubSeq(q, k + 1, Len(q))
  OBVIOUS
<1>3. u \in Seq(X) /\ Len(u) = k /\ \A i \in 1 .. k : u[i] = q[i]
  <2>1. 1 \in Int /\ k \in Int /\ 1 <= k /\ \A i \in 1 .. k : q[i] \in X
    OBVIOUS
  <2>2. /\ SubSeq(q, 1, k) \in Seq(X) /\ Len(SubSeq(q, 1, k)) = k - 1 + 1
        /\ \A i \in 1 .. k - 1 + 1 : SubSeq(q, 1, k)[i] = q[1 + i - 1]
    BY <2>1, SubSeqProperties
  <2>3. k - 1 + 1 = k /\ \A i \in 1 .. k : 1 + i - 1 = i
    OBVIOUS
  <2> QED
    BY <1>2, <2>2, <2>3
<1>4. v \in Seq(X) /\ Len(v) = n /\ \A i \in 1 .. n : v[i] = q[k + i]
  <2>1. PICK a, z : a = k + 1 /\ z = Len(q)
    OBVIOUS
  <2>2. a \in Int /\ z \in Int /\ \A i \in a .. z : q[i] \in X
    BY <2>1
  <2>3. /\ SubSeq(q, a, z) \in Seq(X) /\ Len(SubSeq(q, a, z)) = IF a <= z THEN z - a + 1 ELSE 0
        /\ \A i \in 1 .. z - a + 1 : SubSeq(q, a, z)[i] = q[a + i - 1]
    BY <2>2, SubSeqProperties
  <2>4. z - a + 1 = n /\ (a <= z <=> n # 0) /\ \A i \in 1 .. n : a + i - 1 = k + i
    BY <1>1, <2>1
  <2> QED
    BY <1>2, <2>1, <2>3, <2>4
<1>5. DOMAIN q = 1 .. k + n /\ \A i \in 1 .. k + n : q[i] \in X
  BY <1>1
<1>6. /\ \A i \in 1 .. k : i \in 1 .. k + n
      /\ \A i \in 1 .. n : k + i \in 1 .. k + n
      /\ \A i \in 1 .. k + n : i \in 1 .. k \/ i - k \in 1 .. n
  BY <1>1
<1>7. u \in Seq(X) /\ v \in Seq(X) /\ DOMAIN u = 1 .. k /\ DOMAIN v = 1 .. n
  BY <1>3, <1>4
<1>8. \A i \in 1 .. k + n : i \notin 1 .. k => q[i] = v[i - k]
  <2> TAKE i \in 1 .. k + n
  <2> HAVE i \notin 1 .. k
  <2>1. i - k \in 1 .. n /\ k + (i - k) = i
    BY <1>1
  <2> QED
    BY <1>4, <2>1
<1>9. ToSet(q) = ToSet(u) \cup ToSet(v)
  <2>1. \A y \in ToSet(q) : y \in ToSet(u) \cup ToSet(v)
    BY <1>3, <1>5, <1>6, <1>7, <1>8 DEF ToSet
  <2>2. \A y \in ToSet(u) : y \in ToSet(q)
    BY <1>3, <1>5, <1>6, <1>7 DEF ToSet
  <2>3. \A y \in ToSet(v) : y \in ToSet(q)
    BY <1>4, <1>5, <1>6, <1>7 DEF ToSet
  <2> QED
    BY <2>1, <2>2, <2>3
<1>10. Numbers(q) = Numbers(u) \cup Numbers(v)
  <2>1. \A y \in Numbers(q) : y \in Numbers(u) \cup Numbers(v)
    BY <1>3, <1>5, <1>6, <1>7, <1>8 DEF Numbers
  <2>2. \A y \in Numbers(u) : y \in Numbers(q)
    BY <1>3, <1>5, <1>6, <1>7 DEF Numbers
  <2>3. \A y \in Numbers(v) : y \in Numbers(q)
    BY <1>4, <1>5, <1>6, <1>7 DEF Numbers
  <2> QED
    BY <2>1, <2>2, <2>3
<1>11. ASSUME Rising(q) PROVE Rising(u) /\ Rising(v) /\ Below(Numbers(u), Numbers(v))
  <2>1. Rising(u)
    BY <1>3, <1>5, <1>6, <1>7, <1>11 DEF Rising
  <2>2. ASSUME NEW i \in 1 .. n, NEW j \in 1 .. n, i < j PROVE v[i].n < v[j].n
    <3>1. k + i < k + j
      BY <1>1, <2>2
    <3>2. q[k + i].n < q[k + j].n
      BY <1>5, <1>6, <1>11, <3>1 DEF Rising
    <3> QED
      BY <1>4, <3>2
  <2>3. ASSUME NEW i \in 1 .. k, NEW j \in 1 .. n PROVE u[i].n < v[j].n
    <3>1. i < k + j /\ i \in 1 .. k + n /\ k + j \in 1 .. k + n
      BY <1>1, <1>6
    <3>2. q[i].n < q[k + j].n
      BY <1>5, <1>11, <3>1 DEF Rising
    <3> QED
      BY <1>3, <1>4, <3>2
  <2> QED
    BY <1>7, <2>1, <2>2, <2>3 DEF Rising, Below, Numbers
<1> QED
  BY <1>2, <1>7, <1>9, <1>10, <1>11

\* No message.
LEMMA NumbersNone == Numbers(<<>>) = {} /\ Rising(<<>>) /\ ToSet(<<>>) = {}
BY DEF Numbers, Rising, ToSet

\* A message is sent behind all others.
LEMMA OrderSent ==
    ASSUME NEW k \in Nat, NEW g, NEW d, NEW b, NEW o \in Seq(NetMessages),
           NEW m \in NetMessages, k < m.n, InOrder(g, d, b, o, k)
    PROVE  InOrder(g, d, b, Append(o, m), m.n)
<1>0. PICK h : h = Append(o, m)
  OBVIOUS
<1>1. PICK x \in Nat : x = m.n
  BY DEF NetMessages
<1>2. Below(Numbers(o), {m.n})
  BY <1>1 DEF InOrder, Below
<1>3. Numbers(h) = Numbers(o) \cup {x} /\ Rising(h)
  BY <1>0, <1>1, <1>2, NumbersAppended DEF InOrder
<1>4. 1 .. k \subseteq 1 .. x /\ 0 .. k \subseteq 0 .. x /\ x \in 0 .. x
      /\ \A y \in 0 .. k : y < x
  BY <1>1
<1>5. 1 .. k \subseteq 0 .. k
  OBVIOUS
<1>6. InOrder(g, d, b, h, x)
  BY <1>3, <1>4, <1>5 DEF InOrder, Below
<1> QED
  BY <1>0, <1>1, <1>6

\* The first messages of the outbox become a batch.
LEMMA OrderPosted ==
    ASSUME NEW k, NEW g, NEW d, NEW o \in Seq(NetMessages), NEW j \in 1 .. Len(o),
           InOrder(g, d, <<>>, o, k)
    PROVE  InOrder(g, d, SubSeq(o, 1, j), SubSeq(o, j + 1, Len(o)), k)
<1>1. PICK u, v : u = SubSeq(o, 1, j) /\ v = SubSeq(o, j + 1, Len(o))
  OBVIOUS
<1>2. /\ Numbers(o) = Numbers(u) \cup Numbers(v)
      /\ Rising(u) /\ Rising(v) /\ Below(Numbers(u), Numbers(v))
  BY <1>1, NumbersSplit DEF InOrder
<1>3. InOrder(g, d, u, v, k)
  BY <1>2, NumbersNone DEF InOrder, Below
<1> QED
  BY <1>1, <1>3

\* A batch is cleared.
LEMMA OrderDropped ==
    ASSUME NEW k, NEW g, NEW d, NEW b, NEW o, InOrder(g, d, b, o, k)
    PROVE  InOrder(g, d, <<>>, o, k)
BY NumbersNone DEF InOrder, Below

\* The first message of a batch is inserted.
LEMMA OrderInserted ==
    ASSUME NEW k, NEW g, NEW d \in Seq(Frames), NEW b \in Seq(NetMessages), NEW o, b # <<>>,
           NEW f \in Frames, f.n = Head(b).n, InOrder(g, d, b, o, k)
    PROVE  InOrder(g, Append(d, f), Tail(b), o, k)
<1>1. PICK c, x : c = Tail(b) /\ x = Head(b).n
  OBVIOUS
<1>2. Numbers(b) = Numbers(c) \cup {x} /\ Rising(c) /\ Below({x}, Numbers(c))
  BY <1>1, NumbersTail DEF InOrder
<1>3. Below(Numbers(d), {f.n})
  BY <1>1, <1>2 DEF InOrder, Below
<1>4. PICK e : e = Append(d, f)
  OBVIOUS
<1>5. Numbers(e) = Numbers(d) \cup {x} /\ Rising(e)
  BY <1>1, <1>3, <1>4, NumbersAppended DEF InOrder
<1>6. InOrder(g, e, c, o, k)
  BY <1>2, <1>5 DEF InOrder, Below
<1> QED
  BY <1>1, <1>4, <1>6

\* The client takes the challenge.
LEMMA OrderStarted ==
    ASSUME NEW k, NEW g, NEW d \in Seq(Frames), NEW b, NEW o, d # <<>>, InOrder(g, d, b, o, k)
    PROVE  InOrder(g, Tail(d), b, o, k)
<1>1. PICK c, x : c = Tail(d) /\ x = Head(d).n
  OBVIOUS
<1>2. Numbers(d) = Numbers(c) \cup {x} /\ Rising(c)
  BY <1>1, NumbersTail DEF InOrder
<1>3. InOrder(g, c, b, o, k)
  BY <1>2 DEF InOrder, Below
<1> QED
  BY <1>1, <1>3

\* The client reads a message.
LEMMA OrderRead ==
    ASSUME NEW k \in Nat, NEW g \in Seq([n : Nat, text : Bytes]), NEW d \in Seq(Frames), NEW b, NEW o,
           d # <<>>, NEW e \in [n : Nat, text : Bytes], e.n = Head(d).n, e.n # 0,
           InOrder(g, d, b, o, k)
    PROVE  InOrder(Append(g, e), Tail(d), b, o, k)
<1>1. PICK c, x : c = Tail(d) /\ x = Head(d).n
  OBVIOUS
<1>2. Numbers(d) = Numbers(c) \cup {x} /\ Rising(c) /\ Below({x}, Numbers(c))
  BY <1>1, NumbersTail DEF InOrder
<1>3. Below(Numbers(g), {e.n})
  BY <1>1, <1>2 DEF InOrder, Below
<1>4. PICK h : h = Append(g, e)
  OBVIOUS
<1>5. Numbers(h) = Numbers(g) \cup {x} /\ Rising(h)
  <2>1. PICK Y : Y = [n : Nat, text : Bytes]
    OBVIOUS
  <2>2. g \in Seq(Y) /\ e \in Y /\ Rising(g)
    BY <2>1 DEF InOrder
  <2>3. Numbers(Append(g, e)) = Numbers(g) \cup {e.n} /\ Rising(Append(g, e))
    BY <1>3, <2>2, NumbersAppended
  <2> QED
    BY <1>1, <1>4, <2>3
<1>6. x \in 1 .. k
  <2>1. x \in 0 .. k /\ x # 0
    BY <1>1, <1>2 DEF InOrder
  <2> QED
    BY <2>1
<1>7. InOrder(h, c, b, o, k)
  BY <1>2, <1>5, <1>6 DEF InOrder, Below
<1> QED
  BY <1>1, <1>4, <1>7

\* What a session's box encrypts, its client's table decrypts, and the other way round.
LEMMA BoxesUndone ==
    ASSUME NEW r \in Randoms
    PROVE  /\ r # NoRandoms /\ r \in Seq(Bytes)
           /\ \A v \in Bytes : /\ Boxes[r][v] \in Bytes /\ Tables[r][v] \in Bytes
                               /\ Tables[r][Boxes[r][v]] = v /\ Boxes[r][Tables[r][v]] = v
<1>1. r \in Seq(Bytes) /\ Len(r) > 0 /\ Len(r) % 2 = 0
  BY RandomsAssumption
<1>2. Boxes[r] = FormNewBoxes(r) /\ Tables[r] = SwithTable(r)
  BY DEF Boxes, Tables
<1>3. r # NoRandoms
  BY <1>1 DEF NoRandoms
<1> QED
  BY <1>1, <1>2, <1>3, TablesUndoBoxes

\* What a message that is read and written is: its number, and where it is.
LEMMA FirstOfBatch ==
    ASSUME WireInv, NEW s \in Sessions, batch[s] # <<>>
    PROVE  /\ Head(batch[s]) \in NetMessages /\ Head(batch[s]) \in Waiting(s)
           /\ Tail(batch[s]) \in Seq(NetMessages) /\ ToSet(Tail(batch[s])) \subseteq ToSet(batch[s])
           /\ ToSet(batch[s]) = ToSet(Tail(batch[s])) \cup {Head(batch[s])}
           /\ Numbers(batch[s]) = Numbers(Tail(batch[s])) \cup {Head(batch[s]).n}
           /\ Head(batch[s]).n \in 0 .. Len(sent[s])
           /\ \A n \in Numbers(Tail(batch[s])) \cup Numbers(outbox[s]) : Head(batch[s]).n < n
<1>1. batch[s] \in Seq(NetMessages)
  BY DEF WireInv, WireTypes
<1>2. Rising(batch[s]) /\ Numbers(batch[s]) \subseteq 0 .. Len(sent[s])
      /\ Below(Numbers(batch[s]), Numbers(outbox[s]))
  BY DEF WireInv, SessionInv, Sequenced, InOrder, Below
<1>3. PICK b, x, c : b = batch[s] /\ x = Head(b) /\ c = Tail(b)
  OBVIOUS
<1>4. /\ x \in NetMessages /\ x \in ToSet(b) /\ c \in Seq(NetMessages) /\ ToSet(b) = ToSet(c) \cup {x}
      /\ Numbers(b) = Numbers(c) \cup {x.n} /\ Below({x.n}, Numbers(c))
  BY <1>1, <1>2, <1>3, NumbersTail
<1>5. \A n \in Numbers(c) \cup Numbers(outbox[s]) : x.n < n
  BY <1>2, <1>3, <1>4 DEF Below
<1> QED
  BY <1>2, <1>3, <1>4, <1>5 DEF Waiting

\* The messages of a session differ by their numbers, which are those of what was sent.
LEMMA InNumbers ==
    ASSUME NEW q
    PROVE  \A m \in ToSet(q) : m.n \in Numbers(q)
BY DEF ToSet, Numbers

\* A session of which nothing changes.
LEMMA SessionKept ==
    ASSUME NEW t \in Sessions, SessionInv(t), vectors \in Seq(Bytes), vectors' \in Seq(Bytes),
           Len(vectors) <= Len(vectors'),
           outbox'[t] = outbox[t], batch'[t] = batch[t], phase'[t] = phase[t], byte'[t] = byte[t],
           pBox'[t] = pBox[t], down'[t] = down[t], up'[t] = up[t], table'[t] = table[t],
           broken'[t] = broken[t], sent'[t] = sent[t], got'[t] = got[t], asked'[t] = asked[t],
           heard'[t] = heard[t],
           \A m \in Waiting(t) : Own(t, m) => vectors'[m.data] = vectors[m.data]
    PROVE  SessionInv(t)'
<1>1. Sequenced(t)'
  BY DEF SessionInv, Sequenced
<1>2. Started(t)'
  BY DEF SessionInv, Started
<1>3. Waiting(t)' = Waiting(t)
  BY DEF Waiting
<1>4. Pending(t)'
  <2>1. DOMAIN vectors \subseteq DOMAIN vectors'
    OBVIOUS
  <2> QED
    BY <1>3, <2>1 DEF SessionInv, Pending, Writes
<1>5. Fresh(t)'
  BY <1>3 DEF SessionInv, Fresh, Own, Encrypted
<1>6. Coming(t)'
  BY DEF SessionInv, Coming, Encrypted
<1>7. Asking(t)'
  BY DEF SessionInv, Asking
<1>8. Whole(t)'
  BY DEF SessionInv, Whole, Short
<1> QED
  BY <1>1, <1>2, <1>4, <1>5, <1>6, <1>7, <1>8 DEF SessionInv

\* No message more waits.
LEMMA SoleKept ==
    ASSUME \A t \in Sessions : Sole(t), sent' = sent,
           \A t \in Sessions : Waiting(t)' \subseteq Waiting(t)
    PROVE  \A t \in Sessions : Sole(t)'
<1> TAKE t \in Sessions
<1> SUFFICES ASSUME NEW m \in Waiting(t)', Own(t, m)', NEW z \in Sessions, NEW l \in Waiting(z)',
                    l.n > 0, IsDynamic(l), l.data = m.data
             PROVE  z = t /\ l.n = m.n
  BY DEF Sole
<1>1. m \in Waiting(t) /\ l \in Waiting(z) /\ Own(t, m)
  BY DEF Own
<1> QED
  BY <1>1 DEF Sole

\* The step of one session: nothing changes for the others.
LEMMA OneMoves ==
    ASSUME WireInv, NEW s \in Sessions, WireTypes', SessionInv(s)', sent' = sent,
           Waiting(s)' \subseteq Waiting(s), Len(vectors) <= Len(vectors'),
           \A t \in Sessions : t # s =>
               /\ outbox'[t] = outbox[t] /\ batch'[t] = batch[t] /\ phase'[t] = phase[t]
               /\ byte'[t] = byte[t] /\ pBox'[t] = pBox[t] /\ down'[t] = down[t] /\ up'[t] = up[t]
               /\ table'[t] = table[t] /\ broken'[t] = broken[t] /\ got'[t] = got[t]
               /\ asked'[t] = asked[t] /\ heard'[t] = heard[t]
               /\ \A m \in Waiting(t) : Own(t, m) => vectors'[m.data] = vectors[m.data]
    PROVE  WireInv'
<1>1. vectors \in Seq(Bytes) /\ vectors' \in Seq(Bytes)
  BY DEF WireInv, WireTypes
<1>2. ASSUME NEW t \in Sessions PROVE SessionInv(t)'
  <2>1. CASE t = s
    BY <2>1
  <2>2. CASE t # s
    <3>1. SessionInv(t)
      BY DEF WireInv
    <3> QED
      BY <1>1, <2>2, <3>1, SessionKept
  <2> QED
    BY <2>1, <2>2
<1>3. \A t \in Sessions : Waiting(t)' \subseteq Waiting(t)
  BY DEF Waiting
<1>4. \A t \in Sessions : Sole(t)'
  <2>1. \A t \in Sessions : Sole(t)
    BY DEF WireInv
  <2> QED
    BY <1>3, <2>1, SoleKept
<1> QED
  BY <1>2, <1>4 DEF WireInv

\* The numbers of sizes.
LEMMA SizesAre == \A z \in SendSizes \cup AskSizes : z \in Nat
BY SizesAssumption

\* A response is written only when there is a box.
LEMMA Writing ==
    ASSUME WireInv, NEW s \in Sessions, Writes(s)
    PROVE  /\ Head(batch[s]).n \in 1 .. Len(sent[s])
           /\ 0 \notin Numbers(batch[s]) \cup Numbers(outbox[s]) /\ pBox[s] \in Randoms
           /\ Head(batch[s]).size = sent[s][Head(batch[s]).n].size
           /\ sent[s][Head(batch[s]).n] \in Sents
<1>1. batch[s] # <<>> /\ Head(batch[s]).kind = "response"
  BY DEF Writes
<1>2. PICK m : m = Head(batch[s])
  OBVIOUS
<1>3. /\ m \in Waiting(s) /\ m \in NetMessages /\ m.n \in 0 .. Len(sent[s])
      /\ Numbers(batch[s]) = Numbers(Tail(batch[s])) \cup {m.n}
      /\ \A n \in Numbers(Tail(batch[s])) \cup Numbers(outbox[s]) : m.n < n
  BY <1>1, <1>2, FirstOfBatch
<1>4. Pending(s) /\ Started(s) /\ pBox[s] \in Randoms \cup {NoRandoms} /\ sent[s] \in Seq(Sents)
  BY DEF WireInv, SessionInv, WireTypes
<1>5. m.n # 0
  BY <1>1, <1>2, <1>3, <1>4 DEF Pending
<1>6. m.n \in 1 .. Len(sent[s]) /\ m.n > 0
  BY <1>3, <1>5
<1>7. 0 \notin Numbers(batch[s]) \cup Numbers(outbox[s])
  BY <1>3, <1>6
<1>8. pBox[s] \in Randoms
  BY <1>4, <1>7 DEF Started
<1>9. m.size = sent[s][m.n].size
  BY <1>3, <1>4, <1>6 DEF Pending
<1> QED
  BY <1>2, <1>4, <1>6, <1>7, <1>8, <1>9

\* A session that begins no encryption, and that has no more messages waiting than before.
LEMMA FreshKept ==
    ASSUME NEW s \in Sessions, Fresh(s), Waiting(s)' \subseteq Waiting(s),
           phase[s] = "read", phase'[s] = "read", vectors' = vectors, sent'[s] = sent[s]
    PROVE  Fresh(s)'
BY DEF Fresh, Own

\* The messages found together are posted to the I/O thread.
LEMMA PostStep ==
    ASSUME WireInv, NEW s \in Sessions, PostMessageList(s)
    PROVE  WireInv'
<1>1. WireTypes /\ SessionInv(s)
  BY DEF WireInv
<1>2. PICK k \in 1 .. Len(outbox[s]) :
        /\ batch' = [batch EXCEPT ![s] = SubSeq(outbox[s], 1, k)]
        /\ outbox' = [outbox EXCEPT ![s] = SubSeq(@, k + 1, Len(@))]
  BY DEF PostMessageList
<1>3. batch[s] = <<>> /\ UNCHANGED <<vectors, phase, byte, pBox, down, up, client, sent, heard>>
  BY DEF PostMessageList
<1>4. PICK o, u, v : o = outbox[s] /\ u = SubSeq(o, 1, k) /\ v = SubSeq(o, k + 1, Len(o))
  OBVIOUS
<1>5. o \in Seq(NetMessages) /\ k \in 1 .. Len(o)
  BY <1>1, <1>4 DEF WireTypes
<1>6. /\ u \in Seq(NetMessages) /\ v \in Seq(NetMessages) /\ ToSet(o) = ToSet(u) \cup ToSet(v)
      /\ Numbers(o) = Numbers(u) \cup Numbers(v)
  BY <1>4, <1>5, NumbersSplit
<1>7. batch'[s] = u /\ outbox'[s] = v
  BY <1>1, <1>2, <1>4 DEF WireTypes
<1>8. WireTypes'
  <2>1. batch' \in [Sessions -> Seq(NetMessages)] /\ outbox' \in [Sessions -> Seq(NetMessages)]
    BY <1>1, <1>2, <1>4, <1>6 DEF WireTypes
  <2> QED
    BY <1>1, <1>3, <2>1 DEF WireTypes, client
<1>9. Waiting(s)' = Waiting(s)
  BY <1>3, <1>4, <1>6, <1>7, NumbersNone DEF Waiting
<1>10. phase[s] = "read"
  BY <1>1, <1>3 DEF SessionInv, Pending, Writes
<1>11. Sequenced(s)'
  <2>1. InOrder(got[s], down[s], <<>>, o, Len(sent[s]))
    BY <1>1, <1>3, <1>4 DEF SessionInv, Sequenced
  <2>2. InOrder(got[s], down[s], u, v, Len(sent[s]))
    BY <1>4, <1>5, <2>1, OrderPosted
  <2> QED
    BY <1>3, <1>7, <2>2 DEF Sequenced, client
<1>12. Numbers(batch[s]) \cup Numbers(outbox[s]) = Numbers(batch'[s]) \cup Numbers(outbox'[s])
  BY <1>3, <1>4, <1>6, <1>7, NumbersNone
<1>13. Started(s)'
  BY <1>1, <1>3, <1>12 DEF SessionInv, Started, client
<1>14. Pending(s)'
  BY <1>1, <1>3, <1>9, <1>10 DEF SessionInv, Pending
<1>15. Fresh(s)'
  BY <1>1, <1>3, <1>9, <1>10, FreshKept DEF SessionInv
<1>16. Coming(s)' /\ Asking(s)'
  BY <1>1, <1>3 DEF SessionInv, Coming, Asking, Encrypted, client
<1>17. Whole(s)'
  BY <1>1, <1>3, <1>12 DEF SessionInv, Whole, Short, client
<1>18. SessionInv(s)'
  BY <1>11, <1>13, <1>14, <1>15, <1>16, <1>17 DEF SessionInv
<1>19. \A t \in Sessions : t # s => outbox'[t] = outbox[t] /\ batch'[t] = batch[t]
  BY <1>1, <1>2 DEF WireTypes
<1>20. Len(vectors) <= Len(vectors')
  BY <1>1, <1>3 DEF WireTypes
<1> QED
  BY <1>3, <1>8, <1>9, <1>18, <1>19, <1>20, OneMoves DEF client

\* A message that is too large takes its batch with it.
LEMMA TooLargeStep ==
    ASSUME WireInv, NEW s \in Sessions, WriteTooLarge(s)
    PROVE  WireInv'
<1>1. WireTypes /\ SessionInv(s)
  BY DEF WireInv
<1>2. /\ Writes(s) /\ Head(batch[s]).size > MaxSize /\ batch' = [batch EXCEPT ![s] = <<>>]
      /\ UNCHANGED <<vectors, outbox, phase, byte, pBox, down, up, client, sent, heard>>
  BY DEF WriteTooLarge
<1>3. PICK n \in 1 .. Len(sent[s]) : n = Head(batch[s]).n
  BY <1>2, Writing
<1>4. /\ 0 \notin Numbers(batch[s]) \cup Numbers(outbox[s]) /\ pBox[s] \in Randoms
      /\ Head(batch[s]).size = sent[s][n].size /\ sent[s][n] \in Sents
  BY <1>2, <1>3, Writing
<1>5. batch'[s] = <<>>
  BY <1>1, <1>2 DEF WireTypes
<1>6. WireTypes'
  <2>1. batch' \in [Sessions -> Seq(NetMessages)]
    <3>1. <<>> \in Seq(NetMessages)
      OBVIOUS
    <3> QED
      BY <1>1, <1>2, <3>1 DEF WireTypes
  <2> QED
    BY <1>1, <1>2, <2>1 DEF WireTypes, client
<1>7. Waiting(s)' \subseteq Waiting(s)
  BY <1>2, <1>5, NumbersNone DEF Waiting
<1>8. phase[s] = "read"
  <2>1. Head(batch[s]).size \in Nat
    BY <1>4 DEF Sents
  <2>2. ~(Head(batch[s]).size <= MaxSize)
    BY <1>2, <2>1 DEF MaxSize
  <2> QED
    BY <1>1, <2>2 DEF SessionInv, Pending
<1>9. Sequenced(s)'
  <2>1. InOrder(got[s], down[s], <<>>, outbox[s], Len(sent[s]))
    BY <1>1, OrderDropped DEF SessionInv, Sequenced
  <2> QED
    BY <1>2, <1>5, <2>1 DEF Sequenced, client
<1>10. Started(s)'
  <2>1. 0 \notin Numbers(batch'[s]) \cup Numbers(outbox'[s])
    BY <1>2, <1>4, <1>5, NumbersNone
  <2>2. pBox'[s] # NoRandoms
    BY <1>2, <1>4, BoxesUndone
  <2> QED
    BY <1>1, <1>2, <2>1, <2>2 DEF SessionInv, Started, client
<1>11. Pending(s)'
  BY <1>1, <1>2, <1>7, <1>8 DEF SessionInv, Pending
<1>12. Fresh(s)'
  BY <1>1, <1>2, <1>7, <1>8, FreshKept DEF SessionInv
<1>13. Coming(s)' /\ Asking(s)'
  BY <1>1, <1>2 DEF SessionInv, Coming, Asking, Encrypted, client
<1>14. Whole(s)'
  <2>1. sent[s][n].size \in Nat
    BY <1>4 DEF Sents
  <2>2. Negative(sent[s][n].size)
    BY <1>2, <1>4, <2>1 DEF Negative, MaxSize
  <2>3. n \in DOMAIN sent[s]
    BY <1>1 DEF WireTypes
  <2>4. ~Short(s)
    BY <2>2, <2>3 DEF Short
  <2> QED
    BY <1>1, <1>2, <2>4 DEF Whole, Short
<1>15. SessionInv(s)'
  BY <1>9, <1>10, <1>11, <1>12, <1>13, <1>14 DEF SessionInv
<1>16. \A t \in Sessions : t # s => batch'[t] = batch[t]
  BY <1>1, <1>2 DEF WireTypes
<1>17. Len(vectors) <= Len(vectors')
  BY <1>1, <1>2 DEF WireTypes
<1> QED
  BY <1>2, <1>6, <1>7, <1>15, <1>16, <1>17, OneMoves DEF client

\* A frame more.
LEMMA Framed ==
    ASSUME NEW d \in Seq(Frames), NEW f \in Frames
    PROVE  /\ Append(d, f) \in Seq(Frames) /\ ToSet(Append(d, f)) = ToSet(d) \cup {f}
           /\ Numbers(Append(d, f)) = Numbers(d) \cup {f.n}
<1>1. Append(d, f) \in Seq(Frames)
  OBVIOUS
<1>2. /\ Numbers(Append(d, f)) = Numbers(d) \cup {f.n}
      /\ ToSet(Append(d, f)) = ToSet(d) \cup {f}
      /\ Rising(d) /\ Below(Numbers(d), {f.n}) => Rising(Append(d, f))
  BY NumbersAppended
<1> QED
  BY <1>1, <1>2

\* Header and message go into the buffer.
LEMMA HeadInserted ==
    ASSUME WireInv, NEW s \in Sessions, batch[s] # <<>>, NEW f \in Frames, f.n = Head(batch[s]).n,
           down' = [down EXCEPT ![s] = Append(@, f)], batch' = [batch EXCEPT ![s] = Tail(@)],
           UNCHANGED <<outbox, sent, got, table, broken>>
    PROVE  /\ down' \in [Sessions -> Seq(Frames)] /\ batch' \in [Sessions -> Seq(NetMessages)]
           /\ Sequenced(s)' /\ Whole(s)'
           /\ Waiting(s)' \subseteq Waiting(s) /\ \A m \in Waiting(s)' : f.n < m.n
           /\ ToSet(down'[s]) = ToSet(down[s]) \cup {f}
           /\ Numbers(down'[s]) = Numbers(down[s]) \cup {f.n}
           /\ Numbers(batch[s]) = Numbers(batch'[s]) \cup {f.n}
           /\ \A n \in Numbers(batch'[s]) \cup Numbers(outbox'[s]) : f.n < n
           /\ \A t \in Sessions : t # s => down'[t] = down[t] /\ batch'[t] = batch[t]
<1>1. WireTypes /\ SessionInv(s)
  BY DEF WireInv
<1>2. PICK b, c, d : b = batch[s] /\ c = Tail(b) /\ d = down[s]
  OBVIOUS
<1>3. b \in Seq(NetMessages) /\ d \in Seq(Frames)
  BY <1>1, <1>2 DEF WireTypes
<1>4. /\ c \in Seq(NetMessages) /\ ToSet(c) \subseteq ToSet(b)
      /\ Numbers(b) = Numbers(c) \cup {f.n}
      /\ \A n \in Numbers(c) \cup Numbers(outbox[s]) : f.n < n
  BY <1>2, FirstOfBatch
<1>5. PICK e : e = Append(d, f)
  OBVIOUS
<1>6. e \in Seq(Frames) /\ ToSet(e) = ToSet(d) \cup {f} /\ Numbers(e) = Numbers(d) \cup {f.n}
  BY <1>3, <1>5, Framed
<1>7. down'[s] = e /\ batch'[s] = c
  BY <1>1, <1>2, <1>5 DEF WireTypes
<1>8. down' \in [Sessions -> Seq(Frames)] /\ batch' \in [Sessions -> Seq(NetMessages)]
  BY <1>1, <1>2, <1>4, <1>5, <1>6 DEF WireTypes
<1>9. Sequenced(s)'
  <2>1. InOrder(got[s], d, b, outbox[s], Len(sent[s]))
    BY <1>1, <1>2 DEF SessionInv, Sequenced
  <2>2. InOrder(got[s], e, c, outbox[s], Len(sent[s]))
    BY <1>2, <1>3, <1>5, <2>1, OrderInserted
  <2> QED
    BY <1>7, <2>2 DEF Sequenced
<1>10. Whole(s)'
  BY <1>1, <1>2, <1>4, <1>6, <1>7 DEF SessionInv, Whole, Short
<1>11. Waiting(s)' = ToSet(outbox[s]) \cup ToSet(c)
  BY <1>7 DEF Waiting
<1>12. Waiting(s)' \subseteq Waiting(s)
  BY <1>2, <1>4, <1>11 DEF Waiting
<1>13. \A m \in Waiting(s)' : f.n < m.n
  BY <1>4, <1>11, InNumbers
<1>14. \A t \in Sessions : t # s => down'[t] = down[t] /\ batch'[t] = batch[t]
  BY <1>1 DEF WireTypes
<1> QED
  BY <1>2, <1>4, <1>6, <1>7, <1>8, <1>9, <1>10, <1>12, <1>13, <1>14

\* The challenge is written: the session gets its box.
LEMMA ChallengeStep ==
    ASSUME WireInv, NEW s \in Sessions, WriteChallenge(s)
    PROVE  WireInv'
<1>1. WireTypes /\ SessionInv(s)
  BY DEF WireInv
<1>2. PICK r \in Randoms :
        /\ pBox' = [pBox EXCEPT ![s] = r]
        /\ Inserted(s, Head(batch[s]), Head(batch[s]).data, r)
  BY DEF WriteChallenge
<1>3. /\ batch[s] # <<>> /\ Head(batch[s]).kind = "challenge"
      /\ UNCHANGED <<vectors, outbox, phase, byte, up, table, broken, got, asked, sent, heard>>
  BY DEF WriteChallenge, client
<1>4. PICK m : m = Head(batch[s])
  OBVIOUS
<1>5. /\ m \in NetMessages /\ m \in Waiting(s) /\ m.n \in 0 .. Len(sent[s])
      /\ Numbers(batch[s]) = Numbers(Tail(batch[s])) \cup {m.n}
  BY <1>3, <1>4, FirstOfBatch
<1>6. m.n = 0
  <2>1. m.n > 0 => m.kind = "response"
    BY <1>1, <1>5 DEF SessionInv, Pending
  <2> QED
    BY <1>3, <1>4, <1>5, <2>1
<1>7. m.size = 5 /\ m.data = 0
  BY <1>1, <1>5, <1>6 DEF SessionInv, Pending
<1>8. PICK f : f = [size |-> m.size, n |-> m.n, text |-> m.data, randoms |-> r]
  OBVIOUS
<1>9. f \in Frames /\ f.n = 0 /\ f.randoms = r
  <2>1. 0 \in Bytes /\ 0 \in Nat /\ 5 \in Nat
    BY DEF Bytes
  <2> QED
    BY <1>6, <1>7, <1>8, <2>1 DEF Frames
<1>10. down' = [down EXCEPT ![s] = Append(@, f)] /\ batch' = [batch EXCEPT ![s] = Tail(@)]
  BY <1>2, <1>4, <1>8 DEF Inserted
<1>11. /\ down' \in [Sessions -> Seq(Frames)] /\ batch' \in [Sessions -> Seq(NetMessages)]
       /\ Sequenced(s)' /\ Whole(s)'
       /\ Waiting(s)' \subseteq Waiting(s)
       /\ ToSet(down'[s]) = ToSet(down[s]) \cup {f} /\ Numbers(down'[s]) = Numbers(down[s]) \cup {f.n}
       /\ \A n \in Numbers(batch'[s]) \cup Numbers(outbox'[s]) : f.n < n
       /\ \A t \in Sessions : t # s => down'[t] = down[t] /\ batch'[t] = batch[t]
  BY <1>3, <1>4, <1>6, <1>9, <1>10, HeadInserted
<1>12. pBox'[s] = r /\ \A t \in Sessions : t # s => pBox'[t] = pBox[t]
  BY <1>1, <1>2 DEF WireTypes
<1>13. WireTypes'
  <2>1. pBox' \in [Sessions -> Randoms \cup {NoRandoms}]
    BY <1>1, <1>2 DEF WireTypes
  <2> QED
    BY <1>1, <1>3, <1>11, <2>1 DEF WireTypes
<1>14. pBox[s] = NoRandoms /\ table[s] = NoRandoms
  <2>1. 0 \in Numbers(batch[s])
    BY <1>5, <1>6
  <2> QED
    BY <1>1, <2>1 DEF SessionInv, Started
<1>15. down[s] = <<>> \/ Numbers(down[s]) = {}
  <2>1. Below(Numbers(down[s]), Numbers(batch[s])) /\ Numbers(down[s]) \subseteq 0 .. Len(sent[s])
    BY <1>1 DEF SessionInv, Sequenced, InOrder, Below
  <2> QED
    BY <1>5, <1>6, <2>1 DEF Below
<1>16. ToSet(down[s]) = {}
  <2>1. Numbers(<<>>) = {}
    BY NumbersNone
  <2> QED
    BY <1>15, <2>1, InNumbers
<1>17. Started(s)'
  <2>1. r # NoRandoms
    BY BoxesUndone
  <2>2. 0 \notin Numbers(batch'[s]) \cup Numbers(outbox'[s])
    BY <1>9, <1>11
  <2>3. 0 \in Numbers(down'[s])
    BY <1>9, <1>11
  <2> QED
    BY <1>1, <1>3, <1>12, <1>14, <2>1, <2>2, <2>3 DEF SessionInv, Started
<1>18. phase[s] = "read"
  BY <1>1, <1>3 DEF SessionInv, Pending, Writes
<1>19. Pending(s)'
  BY <1>1, <1>3, <1>11, <1>18 DEF SessionInv, Pending
<1>20. Fresh(s)'
  BY <1>1, <1>3, <1>11, <1>18, FreshKept DEF SessionInv
<1>21. Coming(s)'
  <2>1. \A e \in ToSet(down'[s]) : e = f
    BY <1>11, <1>16
  <2>2. got'[s] = <<>> /\ ToSet(got'[s]) = {}
    BY <1>1, <1>3, <1>14, NumbersNone DEF SessionInv, Started
  <2> QED
    BY <1>9, <1>12, <2>1, <2>2 DEF Coming
<1>22. Asking(s)'
  BY <1>1, <1>3 DEF SessionInv, Asking
<1>23. SessionInv(s)'
  BY <1>11, <1>17, <1>19, <1>20, <1>21, <1>22 DEF SessionInv
<1>24. Len(vectors) <= Len(vectors')
  BY <1>1, <1>3 DEF WireTypes
<1> QED
  BY <1>3, <1>11, <1>12, <1>13, <1>23, <1>24, OneMoves

\* A response is inserted, encrypted once.
LEMMA ResponseInserted ==
    ASSUME WireInv, NEW s \in Sessions, Writes(s), NEW f \in Frames,
           f.n = Head(batch[s]).n, f.size = Head(batch[s]).size,
           LET m == sent[s][Head(batch[s]).n] IN
             ~(m.shared /\ IsDynamic(m)) => f.text = Encrypted(s, m.text),
           down' = [down EXCEPT ![s] = Append(@, f)], batch' = [batch EXCEPT ![s] = Tail(@)],
           UNCHANGED <<vectors, outbox, byte, pBox, up, table, broken, got, asked, sent, heard>>,
           phase' \in [Sessions -> {"read", "write", "insert"}], phase'[s] = "read",
           \A t \in Sessions : t # s => phase'[t] = phase[t],
           Fresh(s)'
    PROVE  WireInv'
<1>1. WireTypes /\ SessionInv(s)
  BY DEF WireInv
<1>2. batch[s] # <<>>
  BY DEF Writes
<1>3. PICK n \in 1 .. Len(sent[s]) : n = Head(batch[s]).n
  BY Writing
<1>4. /\ 0 \notin Numbers(batch[s]) \cup Numbers(outbox[s]) /\ pBox[s] \in Randoms
      /\ Head(batch[s]).size = sent[s][n].size
  BY <1>3, Writing
<1>5. f.n = n /\ n \in Nat /\ n # 0
  BY <1>3
<1>6. /\ down' \in [Sessions -> Seq(Frames)] /\ batch' \in [Sessions -> Seq(NetMessages)]
      /\ Sequenced(s)' /\ Whole(s)'
      /\ Waiting(s)' \subseteq Waiting(s)
      /\ ToSet(down'[s]) = ToSet(down[s]) \cup {f} /\ Numbers(down'[s]) = Numbers(down[s]) \cup {f.n}
      /\ Numbers(batch[s]) = Numbers(batch'[s]) \cup {f.n}
      /\ \A t \in Sessions : t # s => down'[t] = down[t] /\ batch'[t] = batch[t]
  BY <1>2, HeadInserted
<1>7. WireTypes'
  BY <1>1, <1>6 DEF WireTypes
<1>8. Started(s)'
  <2>1. 0 \notin Numbers(batch'[s]) \cup Numbers(outbox'[s])
    BY <1>4, <1>6
  <2>2. pBox'[s] # NoRandoms /\ pBox[s] # NoRandoms
    BY <1>4, BoxesUndone
  <2>3. 0 \in Numbers(down'[s]) <=> 0 \in Numbers(down[s])
    BY <1>5, <1>6
  <2> QED
    BY <1>1, <2>1, <2>2, <2>3 DEF SessionInv, Started
<1>9. Pending(s)'
  BY <1>1, <1>6 DEF SessionInv, Pending
<1>10. Coming(s)'
  <2>1. \A e \in ToSet(down[s]) :
          /\ e.n = 0 => e.randoms = pBox[s]
          /\ e.n > 0 => /\ e.size = sent[s][e.n].size
                        /\ ~(sent[s][e.n].shared /\ IsDynamic(sent[s][e.n])) =>
                             e.text = Encrypted(s, sent[s][e.n].text)
    BY <1>1 DEF SessionInv, Coming
  <2>2. /\ f.size = sent[s][f.n].size
        /\ ~(sent[s][f.n].shared /\ IsDynamic(sent[s][f.n])) =>
             f.text = Encrypted(s, sent[s][f.n].text)
    BY <1>3, <1>4, <1>5
  <2>3. \A e \in ToSet(got[s]) : ~(sent[s][e.n].shared /\ IsDynamic(sent[s][e.n])) =>
          e.text = sent[s][e.n].text
    BY <1>1 DEF SessionInv, Coming
  <2> QED
    BY <1>5, <1>6, <2>1, <2>2, <2>3 DEF Coming, Encrypted
<1>11. Asking(s)'
  BY <1>1 DEF SessionInv, Asking
<1>12. SessionInv(s)'
  BY <1>6, <1>8, <1>9, <1>10, <1>11 DEF SessionInv
<1>13. Len(vectors) <= Len(vectors')
  BY <1>1 DEF WireTypes
<1> QED
  BY <1>6, <1>7, <1>12, <1>13, OneMoves

\* A short message has its own bytes.
LEMMA StaticStep ==
    ASSUME WireInv, NEW s \in Sessions, WriteStatic(s)
    PROVE  WireInv'
<1>1. WireTypes /\ SessionInv(s)
  BY DEF WireInv
<1>2. /\ Writes(s) /\ ~IsDynamic(Head(batch[s])) /\ batch[s] # <<>>
      /\ Inserted(s, Head(batch[s]), Encrypted(s, Head(batch[s]).data), NoRandoms)
      /\ UNCHANGED <<vectors, outbox, phase, byte, pBox, up, table, broken, got, asked, sent, heard>>
  BY DEF WriteStatic, client, Writes
<1>3. PICK m : m = Head(batch[s])
  OBVIOUS
<1>4. m \in NetMessages /\ m \in Waiting(s)
  BY <1>2, <1>3, FirstOfBatch
<1>5. /\ m.n \in 1 .. Len(sent[s]) /\ pBox[s] \in Randoms /\ sent[s][m.n] \in Sents
  BY <1>2, <1>3, Writing
<1>6. m.n > 0 /\ m.data = sent[s][m.n].text /\ m.data \in Bytes /\ m.n \in Nat /\ m.size \in Nat
  <2>1. m.n > 0
    BY <1>5
  <2>2. m.data = sent[s][m.n].text
    BY <1>1, <1>2, <1>3, <1>4, <2>1 DEF SessionInv, Pending
  <2> QED
    BY <1>4, <1>5, <2>1, <2>2 DEF Sents, NetMessages
<1>7. PICK f : f = [size |-> m.size, n |-> m.n, text |-> Encrypted(s, m.data), randoms |-> NoRandoms]
  OBVIOUS
<1>8. f \in Frames /\ f.n = m.n /\ f.size = m.size /\ f.text = Encrypted(s, sent[s][m.n].text)
  <2>1. Encrypted(s, m.data) \in Bytes
    BY <1>5, <1>6, BoxesUndone DEF Encrypted
  <2> QED
    BY <1>6, <1>7, <2>1 DEF Frames
<1>9. down' = [down EXCEPT ![s] = Append(@, f)] /\ batch' = [batch EXCEPT ![s] = Tail(@)]
  BY <1>2, <1>3, <1>7 DEF Inserted
<1>10. phase[s] = "read" /\ phase'[s] = "read"
  BY <1>1, <1>2 DEF SessionInv, Pending
<1>11. Fresh(s)'
  <2>1. Waiting(s)' \subseteq Waiting(s)
    BY <1>2, <1>3, <1>8, <1>9, HeadInserted
  <2> QED
    BY <1>1, <1>2, <1>10, <2>1, FreshKept DEF SessionInv
<1>12. phase' \in [Sessions -> {"read", "write", "insert"}]
  BY <1>1, <1>2 DEF WireTypes
<1> QED
  BY <1>2, <1>3, <1>8, <1>9, <1>10, <1>11, <1>12, ResponseInserted

\* The first message of the batch has a vector.
LEMMA Encrypting ==
    ASSUME WireInv, NEW s \in Sessions, Writes(s), IsDynamic(Head(batch[s]))
    PROVE  /\ Head(batch[s]).data \in DOMAIN vectors /\ vectors[Head(batch[s]).data] \in Bytes
           /\ Head(batch[s]).n > 0 /\ Head(batch[s]) \in Waiting(s)
<1>1. WireTypes /\ SessionInv(s) /\ batch[s] # <<>>
  BY DEF WireInv, Writes
<1>2. PICK m : m = Head(batch[s])
  OBVIOUS
<1>3. m \in Waiting(s) /\ m.n > 0
  BY <1>1, <1>2, FirstOfBatch, Writing
<1>4. m.data \in DOMAIN vectors
  BY <1>1, <1>2, <1>3 DEF SessionInv, Pending
<1> QED
  BY <1>1, <1>2, <1>3, <1>4 DEF WireTypes

\* A byte is read to be encrypted.
LEMMA ReadsStep ==
    ASSUME WireInv, NEW s \in Sessions, EncryptReads(s)
    PROVE  WireInv'
<1>1. WireTypes /\ SessionInv(s)
  BY DEF WireInv
<1>2. /\ Writes(s) /\ IsDynamic(Head(batch[s])) /\ Head(batch[s]).size <= MaxSize /\ phase[s] = "read"
      /\ byte' = [byte EXCEPT ![s] = vectors[Head(batch[s]).data]]
      /\ phase' = [phase EXCEPT ![s] = "write"]
      /\ UNCHANGED <<vectors, outbox, batch, pBox, down, up, table, broken, got, asked, sent, heard>>
  BY DEF EncryptReads, Dynamic, client
<1>3. PICK v \in Bytes : v = vectors[Head(batch[s]).data]
  BY <1>2, Encrypting
<1>4. byte'[s] = v /\ phase'[s] = "write"
      /\ \A t \in Sessions : t # s => byte'[t] = byte[t] /\ phase'[t] = phase[t]
  BY <1>1, <1>2, <1>3 DEF WireTypes
<1>5. WireTypes'
  <2>1. /\ byte' \in [Sessions -> Bytes \cup {NoByte}]
        /\ phase' \in [Sessions -> {"read", "write", "insert"}]
    BY <1>1, <1>2, <1>3 DEF WireTypes
  <2> QED
    BY <1>1, <1>2, <2>1 DEF WireTypes
<1>6. Waiting(s)' = Waiting(s)
  BY <1>2 DEF Waiting
<1>7. Sequenced(s)' /\ Started(s)' /\ Coming(s)' /\ Asking(s)' /\ Whole(s)'
  BY <1>1, <1>2 DEF SessionInv, Sequenced, Started, Coming, Asking, Whole, Short, Encrypted
<1>8. Pending(s)'
  BY <1>1, <1>2, <1>4, <1>6 DEF SessionInv, Pending, Writes
<1>9. Fresh(s)'
  BY <1>1, <1>2, <1>3, <1>4, <1>6 DEF SessionInv, Fresh, Own
<1>10. SessionInv(s)' /\ Len(vectors) <= Len(vectors')
  BY <1>1, <1>2, <1>7, <1>8, <1>9 DEF SessionInv, WireTypes
<1> QED
  BY <1>2, <1>4, <1>5, <1>6, <1>10, OneMoves

\* The encrypted byte is written back: no vector of another message is touched, unless it is
\* shared.
LEMMA WritesStep ==
    ASSUME WireInv, NEW s \in Sessions, EncryptWrites(s)
    PROVE  WireInv'
<1>1. WireTypes /\ SessionInv(s)
  BY DEF WireInv
<1>2. /\ Writes(s) /\ IsDynamic(Head(batch[s])) /\ Head(batch[s]).size <= MaxSize /\ phase[s] = "write"
      /\ vectors' = [vectors EXCEPT ![Head(batch[s]).data] = Encrypted(s, byte[s])]
      /\ byte' = [byte EXCEPT ![s] = NoByte]
      /\ phase' = [phase EXCEPT ![s] = "insert"]
      /\ UNCHANGED <<outbox, batch, pBox, down, up, table, broken, got, asked, sent, heard>>
  BY DEF EncryptWrites, Dynamic, client
<1>3. PICK m : m = Head(batch[s])
  OBVIOUS
<1>4. /\ m.data \in DOMAIN vectors /\ m.n > 0 /\ m \in Waiting(s) /\ IsDynamic(m)
  BY <1>2, <1>3, Encrypting
<1>5. byte[s] \in Bytes /\ pBox[s] \in Randoms
  BY <1>1, <1>2, Writing DEF SessionInv, Pending
<1>6. PICK v \in Bytes : v = Encrypted(s, byte[s])
  BY <1>5, BoxesUndone DEF Encrypted
<1>7. /\ vectors' \in Seq(Bytes) /\ Len(vectors') = Len(vectors) /\ vectors'[m.data] = v
      /\ \A i \in DOMAIN vectors : i # m.data => vectors'[i] = vectors[i]
  BY <1>1, <1>2, <1>3, <1>4, <1>6 DEF WireTypes
<1>8. phase'[s] = "insert"
      /\ \A t \in Sessions : t # s => byte'[t] = byte[t] /\ phase'[t] = phase[t]
  BY <1>1, <1>2 DEF WireTypes
<1>9. WireTypes'
  <2>1. /\ byte' \in [Sessions -> Bytes \cup {NoByte}]
        /\ phase' \in [Sessions -> {"read", "write", "insert"}]
    BY <1>1, <1>2 DEF WireTypes
  <2> QED
    BY <1>1, <1>2, <1>7, <2>1 DEF WireTypes
<1>10. Waiting(s)' = Waiting(s)
  BY <1>2 DEF Waiting
<1>11. ASSUME NEW t \in Sessions, NEW l \in Waiting(t), Own(t, l), l.data = m.data
       PROVE  t = s /\ l = m
  <2>1. Sole(t)
    BY DEF WireInv
  <2>2. t = s /\ l.n = m.n
    BY <1>4, <1>11, <2>1 DEF Sole
  <2>3. \A x \in Waiting(s) : x # m => x.n \in Numbers(Tail(batch[s])) \cup Numbers(outbox[s])
    <3>1. batch[s] # <<>>
      BY <1>2 DEF Writes
    <3>2. ToSet(batch[s]) = ToSet(Tail(batch[s])) \cup {m}
      BY <1>3, <3>1, FirstOfBatch
    <3> QED
      BY <3>2, InNumbers DEF Waiting
  <2>4. \A n \in Numbers(Tail(batch[s])) \cup Numbers(outbox[s]) : m.n < n
    <3>1. batch[s] # <<>>
      BY <1>2 DEF Writes
    <3> QED
      BY <1>3, <3>1, FirstOfBatch
  <2>5. m.n \in Nat
    <3>1. batch[s] # <<>>
      BY <1>2 DEF Writes
    <3>2. m \in NetMessages
      BY <1>3, <3>1, FirstOfBatch
    <3> QED
      BY <3>2 DEF NetMessages
  <2> QED
    BY <1>11, <2>2, <2>3, <2>4, <2>5
<1>12. \A t \in Sessions : \A l \in Waiting(t) : 
         Own(t, l) /\ ~(t = s /\ l = m) => vectors'[l.data] = vectors[l.data]
  <2> TAKE t \in Sessions
  <2> TAKE l \in Waiting(t)
  <2> HAVE Own(t, l) /\ ~(t = s /\ l = m)
  <2>1. l.data # m.data
    BY <1>11
  <2>2. l.data \in DOMAIN vectors
    <3>1. Pending(t)
      BY DEF WireInv, SessionInv
    <3> QED
      BY <3>1 DEF Pending, Own
  <2> QED
    BY <1>7, <2>1, <2>2
<1>13. Sequenced(s)' /\ Started(s)' /\ Coming(s)' /\ Asking(s)' /\ Whole(s)'
  BY <1>1, <1>2 DEF SessionInv, Sequenced, Started, Coming, Asking, Whole, Short, Encrypted
<1>14. Pending(s)'
  <2>1. DOMAIN vectors' = DOMAIN vectors
    BY <1>1, <1>7 DEF WireTypes
  <2> QED
    BY <1>1, <1>2, <1>8, <1>10, <2>1 DEF SessionInv, Pending, Writes
<1>15. Fresh(s)'
  <2> SUFFICES ASSUME NEW l \in Waiting(s), Own(s, l)
               PROVE  vectors'[l.data] = IF l = m THEN Encrypted(s, sent[s][l.n].text)
                                         ELSE sent[s][l.n].text
    BY <1>2, <1>3, <1>8, <1>10 DEF Fresh, Own, Encrypted
  <2>1. Fresh(s)
    BY <1>1 DEF SessionInv
  <2>2. CASE l = m
    <3>1. byte[s] = sent[s][l.n].text
      BY <1>2, <1>3, <2>1, <2>2 DEF Fresh
    <3> QED
      BY <1>6, <1>7, <2>2, <3>1
  <2>3. CASE l # m
    <3>1. vectors[l.data] = sent[s][l.n].text
      BY <1>2, <2>1, <2>3 DEF Fresh
    <3> QED
      BY <1>12, <2>3, <3>1
  <2> QED
    BY <2>2, <2>3
<1>16. SessionInv(s)' /\ Len(vectors) <= Len(vectors')
  BY <1>1, <1>7, <1>13, <1>14, <1>15 DEF SessionInv, WireTypes
<1> QED
  BY <1>2, <1>8, <1>9, <1>10, <1>12, <1>16, OneMoves

\* The vector is inserted.
LEMMA InsertStep ==
    ASSUME WireInv, NEW s \in Sessions, InsertDynamic(s)
    PROVE  WireInv'
<1>1. WireTypes /\ SessionInv(s)
  BY DEF WireInv
<1>2. /\ Writes(s) /\ IsDynamic(Head(batch[s])) /\ phase[s] = "insert" /\ batch[s] # <<>>
      /\ Inserted(s, Head(batch[s]), vectors[Head(batch[s]).data], NoRandoms)
      /\ phase' = [phase EXCEPT ![s] = "read"]
      /\ UNCHANGED <<vectors, outbox, byte, pBox, up, table, broken, got, asked, sent, heard>>
  BY DEF InsertDynamic, Dynamic, client, Writes
<1>3. PICK m : m = Head(batch[s])
  OBVIOUS
<1>4. m \in NetMessages /\ m \in Waiting(s) /\ m.n > 0 /\ vectors[m.data] \in Bytes
  BY <1>2, <1>3, FirstOfBatch, Encrypting
<1>5. m.size = sent[s][m.n].size
  BY <1>2, <1>3, Writing
<1>6. PICK f : f = [size |-> m.size, n |-> m.n, text |-> vectors[m.data], randoms |-> NoRandoms]
  OBVIOUS
<1>7. f \in Frames /\ f.n = m.n /\ f.size = m.size /\ f.text = vectors[m.data]
  BY <1>4, <1>6 DEF Frames, NetMessages
<1>8. ~(sent[s][m.n].shared /\ IsDynamic(sent[s][m.n])) => f.text = Encrypted(s, sent[s][m.n].text)
  <2>1. IsDynamic(sent[s][m.n])
    BY <1>2, <1>3, <1>5 DEF IsDynamic
  <2>2. ASSUME ~sent[s][m.n].shared PROVE vectors[m.data] = Encrypted(s, sent[s][m.n].text)
    <3>1. Own(s, m)
      BY <1>2, <1>3, <1>4, <2>2 DEF Own
    <3> QED
      BY <1>1, <1>2, <1>3, <1>4, <3>1 DEF SessionInv, Fresh
  <2> QED
    BY <1>7, <2>1, <2>2
<1>9. down' = [down EXCEPT ![s] = Append(@, f)] /\ batch' = [batch EXCEPT ![s] = Tail(@)]
  BY <1>2, <1>3, <1>6 DEF Inserted
<1>10. phase'[s] = "read" /\ phase' \in [Sessions -> {"read", "write", "insert"}]
       /\ \A t \in Sessions : t # s => phase'[t] = phase[t]
  BY <1>1, <1>2 DEF WireTypes
<1>11. Fresh(s)'
  <2>1. Waiting(s)' \subseteq Waiting(s) /\ \A l \in Waiting(s)' : f.n < l.n
    BY <1>2, <1>3, <1>7, <1>9, HeadInserted
  <2>2. \A l \in Waiting(s)' : l # m
    <3>1. m.n \in Nat
      BY <1>4 DEF NetMessages
    <3> QED
      BY <1>7, <2>1, <3>1
  <2> QED
    BY <1>1, <1>2, <1>3, <1>10, <2>1, <2>2 DEF SessionInv, Fresh, Own
<1> QED
  BY <1>2, <1>3, <1>7, <1>8, <1>9, <1>10, <1>11, ResponseInserted

\* The requests a, of which h have been heard and u are on their way, written with a table.
Requests == [text : Bytes, size : Nat]
Heard(a, u, h, r) ==
    /\ Len(h) + Len(u) = Len(a)
    /\ \A i \in DOMAIN u : u[i] = [text |-> Tables[r][a[Len(h) + i].text], size |-> a[Len(h) + i].size]
    /\ \A i \in DOMAIN h : Decrypts(a[i].size) => h[i] = a[i].text

\* A request more.
LEMMA AskedMore ==
    ASSUME NEW a \in Seq(Requests), NEW u \in Seq(Requests), NEW h \in Seq(Bytes), NEW r,
           Heard(a, u, h, r),
           NEW x \in Requests, NEW y \in Requests, y = [text |-> Tables[r][x.text], size |-> x.size]
    PROVE  Heard(Append(a, x), Append(u, y), h, r)
<1>1. PICK i \in Nat, j \in Nat : i = Len(h) /\ j = Len(u)
  OBVIOUS
<1>2. Len(a) = i + j /\ DOMAIN h = 1 .. i /\ DOMAIN u = 1 .. j
  BY <1>1 DEF Heard
<1>3. PICK b, v : b = Append(a, x) /\ v = Append(u, y)
  OBVIOUS
<1>4. /\ Len(b) = i + j + 1 /\ b[i + j + 1] = x /\ \A k \in 1 .. i + j : b[k] = a[k]
      /\ Len(v) = j + 1 /\ DOMAIN v = 1 .. j + 1 /\ v[j + 1] = y /\ \A k \in 1 .. j : v[k] = u[k]
  BY <1>1, <1>2, <1>3
<1>5. ASSUME NEW k \in 1 .. j + 1
      PROVE  v[k] = [text |-> Tables[r][b[i + k].text], size |-> b[i + k].size]
  <2>1. CASE k = j + 1
    <3>1. i + k = i + j + 1
      BY <2>1
    <3> QED
      BY <1>4, <2>1, <3>1
  <2>2. CASE k # j + 1
    <3>1. k \in 1 .. j /\ i + k \in 1 .. i + j
      BY <2>2
    <3>2. u[k] = [text |-> Tables[r][a[i + k].text], size |-> a[i + k].size]
      BY <1>1, <1>2, <3>1 DEF Heard
    <3> QED
      BY <1>4, <3>1, <3>2
  <2> QED
    BY <2>1, <2>2
<1>6. ASSUME NEW k \in 1 .. i, Decrypts(b[k].size) PROVE h[k] = b[k].text
  <2>1. k \in 1 .. i + j
    OBVIOUS
  <2> QED
    BY <1>2, <1>4, <1>6, <2>1 DEF Heard
<1>7. i + (j + 1) = i + j + 1
  OBVIOUS
<1> QED
  BY <1>1, <1>2, <1>3, <1>4, <1>5, <1>6, <1>7 DEF Heard

\* What is behind the first.
LEMMA TailShorter ==
    ASSUME NEW X, NEW q \in Seq(X), NEW j \in Nat, Len(q) = j + 1
    PROVE  /\ Len(Tail(q)) = j /\ DOMAIN Tail(q) = 1 .. j
           /\ \A k \in 1 .. j : Tail(q)[k] = q[k + 1]
OBVIOUS

\* A request is heard.
LEMMA HeardMore ==
    ASSUME NEW a \in Seq(Requests), NEW u \in Seq(Requests), NEW h \in Seq(Bytes), NEW r \in Randoms,
           Heard(a, u, h, r), u # <<>>
    PROVE  /\ Head(u) \in Requests /\ Boxes[r][Head(u).text] \in Bytes
           /\ Heard(a, Tail(u), Append(h, IF Decrypts(Head(u).size) THEN Boxes[r][Head(u).text]
                                          ELSE Head(u).text), r)
<1>1. PICK i \in Nat, m \in Nat : i = Len(h) /\ m = Len(u)
  OBVIOUS
<1>2. m # 0
  BY <1>1, EmptySeq
<1>3. PICK j \in Nat : m = j + 1
  <2>1. m - 1 \in Nat
    BY <1>2
  <2> QED
    BY <2>1
<1>4. Len(a) = i + j + 1 /\ DOMAIN h = 1 .. i /\ DOMAIN u = 1 .. j + 1
  <2>1. Len(h) + Len(u) = Len(a)
    BY DEF Heard
  <2>2. Len(a) = i + m
    BY <1>1, <2>1
  <2>3. Len(a) = i + j + 1
    BY <1>3, <2>2
  <2>4. DOMAIN h = 1 .. i
    BY <1>1
  <2>5. DOMAIN u = 1 .. j + 1
    <3>1. DOMAIN u = 1 .. m
      BY <1>1
    <3> QED
      BY <1>3, <3>1
  <2> QED
    BY <2>3, <2>4, <2>5
<1>5. PICK y \in Requests : y = Head(u)
  BY <1>1, <1>3
<1>6. PICK x \in Requests : x = a[i + 1]
  <2>1. i + 1 \in 1 .. Len(a)
    BY <1>4
  <2> QED
    BY <2>1
<1>7. y = [text |-> Tables[r][x.text], size |-> x.size]
  <2>1. 1 \in 1 .. j + 1 /\ y = u[1]
    BY <1>1, <1>3, <1>5
  <2> QED
    BY <1>1, <1>4, <1>6, <2>1 DEF Heard
<1>8. y.text \in Bytes /\ x.text \in Bytes /\ Boxes[r][y.text] \in Bytes
      /\ Boxes[r][y.text] = x.text /\ y.size = x.size
  <2>1. y.text \in Bytes /\ x.text \in Bytes
    BY DEF Requests
  <2>2. y.text = Tables[r][x.text] /\ y.size = x.size
    BY <1>7
  <2> QED
    BY <2>1, <2>2, BoxesUndone
<1>9. PICK z \in Bytes : z = IF Decrypts(y.size) THEN Boxes[r][y.text] ELSE y.text
  BY <1>8
<1>10. PICK v, g : v = Tail(u) /\ g = Append(h, z)
  OBVIOUS
<1>11. /\ Len(v) = j /\ DOMAIN v = 1 .. j /\ \A k \in 1 .. j : v[k] = u[k + 1]
       /\ Len(g) = i + 1 /\ DOMAIN g = 1 .. i + 1 /\ g[i + 1] = z /\ \A k \in 1 .. i : g[k] = h[k]
  <2>1. Len(v) = j /\ DOMAIN v = 1 .. j /\ \A k \in 1 .. j : v[k] = u[k + 1]
    BY <1>1, <1>3, <1>10, TailShorter
  <2>2. Len(g) = i + 1 /\ DOMAIN g = 1 .. i + 1 /\ g[i + 1] = z /\ \A k \in 1 .. i : g[k] = h[k]
    BY <1>1, <1>10
  <2> QED
    BY <2>1, <2>2
<1>12. ASSUME NEW k \in 1 .. j
       PROVE  v[k] = [text |-> Tables[r][a[(i + 1) + k].text], size |-> a[(i + 1) + k].size]
  <2>1. k + 1 \in 1 .. j + 1 /\ i + (k + 1) = (i + 1) + k
    OBVIOUS
  <2>2. u[k + 1] = [text |-> Tables[r][a[i + (k + 1)].text], size |-> a[i + (k + 1)].size]
    BY <1>1, <1>4, <2>1 DEF Heard
  <2> QED
    BY <1>11, <2>1, <2>2
<1>13. ASSUME NEW k \in 1 .. i + 1, Decrypts(a[k].size) PROVE g[k] = a[k].text
  <2>1. CASE k = i + 1
    BY <1>6, <1>8, <1>9, <1>11, <1>13, <2>1
  <2>2. CASE k # i + 1
    <3>1. k \in 1 .. i
      BY <2>2
    <3> QED
      BY <1>4, <1>11, <1>13, <3>1 DEF Heard
  <2> QED
    BY <2>1, <2>2
<1>14. (i + 1) + j = i + j + 1
  OBVIOUS
<1>15. Heard(a, v, g, r)
  BY <1>4, <1>11, <1>12, <1>13, <1>14 DEF Heard
<1> QED
  BY <1>5, <1>8, <1>9, <1>10, <1>15

\* The first frame for the client.
LEMMA FirstFrame ==
    ASSUME WireInv, NEW s \in Sessions, down[s] # <<>>
    PROVE  /\ pBox[s] \in Randoms /\ Head(down[s]) \in Frames /\ Head(down[s]) \in ToSet(down[s])
           /\ Tail(down[s]) \in Seq(Frames)
           /\ ToSet(Tail(down[s])) \subseteq ToSet(down[s])
           /\ Numbers(down[s]) = Numbers(Tail(down[s])) \cup {Head(down[s]).n}
           /\ \A n \in Numbers(Tail(down[s])) : Head(down[s]).n < n
           /\ Head(down[s]).n \in 0 .. Len(sent[s])
           /\ table[s] = NoRandoms <=> Head(down[s]).n = 0
<1>1. WireTypes /\ SessionInv(s)
  BY DEF WireInv
<1>2. PICK d, f, c : d = down[s] /\ f = Head(d) /\ c = Tail(d)
  OBVIOUS
<1>3. d \in Seq(Frames)
  BY <1>1, <1>2 DEF WireTypes
<1>4. /\ Rising(d) /\ Numbers(d) \subseteq 0 .. Len(sent[s])
      /\ Below(Numbers(d), Numbers(batch[s])) /\ Below(Numbers(d), Numbers(outbox[s]))
  BY <1>1, <1>2 DEF SessionInv, Sequenced, InOrder, Below
<1>5. /\ c \in Seq(Frames) /\ f \in Frames /\ f \in ToSet(d) /\ ToSet(d) = ToSet(c) \cup {f}
      /\ Numbers(d) = Numbers(c) \cup {f.n} /\ Below({f.n}, Numbers(c))
  BY <1>2, <1>3, <1>4, NumbersTail
<1>6. f.n \in 0 .. Len(sent[s]) /\ f.n \in Nat
  <2>1. f.n \in 0 .. Len(sent[s])
    BY <1>4, <1>5
  <2> QED
    BY <2>1
<1>7. pBox[s] \in Randoms
  <2>1. 0 \notin Numbers(batch[s]) \cup Numbers(outbox[s])
    <3>1. \A n \in Numbers(batch[s]) \cup Numbers(outbox[s]) : f.n < n
      BY <1>4, <1>5 DEF Below
    <3>2. ~(f.n < 0)
      BY <1>6
    <3> QED
      BY <3>1, <3>2
  <2> QED
    BY <1>1, <2>1 DEF SessionInv, Started, WireTypes
<1>8. pBox[s] # NoRandoms
  BY <1>7, BoxesUndone
<1>9. table[s] = NoRandoms <=> f.n = 0
  <2>1. ASSUME table[s] = NoRandoms PROVE f.n = 0
    <3>1. 0 \in Numbers(d)
      BY <1>1, <1>2, <1>8, <2>1 DEF SessionInv, Started
    <3> QED
      BY <1>5, <1>6, <3>1 DEF Below
  <2>2. ASSUME table[s] # NoRandoms PROVE f.n # 0
    <3>1. 0 \notin Numbers(d)
      BY <1>1, <1>2, <2>2 DEF SessionInv, Started
    <3> QED
      BY <1>5, <3>1
  <2> QED
    BY <2>1, <2>2
<1> QED
  BY <1>2, <1>5, <1>6, <1>7, <1>9 DEF Below

\* What asking does: Asks keeps the types, and the requests are heard in order.
LEMMA AskStep ==
    ASSUME WireInv, NEW s \in Sessions, NEW r \in Randoms, NEW z \in AskSizes, NEW b \in Texts,
           Asks(s, r, z, b), table[s] = NoRandoms \/ table[s] = r, heard' = heard, table'[s] = r
    PROVE  /\ asked' \in [Sessions -> Seq([text : Bytes, size : Nat])]
           /\ up' \in [Sessions -> Seq([text : Bytes, size : Nat])]
           /\ Asking(s)'
           /\ \A t \in Sessions : t # s => asked'[t] = asked[t] /\ up'[t] = up[t]
<1>1. WireTypes /\ SessionInv(s)
  BY DEF WireInv
<1>2. b \in Bytes /\ z \in Nat /\ Tables[r][b] \in Bytes
  BY WireAssumption, SizesAre, BoxesUndone
<1>3. PICK x, y : x = [text |-> b, size |-> z] /\ y = [text |-> Tables[r][b], size |-> z]
  OBVIOUS
<1>4. x \in Requests /\ y \in Requests /\ y = [text |-> Tables[r][x.text], size |-> x.size]
  BY <1>2, <1>3 DEF Requests
<1>5. asked' = [asked EXCEPT ![s] = Append(@, x)] /\ up' = [up EXCEPT ![s] = Append(@, y)]
  BY <1>3 DEF Asks
<1>6. PICK a, u, h : a = asked[s] /\ u = up[s] /\ h = heard[s]
  OBVIOUS
<1>7. a \in Seq(Requests) /\ u \in Seq(Requests) /\ h \in Seq(Bytes)
      /\ asked \in [Sessions -> Seq(Requests)] /\ up \in [Sessions -> Seq(Requests)]
  BY <1>1, <1>6 DEF WireTypes, Requests
<1>8. Heard(a, u, h, r)
  <2>1. Heard(a, u, h, table[s])
    BY <1>1, <1>6 DEF SessionInv, Asking, Heard
  <2>2. CASE table[s] = r
    BY <2>1, <2>2
  <2>3. CASE table[s] = NoRandoms
    <3>1. a = <<>> /\ u = <<>> /\ h = <<>>
      BY <1>1, <1>6, <2>3 DEF SessionInv, Started
    <3>2. Len(<<>>) = 0 /\ DOMAIN <<>> = {} /\ 0 + 0 = 0
      OBVIOUS
    <3> QED
      BY <3>1, <3>2 DEF Heard
  <2> QED
    BY <2>2, <2>3
<1>9. Heard(Append(a, x), Append(u, y), h, r)
  BY <1>4, <1>7, <1>8, AskedMore
<1>10. asked'[s] = Append(a, x) /\ up'[s] = Append(u, y)
  BY <1>5, <1>6, <1>7
<1>11. Asking(s)'
  BY <1>6, <1>9, <1>10 DEF Asking, Heard
<1>12. asked' \in [Sessions -> Seq(Requests)] /\ up' \in [Sessions -> Seq(Requests)]
  BY <1>4, <1>5, <1>7
<1>13. \A t \in Sessions : t # s => asked'[t] = asked[t] /\ up'[t] = up[t]
  BY <1>5, <1>7
<1> QED
  BY <1>11, <1>12, <1>13 DEF Requests

\* The client gets the challenge, changes its table and answers.
LEMMA StartStep ==
    ASSUME WireInv, NEW s \in Sessions, ClientStarts(s)
    PROVE  WireInv'
<1>1. WireTypes /\ SessionInv(s)
  BY DEF WireInv
<1>2. /\ down[s] # <<>> /\ table[s] = NoRandoms /\ down' = [down EXCEPT ![s] = Tail(@)]
      /\ table' = [table EXCEPT ![s] = Head(down[s]).randoms]
      /\ \E b \in Texts, z \in AskSizes : Asks(s, Head(down[s]).randoms, z, b)
      /\ UNCHANGED <<vectors, outbox, batch, phase, byte, pBox, broken, got, sent, heard>>
  BY DEF ClientStarts, gateway
<1>3. PICK d, f, c : d = down[s] /\ f = Head(d) /\ c = Tail(d)
  OBVIOUS
<1>4. /\ pBox[s] \in Randoms /\ f \in ToSet(d) /\ c \in Seq(Frames) /\ ToSet(c) \subseteq ToSet(d)
      /\ Numbers(d) = Numbers(c) \cup {f.n} /\ \A n \in Numbers(c) : f.n < n
      /\ f.n = 0
  BY <1>2, <1>3, FirstFrame
<1>5. f.randoms = pBox[s]
  BY <1>1, <1>3, <1>4 DEF SessionInv, Coming
<1>6. PICK r \in Randoms : r = pBox[s]
  BY <1>4
<1>7. PICK b \in Texts, z \in AskSizes : Asks(s, r, z, b)
  BY <1>2, <1>3, <1>5, <1>6
<1>8. down'[s] = c /\ table'[s] = r
      /\ \A t \in Sessions : t # s => down'[t] = down[t] /\ table'[t] = table[t]
  BY <1>1, <1>2, <1>3, <1>5, <1>6 DEF WireTypes
<1>9. /\ asked' \in [Sessions -> Seq([text : Bytes, size : Nat])]
      /\ up' \in [Sessions -> Seq([text : Bytes, size : Nat])] /\ Asking(s)'
      /\ \A t \in Sessions : t # s => asked'[t] = asked[t] /\ up'[t] = up[t]
  BY <1>2, <1>7, <1>8, AskStep
<1>10. WireTypes'
  <2>1. down' \in [Sessions -> Seq(Frames)] /\ table' \in [Sessions -> Randoms \cup {NoRandoms}]
    BY <1>1, <1>2, <1>3, <1>4, <1>5 DEF WireTypes
  <2> QED
    BY <1>1, <1>2, <1>9, <2>1 DEF WireTypes
<1>11. Waiting(s)' = Waiting(s)
  BY <1>2 DEF Waiting
<1>12. Sequenced(s)'
  <2>1. InOrder(got[s], d, batch[s], outbox[s], Len(sent[s])) /\ d \in Seq(Frames) /\ d # <<>>
    BY <1>1, <1>2, <1>3 DEF SessionInv, Sequenced, WireTypes
  <2>2. InOrder(got[s], c, batch[s], outbox[s], Len(sent[s]))
    BY <1>3, <2>1, OrderStarted
  <2> QED
    BY <1>2, <1>8, <2>2 DEF Sequenced
<1>13. r # NoRandoms
  BY BoxesUndone
<1>14. Started(s)'
  <2>1. 0 \notin Numbers(c)
    BY <1>4
  <2> QED
    BY <1>1, <1>2, <1>6, <1>8, <1>13, <2>1 DEF SessionInv, Started
<1>15. Pending(s)' /\ Fresh(s)'
  BY <1>1, <1>2, <1>11 DEF SessionInv, Pending, Fresh, Writes, Own, Encrypted
<1>16. Coming(s)'
  <2>1. \A e \in ToSet(c) : e \in ToSet(d)
    BY <1>4
  <2> QED
    BY <1>1, <1>2, <1>3, <1>8, <2>1 DEF SessionInv, Coming, Encrypted
<1>17. Whole(s)'
  BY <1>1, <1>2, <1>3, <1>4, <1>8, <1>13 DEF SessionInv, Whole, Short
<1>18. SessionInv(s)' /\ Len(vectors) <= Len(vectors')
  BY <1>1, <1>2, <1>9, <1>12, <1>14, <1>15, <1>16, <1>17 DEF SessionInv, WireTypes
<1> QED
  BY <1>2, <1>8, <1>9, <1>10, <1>11, <1>18, OneMoves

\* The client reads a message, or breaks.
LEMMA ReadStep ==
    ASSUME WireInv, NEW s \in Sessions, ClientReads(s)
    PROVE  WireInv'
<1>1. WireTypes /\ SessionInv(s)
  BY DEF WireInv
<1>2. PICK d, f, c : d = down[s] /\ f = Head(d) /\ c = Tail(d)
  OBVIOUS
<1>3. /\ d # <<>> /\ table[s] # NoRandoms
      /\ IF Negative(f.size)
         THEN broken' = [broken EXCEPT ![s] = TRUE] /\ UNCHANGED <<down, got>>
         ELSE /\ down' = [down EXCEPT ![s] = Tail(@)]
              /\ got' = [got EXCEPT ![s] = Append(@, [n |-> f.n, text |-> Tables[table[s]][f.text]])]
              /\ UNCHANGED broken
      /\ UNCHANGED <<vectors, outbox, batch, phase, byte, pBox, up, table, sent, asked, heard>>
  BY <1>2 DEF ClientReads, gateway
<1>4. /\ pBox[s] \in Randoms /\ f \in Frames /\ f \in ToSet(d) /\ c \in Seq(Frames)
      /\ ToSet(c) \subseteq ToSet(d)
      /\ Numbers(d) = Numbers(c) \cup {f.n} /\ \A n \in Numbers(c) : f.n < n
      /\ f.n \in 0 .. Len(sent[s]) /\ f.n # 0
  BY <1>2, <1>3, FirstFrame
<1>5. table[s] = pBox[s]
  BY <1>1, <1>3 DEF SessionInv, Started
<1>6. f.n \in 1 .. Len(sent[s]) /\ f.n \in Nat /\ f.n > 0
  BY <1>4
<1>7. f.n \in DOMAIN sent[s] /\ sent[s][f.n] \in Sents
  BY <1>1, <1>6 DEF WireTypes
<1>8. /\ f.size = sent[s][f.n].size
      /\ ~(sent[s][f.n].shared /\ IsDynamic(sent[s][f.n])) => f.text = Encrypted(s, sent[s][f.n].text)
  BY <1>1, <1>2, <1>4, <1>6 DEF SessionInv, Coming
<1>9. Waiting(s)' = Waiting(s) /\ Len(vectors) <= Len(vectors')
  BY <1>1, <1>3 DEF Waiting, WireTypes
<1>10. Pending(s)' /\ Fresh(s)' /\ Asking(s)'
  BY <1>1, <1>3, <1>9 DEF SessionInv, Pending, Fresh, Asking, Writes, Own, Encrypted
<1>11. CASE Negative(f.size)
  <2>1. broken' = [broken EXCEPT ![s] = TRUE] /\ UNCHANGED <<down, got>>
    BY <1>3, <1>11
  <2>2. WireTypes'
    BY <1>1, <1>3, <2>1 DEF WireTypes
  <2>3. ~Short(s)
    BY <1>7, <1>8, <1>11 DEF Short
  <2>4. Sequenced(s)' /\ Started(s)' /\ Coming(s)'
    BY <1>1, <1>3, <2>1 DEF SessionInv, Sequenced, Started, Coming, Encrypted
  <2>5. Whole(s)'
    BY <1>3, <2>3 DEF Whole, Short
  <2>6. SessionInv(s)'
    BY <1>10, <2>4, <2>5 DEF SessionInv
  <2>7. \A t \in Sessions : t # s => broken'[t] = broken[t]
    BY <1>1, <2>1 DEF WireTypes
  <2> QED
    BY <1>3, <1>9, <2>1, <2>2, <2>6, <2>7, OneMoves
<1>12. CASE ~Negative(f.size)
  <2>1. PICK e : e = [n |-> f.n, text |-> Tables[table[s]][f.text]]
    OBVIOUS
  <2>2. /\ down' = [down EXCEPT ![s] = Tail(@)] /\ got' = [got EXCEPT ![s] = Append(@, e)]
        /\ UNCHANGED broken
    BY <1>3, <1>12, <2>1
  <2>3. f.text \in Bytes
    BY <1>4 DEF Frames
  <2>4. e \in [n : Nat, text : Bytes] /\ e.n = f.n /\ e.text = Tables[pBox[s]][f.text]
    BY <1>4, <1>5, <1>6, <2>1, <2>3, BoxesUndone
  <2>5. ~(sent[s][e.n].shared /\ IsDynamic(sent[s][e.n])) => e.text = sent[s][e.n].text
    <3>1. sent[s][f.n].text \in Bytes
      BY <1>7 DEF Sents
    <3> QED
      BY <1>4, <1>8, <2>4, <3>1, BoxesUndone DEF Encrypted
  <2>6. PICK g, h : g = got[s] /\ h = Append(g, e)
    OBVIOUS
  <2>7. g \in Seq([n : Nat, text : Bytes]) /\ d \in Seq(Frames)
    BY <1>1, <1>2, <2>6 DEF WireTypes
  <2>8. /\ Numbers(h) = Numbers(g) \cup {e.n} /\ ToSet(h) = ToSet(g) \cup {e}
        /\ h \in Seq([n : Nat, text : Bytes])
    <3>1. PICK Y : Y = [n : Nat, text : Bytes]
      OBVIOUS
    <3>2. g \in Seq(Y) /\ e \in Y
      BY <2>4, <2>7, <3>1
    <3>3. /\ Numbers(Append(g, e)) = Numbers(g) \cup {e.n}
          /\ ToSet(Append(g, e)) = ToSet(g) \cup {e}
          /\ Rising(g) /\ Below(Numbers(g), {e.n}) => Rising(Append(g, e))
      BY <3>2, NumbersAppended
    <3>4. Append(g, e) \in Seq(Y)
      BY <3>2
    <3> QED
      BY <2>6, <3>1, <3>3, <3>4
  <2>9. down'[s] = c /\ got'[s] = h
        /\ \A t \in Sessions : t # s => down'[t] = down[t] /\ got'[t] = got[t]
    BY <1>1, <1>2, <2>2, <2>6 DEF WireTypes
  <2>10. WireTypes'
    <3>1. down' \in [Sessions -> Seq(Frames)] /\ got' \in [Sessions -> Seq([n : Nat, text : Bytes])]
      BY <1>1, <1>2, <1>4, <2>2, <2>6, <2>8 DEF WireTypes
    <3> QED
      BY <1>1, <1>3, <2>2, <3>1 DEF WireTypes
  <2>11. Sequenced(s)'
    <3>1. PICK k \in Nat : k = Len(sent[s])
      BY <1>1 DEF WireTypes
    <3>2. InOrder(g, d, batch[s], outbox[s], k)
      BY <1>1, <1>2, <2>6, <3>1 DEF SessionInv, Sequenced
    <3>3. e.n = Head(d).n /\ e.n # 0
      BY <1>2, <1>4, <2>4
    <3>4. InOrder(Append(g, e), Tail(d), batch[s], outbox[s], k)
      BY <1>3, <2>4, <2>7, <3>2, <3>3, OrderRead
    <3> QED
      BY <1>2, <1>3, <2>6, <2>9, <3>1, <3>4 DEF Sequenced
  <2>12. Started(s)'
    <3>1. 0 \notin Numbers(c)
      BY <1>4, <1>6
    <3> QED
      BY <1>1, <1>3, <2>9, <3>1 DEF SessionInv, Started
  <2>13. Coming(s)'
    <3>1. \A x \in ToSet(c) : x \in ToSet(d)
      BY <1>4
    <3>2. /\ \A x \in ToSet(d) :
               /\ x.n = 0 => x.randoms = pBox[s]
               /\ x.n > 0 => /\ x.size = sent[s][x.n].size
                             /\ ~(sent[s][x.n].shared /\ IsDynamic(sent[s][x.n])) =>
                                  x.text = Encrypted(s, sent[s][x.n].text)
          /\ \A x \in ToSet(g) : ~(sent[s][x.n].shared /\ IsDynamic(sent[s][x.n])) =>
               x.text = sent[s][x.n].text
      BY <1>1, <1>2, <2>6 DEF SessionInv, Coming
    <3>3. \A x \in ToSet(h) : ~(sent[s][x.n].shared /\ IsDynamic(sent[s][x.n])) =>
            x.text = sent[s][x.n].text
      BY <2>5, <2>8, <3>2
    <3> QED
      BY <1>3, <2>9, <3>1, <3>2, <3>3 DEF Coming, Encrypted
  <2>14. Whole(s)'
    BY <1>1, <1>2, <1>3, <1>4, <2>2, <2>4, <2>6, <2>8, <2>9 DEF SessionInv, Whole, Short
  <2>15. SessionInv(s)'
    BY <1>10, <2>11, <2>12, <2>13, <2>14 DEF SessionInv
  <2> QED
    BY <1>3, <1>9, <2>2, <2>9, <2>10, <2>15, OneMoves
<1> QED
  BY <1>11, <1>12

\* The client asks again.
LEMMA AsksStep ==
    ASSUME WireInv, NEW s \in Sessions, NEW z \in AskSizes, NEW b \in Texts, ClientAsks(s, z, b)
    PROVE  WireInv'
<1>1. WireTypes /\ SessionInv(s)
  BY DEF WireInv
<1>2. /\ table[s] # NoRandoms /\ Asks(s, table[s], z, b)
      /\ UNCHANGED <<vectors, outbox, batch, phase, byte, pBox, down, table, broken, got, sent, heard>>
  BY DEF ClientAsks, gateway
<1>3. PICK r \in Randoms : r = table[s]
  BY <1>1, <1>2 DEF WireTypes
<1>4. /\ asked' \in [Sessions -> Seq([text : Bytes, size : Nat])]
      /\ up' \in [Sessions -> Seq([text : Bytes, size : Nat])] /\ Asking(s)'
      /\ \A t \in Sessions : t # s => asked'[t] = asked[t] /\ up'[t] = up[t]
  BY <1>2, <1>3, AskStep
<1>5. WireTypes'
  BY <1>1, <1>2, <1>4 DEF WireTypes
<1>6. Waiting(s)' = Waiting(s) /\ Len(vectors) <= Len(vectors')
  BY <1>1, <1>2 DEF Waiting, WireTypes
<1>7. Sequenced(s)' /\ Started(s)' /\ Coming(s)' /\ Whole(s)'
  BY <1>1, <1>2 DEF SessionInv, Sequenced, Started, Coming, Whole, Short, Encrypted
<1>8. Pending(s)' /\ Fresh(s)'
  BY <1>1, <1>2, <1>6 DEF SessionInv, Pending, Fresh, Writes, Own, Encrypted
<1>9. SessionInv(s)'
  BY <1>4, <1>7, <1>8 DEF SessionInv
<1> QED
  BY <1>2, <1>4, <1>5, <1>6, <1>9, OneMoves

\* The gateway reads a request.
LEMMA HearStep ==
    ASSUME WireInv, NEW s \in Sessions, Read(s)
    PROVE  WireInv'
<1>1. WireTypes /\ SessionInv(s)
  BY DEF WireInv
<1>2. PICK a, u, h, f : a = asked[s] /\ u = up[s] /\ h = heard[s] /\ f = Head(u)
  OBVIOUS
<1>3. PICK x : x = IF Decrypts(f.size) THEN Boxes[pBox[s]][f.text] ELSE f.text
  OBVIOUS
<1>4. /\ u # <<>> /\ heard' = [heard EXCEPT ![s] = Append(@, x)] /\ up' = [up EXCEPT ![s] = Tail(@)]
      /\ UNCHANGED <<vectors, outbox, batch, phase, byte, pBox, table, broken, got, asked, down, sent>>
  BY <1>2, <1>3 DEF Read, gateway, client, Encrypted
<1>5. a \in Seq(Requests) /\ u \in Seq(Requests) /\ h \in Seq(Bytes)
      /\ up \in [Sessions -> Seq(Requests)] /\ heard \in [Sessions -> Seq(Bytes)]
  BY <1>1, <1>2 DEF WireTypes, Requests
<1>6. table[s] # NoRandoms
  BY <1>1, <1>2, <1>4 DEF SessionInv, Started
<1>7. PICK r \in Randoms : r = table[s] /\ r = pBox[s]
  BY <1>1, <1>6 DEF SessionInv, Started, WireTypes
<1>8. Heard(a, u, h, r)
  BY <1>1, <1>2, <1>7 DEF SessionInv, Asking, Heard
<1>9. /\ f \in Requests /\ Boxes[r][f.text] \in Bytes
      /\ Heard(a, Tail(u), Append(h, x), r)
  BY <1>2, <1>3, <1>4, <1>5, <1>7, <1>8, HeardMore
<1>10. x \in Bytes
  BY <1>3, <1>7, <1>9 DEF Requests
<1>11. up'[s] = Tail(u) /\ heard'[s] = Append(h, x)
       /\ \A t \in Sessions : t # s => up'[t] = up[t] /\ heard'[t] = heard[t]
  BY <1>2, <1>4, <1>5
<1>12. WireTypes'
  <2>1. up' \in [Sessions -> Seq(Requests)] /\ heard' \in [Sessions -> Seq(Bytes)]
    <3>1. Tail(u) \in Seq(Requests) /\ Append(h, x) \in Seq(Bytes)
      BY <1>4, <1>5, <1>10
    <3> QED
      BY <1>2, <1>4, <1>5, <3>1
  <2> QED
    BY <1>1, <1>4, <2>1 DEF WireTypes, Requests
<1>13. Waiting(s)' = Waiting(s) /\ Len(vectors) <= Len(vectors')
  BY <1>1, <1>4 DEF Waiting, WireTypes
<1>14. Sequenced(s)' /\ Started(s)' /\ Coming(s)' /\ Whole(s)'
  BY <1>1, <1>4, <1>6 DEF SessionInv, Sequenced, Started, Coming, Whole, Short, Encrypted
<1>15. Pending(s)' /\ Fresh(s)'
  BY <1>1, <1>4, <1>13 DEF SessionInv, Pending, Fresh, Writes, Own, Encrypted
<1>16. Asking(s)'
  <2>1. PICK v, g : v = Tail(u) /\ g = Append(h, x)
    OBVIOUS
  <2>2. Heard(a, v, g, r)
    BY <1>9, <2>1
  <2>3. asked'[s] = a /\ up'[s] = v /\ heard'[s] = g /\ table'[s] = r
    BY <1>2, <1>4, <1>7, <1>11, <2>1
  <2>4. Heard(asked'[s], up'[s], heard'[s], table'[s])
    BY <2>2, <2>3
  <2> QED
    BY <2>4 DEF Asking, Heard
<1>17. SessionInv(s)'
  BY <1>14, <1>15, <1>16 DEF SessionInv
<1> QED
  BY <1>4, <1>11, <1>12, <1>13, <1>17, OneMoves

\* A message waiting is one that was sent, and its vector is there.
LEMMA WaitingIs ==
    ASSUME WireInv, NEW s \in Sessions, NEW m \in Waiting(s)
    PROVE  /\ m.n \in 0 .. Len(sent[s]) /\ Len(sent[s]) \in Nat
           /\ m.n > 0 => m.n \in 1 .. Len(sent[s])
           /\ m.n > 0 /\ IsDynamic(m) => m.data \in DOMAIN vectors
<1>1. WireTypes /\ SessionInv(s)
  BY DEF WireInv
<1>2. Len(sent[s]) \in Nat
  BY <1>1 DEF WireTypes
<1>3. m.n \in 0 .. Len(sent[s])
  <2>1. m.n \in Numbers(outbox[s]) \cup Numbers(batch[s])
    BY InNumbers DEF Waiting
  <2> QED
    BY <1>1, <2>1 DEF SessionInv, Sequenced, InOrder
<1>4. m.n > 0 => m.n \in 1 .. Len(sent[s])
  BY <1>2, <1>3
<1> QED
  BY <1>1, <1>2, <1>3, <1>4 DEF SessionInv, Pending

\* One message more for a session.
LEMMA SentMore ==
    ASSUME WireInv, NEW s \in Sessions, NEW m \in NetMessages, NEW e \in Sents,
           m.kind = "response", m.n = Len(sent[s]) + 1, m.size = e.size,
           IsDynamic(m) => m.data \in DOMAIN vectors' /\ vectors'[m.data] = e.text,
           ~IsDynamic(m) => m.data = e.text,
           outbox'[s] = Append(outbox[s], m), sent'[s] = Append(sent[s], e),
           vectors' \in Seq(Bytes), Len(vectors) <= Len(vectors'),
           \A i \in DOMAIN vectors : vectors'[i] = vectors[i],
           UNCHANGED <<batch, phase, byte, pBox, down, up, table, broken, got, asked, heard>>
    PROVE  /\ SessionInv(s)' /\ Waiting(s)' = Waiting(s) \cup {m}
           /\ \A i \in 1 .. Len(sent[s]) : sent'[s][i] = sent[s][i]
           /\ sent'[s][m.n] = e
<1>1. WireTypes /\ SessionInv(s)
  BY DEF WireInv
<1>2. PICK k \in Nat : k = Len(sent[s])
  BY <1>1 DEF WireTypes
<1>3. PICK o, q : o = outbox[s] /\ q = sent[s]
  OBVIOUS
<1>4. k = Len(sent[s]) /\ o = outbox[s] /\ q = sent[s]
  BY <1>2, <1>3
<1>5. o \in Seq(NetMessages) /\ q \in Seq(Sents) /\ vectors \in Seq(Bytes) /\ k = Len(q)
  BY <1>1, <1>4 DEF WireTypes
<1>6. m.n = k + 1 /\ m.n > 0 /\ m.n # 0
  BY <1>4
<1>7. /\ Len(sent'[s]) = k + 1 /\ sent'[s][k + 1] = e /\ DOMAIN sent'[s] = 1 .. k + 1
      /\ \A i \in 1 .. k : sent'[s][i] = q[i]
  BY <1>4, <1>5
<1>8. PICK p : p = Append(o, m)
  OBVIOUS
<1>9. Numbers(p) = Numbers(o) \cup {k + 1} /\ ToSet(p) = ToSet(o) \cup {m} /\ outbox'[s] = p
  <2>1. /\ Numbers(Append(o, m)) = Numbers(o) \cup {m.n}
        /\ ToSet(Append(o, m)) = ToSet(o) \cup {m}
        /\ Rising(o) /\ Below(Numbers(o), {m.n}) => Rising(Append(o, m))
    BY <1>5, NumbersAppended
  <2> QED
    BY <1>4, <1>6, <1>8, <2>1
<1>10. Waiting(s)' = Waiting(s) \cup {m}
  BY <1>4, <1>9 DEF Waiting
<1>11. Sequenced(s)'
  <2>1. InOrder(got[s], down[s], batch[s], o, k) /\ k < m.n
    BY <1>1, <1>4, <1>6 DEF SessionInv, Sequenced
  <2>2. InOrder(got[s], down[s], batch[s], Append(o, m), m.n)
    BY <1>5, <2>1, OrderSent
  <2> QED
    BY <1>4, <1>6, <1>7, <2>2 DEF Sequenced
<1>12. Started(s)'
  <2>1. 0 \in Numbers(outbox'[s]) <=> 0 \in Numbers(outbox[s])
    BY <1>4, <1>6, <1>9
  <2> QED
    BY <1>1, <2>1 DEF SessionInv, Started
<1>13. \A x \in Waiting(s) : x.n > 0 => sent'[s][x.n] = sent[s][x.n]
  BY <1>4, <1>7, WaitingIs
<1>14. DOMAIN vectors \subseteq DOMAIN vectors'
  BY <1>5
<1>15. Pending(s)'
  <2>1. \A x \in Waiting(s) :
          /\ x.n = 0 => x.kind = "challenge" /\ x.size = 5 /\ x.data = 0
          /\ x.n > 0 => /\ x.kind = "response" /\ x.size = sent'[s][x.n].size
                        /\ IsDynamic(x) => x.data \in DOMAIN vectors'
                        /\ ~IsDynamic(x) => x.data = sent'[s][x.n].text
    BY <1>1, <1>13, <1>14 DEF SessionInv, Pending
  <2>2. /\ m.kind = "response" /\ m.size = sent'[s][m.n].size
        /\ IsDynamic(m) => m.data \in DOMAIN vectors'
        /\ ~IsDynamic(m) => m.data = sent'[s][m.n].text
    BY <1>6, <1>7
  <2>3. /\ phase[s] # "read" =>
             Writes(s) /\ IsDynamic(Head(batch[s])) /\ Head(batch[s]).size <= MaxSize
        /\ phase[s] = "write" => byte[s] \in Bytes
    BY <1>1 DEF SessionInv, Pending
  <2> QED
    BY <1>6, <1>10, <2>1, <2>2, <2>3 DEF Pending, Writes
<1>16. phase[s] # "read" => m # Head(batch[s])
  <2>1. ASSUME phase[s] # "read" PROVE Head(batch[s]).n \in 0 .. k
    <3>1. batch[s] # <<>>
      BY <1>1, <2>1 DEF SessionInv, Pending, Writes
    <3> QED
      BY <1>4, <3>1, FirstOfBatch
  <2>2. k + 1 \notin 0 .. k
    OBVIOUS
  <2> QED
    BY <1>6, <2>1, <2>2
<1>17. Fresh(s)'
  <2>1. ASSUME NEW x \in Waiting(s), Own(s, x)'
        PROVE  /\ vectors'[x.data] = IF phase[s] = "insert" /\ x = Head(batch[s])
                                     THEN Encrypted(s, sent'[s][x.n].text) ELSE sent'[s][x.n].text
               /\ phase[s] = "write" /\ x = Head(batch[s]) => byte[s] = sent'[s][x.n].text
    <3>1. x.n > 0 /\ IsDynamic(x) /\ sent'[s][x.n] = sent[s][x.n]
      BY <1>13, <2>1 DEF Own
    <3>2. Own(s, x)
      BY <2>1, <3>1 DEF Own
    <3>3. x.data \in DOMAIN vectors
      BY <3>1, WaitingIs
    <3> QED
      BY <1>1, <3>1, <3>2, <3>3 DEF SessionInv, Fresh
  <2>2. ASSUME Own(s, m)'
        PROVE  /\ vectors'[m.data] = IF phase[s] = "insert" /\ m = Head(batch[s])
                                     THEN Encrypted(s, sent'[s][m.n].text) ELSE sent'[s][m.n].text
               /\ phase[s] = "write" /\ m = Head(batch[s]) => byte[s] = sent'[s][m.n].text
    <3>1. vectors'[m.data] = sent'[s][m.n].text
      BY <1>6, <1>7, <2>2 DEF Own
    <3> QED
      BY <1>16, <3>1
  <2> QED
    BY <1>10, <2>1, <2>2 DEF Fresh, Encrypted
<1>18. Coming(s)'
  <2>1. \A f \in ToSet(down[s]) : f.n > 0 => sent'[s][f.n] = sent[s][f.n]
    <3>1. \A f \in ToSet(down[s]) : f.n \in 0 .. k
      BY <1>1, <1>4, InNumbers DEF SessionInv, Sequenced, InOrder
    <3>2. \A i \in 0 .. k : i > 0 => i \in 1 .. k
      OBVIOUS
    <3> QED
      BY <1>4, <1>7, <3>1, <3>2
  <2>2. \A x \in ToSet(got[s]) : sent'[s][x.n] = sent[s][x.n]
    <3>1. \A x \in ToSet(got[s]) : x.n \in 1 .. k
      BY <1>1, <1>4, InNumbers DEF SessionInv, Sequenced, InOrder
    <3> QED
      BY <1>4, <1>7, <3>1
  <2>3. /\ \A f \in ToSet(down[s]) :
             /\ f.n = 0 => f.randoms = pBox[s]
             /\ f.n > 0 => /\ f.size = sent[s][f.n].size
                           /\ ~(sent[s][f.n].shared /\ IsDynamic(sent[s][f.n])) =>
                                f.text = Encrypted(s, sent[s][f.n].text)
        /\ \A x \in ToSet(got[s]) : ~(sent[s][x.n].shared /\ IsDynamic(sent[s][x.n])) =>
             x.text = sent[s][x.n].text
    BY <1>1 DEF SessionInv, Coming
  <2> QED
    BY <2>1, <2>2, <2>3 DEF Coming, Encrypted
<1>19. Asking(s)'
  BY <1>1 DEF SessionInv, Asking
<1>20. Whole(s)'
  <2>1. Short(s)' => Short(s)
    <3>1. DOMAIN sent[s] = 1 .. k /\ 1 .. k \subseteq 1 .. k + 1
      BY <1>4, <1>5
    <3> QED
      BY <1>4, <1>7, <3>1 DEF Short
  <2>2. \A i \in 0 .. k + 1 : i \in 0 .. k \/ i = k + 1
    OBVIOUS
  <2>3. Short(s) => 0 .. k \subseteq
          Numbers(got[s]) \cup Numbers(down[s]) \cup Numbers(batch[s]) \cup Numbers(o)
            \cup (IF table[s] = NoRandoms THEN {} ELSE {0})
    BY <1>1, <1>4 DEF SessionInv, Whole
  <2>4. broken[s] => ~Short(s)
    BY <1>1 DEF SessionInv, Whole
  <2> QED
    BY <1>7, <1>9, <2>1, <2>2, <2>3, <2>4 DEF Whole
<1>21. SessionInv(s)'
  BY <1>11, <1>12, <1>15, <1>17, <1>18, <1>19, <1>20 DEF SessionInv
<1> QED
  BY <1>4, <1>6, <1>7, <1>10, <1>21

\* A set that has no two members.
LEMMA OnlyMember ==
    ASSUME NEW S \in SUBSET Sessions, ~(Cardinality(S) > 1), NEW s \in S, NEW t \in S
    PROVE  s = t
<1>1. IsFiniteSet(S)
  BY WireAssumption, FS_Subset
<1>2. Cardinality(S) \in Nat
  BY <1>1, FS_CardinalityType
<1> SUFFICES ASSUME s # t PROVE FALSE
  OBVIOUS
<1>3. IsFiniteSet({s}) /\ Cardinality({s}) = 1
  BY FS_Singleton
<1>4. Cardinality({s} \cup {t}) = 2
  <2>1. Cardinality({s} \cup {t}) = IF t \in {s} THEN Cardinality({s}) ELSE Cardinality({s}) + 1
    BY <1>3, FS_AddElement
  <2>2. t \notin {s}
    OBVIOUS
  <2> QED
    BY <1>3, <2>1, <2>2
<1>5. Cardinality({s} \cup {t}) <= Cardinality(S)
  <2>1. {s} \cup {t} \in SUBSET S
    OBVIOUS
  <2> QED
    BY <1>1, <2>1, FS_Subset
<1> QED
  BY <1>2, <1>4, <1>5

\* A message is sent to the sessions in S.
LEMMA SendStep ==
    ASSUME WireInv, NEW S \in SUBSET Sessions, NEW z \in SendSizes, NEW b \in Texts, Send(S, z, b)
    PROVE  WireInv'
<1>1. WireTypes /\ vectors \in Seq(Bytes)
  BY DEF WireInv, WireTypes
<1>2. z \in Nat /\ b \in Bytes /\ b \in Nat
  BY WireAssumption, SizesAre DEF Bytes
<1>3. PICK w \in Nat : w = Len(vectors)
  BY <1>1
<1>4. PICK data \in Nat : data = IF z > kDynamicThreshold THEN w + 1 ELSE b
  BY <1>2
<1>5. PICK h \in BOOLEAN : h = (Cardinality(S) > 1)
  <2>1. Cardinality(S) \in Nat
    BY WireAssumption, FS_Subset, FS_CardinalityType
  <2>2. PICK c \in Nat : c = Cardinality(S)
    BY <2>1
  <2>3. (c > 1) \in BOOLEAN
    OBVIOUS
  <2> QED
    BY <2>2, <2>3
<1>6. PICK e : e = [text |-> b, size |-> z, shared |-> h]
  OBVIOUS
<1>7. e \in Sents /\ e.text = b /\ e.size = z /\ e.shared = h
  BY <1>2, <1>6 DEF Sents
<1> DEFINE m(s) == Message("response", Len(sent[s]) + 1, z, data)
<1>8. ASSUME NEW s \in Sessions
      PROVE  /\ m(s) \in NetMessages /\ m(s).kind = "response" /\ m(s).n = Len(sent[s]) + 1
             /\ m(s).size = z /\ m(s).data = data /\ (IsDynamic(m(s)) <=> z > kDynamicThreshold)
             /\ m(s).n > 0
  <2>1. Len(sent[s]) \in Nat
    BY <1>1 DEF WireTypes
  <2> QED
    BY <1>2, <2>1 DEF Message, NetMessages, IsDynamic
<1>9. /\ outbox' = [s \in Sessions |-> IF s \in S THEN Append(outbox[s], m(s)) ELSE outbox[s]]
      /\ sent' = [s \in Sessions |-> IF s \in S THEN Append(sent[s], e) ELSE sent[s]]
      /\ vectors' = IF z > kDynamicThreshold THEN Append(vectors, b) ELSE vectors
  BY <1>3, <1>4, <1>5, <1>6 DEF Send
<1>10. UNCHANGED <<batch, phase, byte, pBox, down, up, table, broken, got, asked, heard>>
  BY DEF Send, client
<1> HIDE DEF m
<1>11. /\ vectors' \in Seq(Bytes) /\ Len(vectors) <= Len(vectors')
       /\ \A i \in DOMAIN vectors : vectors'[i] = vectors[i]
       /\ z > kDynamicThreshold => /\ data \in DOMAIN vectors' /\ vectors'[data] = b
                                   /\ data \notin DOMAIN vectors
       /\ ~(z > kDynamicThreshold) => data = b
  <2>1. CASE z > kDynamicThreshold
    <3>1. vectors' = Append(vectors, b) /\ data = w + 1
      BY <1>4, <1>9, <2>1
    <3>2. DOMAIN vectors = 1 .. w /\ w + 1 \notin 1 .. w
      BY <1>1, <1>3
    <3>3. /\ Append(vectors, b) \in Seq(Bytes) /\ Len(Append(vectors, b)) = w + 1
          /\ DOMAIN Append(vectors, b) = 1 .. w + 1 /\ Append(vectors, b)[w + 1] = b
          /\ \A i \in 1 .. w : Append(vectors, b)[i] = vectors[i]
      BY <1>1, <1>2, <1>3
    <3>4. w + 1 \in 1 .. w + 1 /\ w <= w + 1
      OBVIOUS
    <3> QED
      BY <1>3, <2>1, <3>1, <3>2, <3>3, <3>4
  <2>2. CASE ~(z > kDynamicThreshold)
    BY <1>1, <1>3, <1>4, <1>9, <2>2
  <2> QED
    BY <2>1, <2>2
<1>12. /\ vectors' \in Seq(Bytes) /\ Len(vectors) <= Len(vectors')
       /\ \A i \in DOMAIN vectors : vectors'[i] = vectors[i]
  BY <1>11
<1>13. ASSUME NEW s \in S
       PROVE  /\ SessionInv(s)' /\ Waiting(s)' = Waiting(s) \cup {m(s)}
              /\ \A i \in 1 .. Len(sent[s]) : sent'[s][i] = sent[s][i]
              /\ sent'[s][m(s).n] = e
  <2>1. PICK x : x = m(s)
    OBVIOUS
  <2>2. /\ x \in NetMessages /\ x.kind = "response" /\ x.n = Len(sent[s]) + 1 /\ x.size = e.size
        /\ IsDynamic(x) => x.data \in DOMAIN vectors' /\ vectors'[x.data] = e.text
        /\ ~IsDynamic(x) => x.data = e.text
    BY <1>7, <1>8, <1>11, <2>1
  <2>3. outbox'[s] = Append(outbox[s], x) /\ sent'[s] = Append(sent[s], e) /\ s \in Sessions
    BY <1>9, <2>1
  <2>4. /\ SessionInv(s)' /\ Waiting(s)' = Waiting(s) \cup {x}
        /\ \A i \in 1 .. Len(sent[s]) : sent'[s][i] = sent[s][i]
        /\ sent'[s][x.n] = e
    BY <1>7, <1>10, <1>12, <2>2, <2>3, SentMore
  <2> QED
    BY <2>1, <2>4
<1>14. ASSUME NEW s \in Sessions, s \notin S
       PROVE  SessionInv(s)' /\ Waiting(s)' = Waiting(s) /\ sent'[s] = sent[s]
  <2>1. outbox'[s] = outbox[s] /\ sent'[s] = sent[s]
    BY <1>9, <1>14
  <2>2. SessionInv(s)
    BY DEF WireInv
  <2>3. \A x \in Waiting(s) : Own(s, x) => vectors'[x.data] = vectors[x.data]
    BY <1>11, WaitingIs DEF Own
  <2>4. SessionInv(s)'
    BY <1>1, <1>10, <1>12, <2>1, <2>2, <2>3, SessionKept
  <2> QED
    BY <1>10, <2>1, <2>4 DEF Waiting
<1>15. WireTypes'
  <2>1. outbox' \in [Sessions -> Seq(NetMessages)]
    <3>1. \A s \in Sessions : outbox[s] \in Seq(NetMessages) /\ m(s) \in NetMessages
      BY <1>1, <1>8 DEF WireTypes
    <3>2. \A s \in Sessions : Append(outbox[s], m(s)) \in Seq(NetMessages)
      BY <3>1
    <3> QED
      BY <1>9, <3>1, <3>2
  <2>2. sent' \in [Sessions -> Seq(Sents)]
    <3>1. \A s \in Sessions : sent[s] \in Seq(Sents)
      BY <1>1 DEF WireTypes
    <3>2. \A s \in Sessions : Append(sent[s], e) \in Seq(Sents)
      BY <1>7, <3>1
    <3> QED
      BY <1>9, <3>1, <3>2
  <2> QED
    BY <1>1, <1>10, <1>12, <2>1, <2>2 DEF WireTypes
<1>16. ASSUME NEW t \in Sessions, NEW l \in Waiting(t)', l \notin Waiting(t)
       PROVE  t \in S /\ l = m(t)
  BY <1>13, <1>14, <1>16
<1>17. ASSUME NEW t \in Sessions, NEW l \in Waiting(t), l.n > 0
       PROVE  sent'[t][l.n] = sent[t][l.n]
  <2>1. l.n \in 1 .. Len(sent[t])
    BY <1>17, WaitingIs
  <2> QED
    BY <1>13, <1>14, <2>1
<1>18. ASSUME NEW s \in Sessions PROVE Sole(s)'
  <2> SUFFICES ASSUME NEW x \in Waiting(s)', Own(s, x)', NEW t \in Sessions, NEW l \in Waiting(t)',
                      l.n > 0, IsDynamic(l), l.data = x.data
               PROVE  t = s /\ l.n = x.n
    BY DEF Sole
  <2>1. x.n > 0 /\ IsDynamic(x) /\ ~sent'[s][x.n].shared
    BY DEF Own
  <2>2. CASE x \in Waiting(s)
    <3>1. Own(s, x)
      BY <1>17, <2>1, <2>2 DEF Own
    <3>2. x.data \in DOMAIN vectors
      BY <2>1, <2>2, WaitingIs
    <3>3. l \in Waiting(t)
      <4> SUFFICES ASSUME l \notin Waiting(t) PROVE FALSE
        OBVIOUS
      <4>1. l = m(t)
        BY <1>16
      <4> QED
        BY <1>8, <1>11, <3>2, <4>1
    <3>4. Sole(s)
      BY DEF WireInv
    <3> QED
      BY <2>2, <3>1, <3>3, <3>4 DEF Sole
  <2>3. CASE x \notin Waiting(s)
    <3>1. s \in S /\ x = m(s)
      BY <1>16, <2>3
    <3>2. ~(Cardinality(S) > 1)
      BY <1>5, <1>7, <1>13, <2>1, <3>1
    <3>3. l \notin Waiting(t)
      <4> SUFFICES ASSUME l \in Waiting(t) PROVE FALSE
        OBVIOUS
      <4>1. l.data \in DOMAIN vectors
        BY WaitingIs
      <4> QED
        BY <1>8, <1>11, <2>1, <3>1, <4>1
    <3>4. t \in S /\ l = m(t)
      BY <1>16, <3>3
    <3>5. s = t
      BY <3>1, <3>2, <3>4, OnlyMember
    <3> QED
      BY <3>1, <3>4, <3>5
  <2> QED
    BY <2>2, <2>3
<1> QED
  BY <1>13, <1>14, <1>15, <1>18 DEF WireInv

\* At first there is one message, the challenge.
LEMMA WireInitially ==
    ASSUME WireInit
    PROVE  WireInv
<1>1. PICK c : c = Message("challenge", 0, 5, 0)
  OBVIOUS
<1>2. c \in NetMessages /\ c.kind = "challenge" /\ c.n = 0 /\ c.size = 5 /\ c.data = 0
  <2>1. 0 \in Nat /\ 5 \in Nat
    OBVIOUS
  <2> QED
    BY <1>1, <2>1 DEF Message, NetMessages
<1>3. PICK o : o = <<c>>
  OBVIOUS
<1>4. o \in Seq(NetMessages) /\ DOMAIN o = {1} /\ o[1] = c
  BY <1>2, <1>3
<1>5. Numbers(o) = {0} /\ ToSet(o) = {c} /\ Rising(o)
  <2>1. Rising(o)
    BY <1>4 DEF Rising
  <2> QED
    BY <1>2, <1>4, <2>1 DEF Numbers, ToSet
<1>6. WireTypes
  <2>1. \A X : <<>> \in Seq(X)
    OBVIOUS
  <2>2. outbox \in [Sessions -> Seq(NetMessages)]
    BY <1>1, <1>3, <1>4 DEF WireInit
  <2> QED
    BY <2>1, <2>2 DEF WireInit, WireTypes, NoRandoms
<1>7. ASSUME NEW s \in Sessions
      PROVE  /\ outbox[s] = o /\ batch[s] = <<>> /\ phase[s] = "read" /\ pBox[s] = NoRandoms
             /\ down[s] = <<>> /\ up[s] = <<>> /\ table[s] = NoRandoms /\ ~broken[s]
             /\ sent[s] = <<>> /\ got[s] = <<>> /\ asked[s] = <<>> /\ heard[s] = <<>>
             /\ Waiting(s) = {c} /\ Len(sent[s]) = 0
  <2>1. /\ outbox[s] = o /\ batch[s] = <<>> /\ phase[s] = "read" /\ pBox[s] = NoRandoms
        /\ down[s] = <<>> /\ up[s] = <<>> /\ table[s] = NoRandoms /\ ~broken[s]
        /\ sent[s] = <<>> /\ got[s] = <<>> /\ asked[s] = <<>> /\ heard[s] = <<>>
    BY <1>1, <1>3 DEF WireInit
  <2> QED
    BY <1>5, <2>1, NumbersNone DEF Waiting
<1>8. ASSUME NEW s \in Sessions PROVE SessionInv(s)
  <2>1. Sequenced(s)
    <3>1. 0 \in 0 .. 0
      OBVIOUS
    <3> QED
      BY <1>5, <1>7, <3>1, NumbersNone DEF Sequenced, InOrder, Below
  <2>2. Started(s)
    BY <1>5, <1>7, NumbersNone DEF Started
  <2>3. ~(c.n > 0) /\ phase[s] = "read" /\ Waiting(s) = {c}
    BY <1>2, <1>7
  <2>4. Pending(s)
    BY <1>2, <2>3 DEF Pending
  <2>5. Fresh(s)
    BY <2>3 DEF Fresh, Own
  <2>6. Coming(s)
    BY <1>7, NumbersNone DEF Coming
  <2>7. Asking(s)
    <3>1. heard[s] = <<>> /\ up[s] = <<>> /\ asked[s] = <<>>
      BY <1>7
    <3>2. Len(<<>>) + Len(<<>>) = Len(<<>>) /\ DOMAIN <<>> = {}
      OBVIOUS
    <3> QED
      BY <3>1, <3>2 DEF Asking
  <2>8. Whole(s)
    <3>1. \A i \in 0 .. 0 : i = 0
      OBVIOUS
    <3> QED
      BY <1>5, <1>7, <3>1 DEF Whole
  <2> QED
    BY <2>1, <2>2, <2>4, <2>5, <2>6, <2>7, <2>8 DEF SessionInv
<1>9. ASSUME NEW s \in Sessions PROVE Sole(s)
  <2>1. ~(c.n > 0) /\ Waiting(s) = {c}
    BY <1>2, <1>7
  <2> QED
    BY <2>1 DEF Sole, Own
<1> QED
  BY <1>6, <1>8, <1>9 DEF WireInv

\* Every step keeps the invariant.
LEMMA WireStep ==
    ASSUME WireInv, [WireNext]_wireVars
    PROVE  WireInv'
<1>1. ASSUME NEW S \in SUBSET Sessions, NEW z \in SendSizes, NEW b \in Texts, Send(S, z, b)
      PROVE  WireInv'
  BY <1>1, SendStep
<1>2. ASSUME NEW s \in Sessions,
             \/ PostMessageList(s) \/ WriteChallenge(s) \/ WriteTooLarge(s) \/ WriteStatic(s)
             \/ EncryptReads(s) \/ EncryptWrites(s) \/ InsertDynamic(s)
             \/ ClientStarts(s) \/ ClientReads(s) \/ Read(s)
             \/ \E z \in AskSizes, b \in Texts : ClientAsks(s, z, b)
      PROVE  WireInv'
  <2>1. CASE PostMessageList(s)
    BY <2>1, PostStep
  <2>2. CASE WriteChallenge(s)
    BY <2>2, ChallengeStep
  <2>3. CASE WriteTooLarge(s)
    BY <2>3, TooLargeStep
  <2>4. CASE WriteStatic(s)
    BY <2>4, StaticStep
  <2>5. CASE EncryptReads(s)
    BY <2>5, ReadsStep
  <2>6. CASE EncryptWrites(s)
    BY <2>6, WritesStep
  <2>7. CASE InsertDynamic(s)
    BY <2>7, InsertStep
  <2>8. CASE ClientStarts(s)
    BY <2>8, StartStep
  <2>9. CASE ClientReads(s)
    BY <2>9, ReadStep
  <2>10. CASE Read(s)
    BY <2>10, HearStep
  <2>11. CASE \E z \in AskSizes, b \in Texts : ClientAsks(s, z, b)
    BY <2>11, AsksStep
  <2> QED
    BY <1>2, <2>1, <2>2, <2>3, <2>4, <2>5, <2>6, <2>7, <2>8, <2>9, <2>10, <2>11
<1>3. ASSUME UNCHANGED wireVars PROVE WireInv'
  <2>1. WireTypes'
    BY <1>3 DEF WireInv, WireTypes, wireVars
  <2>2. ASSUME NEW s \in Sessions PROVE SessionInv(s)' /\ Sole(s)' /\ Waiting(s)' = Waiting(s)
    <3>1. SessionInv(s) /\ vectors \in Seq(Bytes) /\ vectors' = vectors
      BY <1>3 DEF WireInv, WireTypes, wireVars
    <3>2. Len(vectors) <= Len(vectors')
      BY <3>1
    <3>3. SessionInv(s)'
      BY <1>3, <3>1, <3>2, SessionKept DEF wireVars
    <3>4. sent' = sent /\ \A t \in Sessions : Waiting(t)' \subseteq Waiting(t)
      BY <1>3 DEF wireVars, Waiting
    <3>5. \A t \in Sessions : Sole(t)
      BY DEF WireInv
    <3>6. Sole(s)'
      BY <3>4, <3>5, SoleKept
    <3> QED
      BY <1>3, <3>3, <3>6 DEF wireVars, Waiting
  <2> QED
    BY <2>1, <2>2 DEF WireInv
<1> QED
  BY <1>1, <1>2, <1>3 DEF WireNext

\* Messages whose numbers rise and are all of 1 .. k are k messages.
LEMMA RisingAll ==
    ASSUME NEW X, NEW q \in Seq(X), Rising(q), NEW k \in Nat, Numbers(q) = 1 .. k
    PROVE  Len(q) = k
<1>1. PICK n \in Nat : n = Len(q)
  OBVIOUS
<1>2. DOMAIN q = 1 .. n
  BY <1>1
<1>3. PICK f : f = [i \in 1 .. n |-> q[i].n]
  OBVIOUS
<1>4. f \in [1 .. n -> 1 .. k] /\ \A y \in 1 .. k : \E i \in 1 .. n : f[i] = y
  BY <1>2, <1>3 DEF Numbers
<1>5. ASSUME NEW i \in 1 .. n, NEW j \in 1 .. n, f[i] = f[j] PROVE i = j
  <2>1. f[i] \in Int /\ f[j] \in Int
    BY <1>4
  <2>2. i < j => f[i] < f[j]
    BY <1>2, <1>3 DEF Rising
  <2>3. j < i => f[j] < f[i]
    BY <1>2, <1>3 DEF Rising
  <2> QED
    BY <1>5, <2>1, <2>2, <2>3
<1>6. f \in Bijection(1 .. n, 1 .. k)
  BY <1>4, <1>5 DEF Bijection, Injection, Surjection, IsInjective
<1>7. ExistsBijection(1 .. n, 1 .. k)
  BY <1>6 DEF ExistsBijection
<1>8. IsFiniteSet(1 .. n) /\ Cardinality(1 .. n) = n /\ Cardinality(1 .. k) = k
  <2>1. 1 \in Int /\ n \in Int /\ k \in Int
    OBVIOUS
  <2>2. /\ IsFiniteSet(1 .. n) /\ Cardinality(1 .. n) = IF 1 > n THEN 0 ELSE n - 1 + 1
        /\ IsFiniteSet(1 .. k) /\ Cardinality(1 .. k) = IF 1 > k THEN 0 ELSE k - 1 + 1
    BY <2>1, FS_Interval
  <2> QED
    BY <2>2
<1> QED
  BY <1>1, <1>7, <1>8, FS_Bijection

\* What the invariant says of what is read.
LEMMA InvReadable ==
    ASSUME WireInv
    PROVE  Readable
<1> SUFFICES ASSUME NEW s \in Sessions
             PROVE  /\ \A i \in DOMAIN got[s] :
                         LET m == sent[s][got[s][i].n] IN
                         /\ i > 1 => got[s][i - 1].n < got[s][i].n
                         /\ ~(m.shared /\ IsDynamic(m)) => got[s][i].text = m.text
                    /\ \A i \in DOMAIN heard[s] :
                         Decrypts(asked[s][i].size) => heard[s][i] = asked[s][i].text
                    /\ AtRest(s) /\ (\A n \in DOMAIN sent[s] : ~Negative(sent[s][n].size)) =>
                         Len(got[s]) = Len(sent[s])
  BY DEF Readable
<1>1. WireTypes /\ SessionInv(s)
  BY DEF WireInv
<1>2. PICK k \in Nat : k = Len(sent[s])
  BY <1>1 DEF WireTypes
<1>3. PICK g : g = got[s]
  OBVIOUS
<1>4. g = got[s] /\ k = Len(sent[s])
  BY <1>2, <1>3
<1>5. g \in Seq([n : Nat, text : Bytes]) /\ Rising(g) /\ Numbers(g) \subseteq 1 .. k
  BY <1>1, <1>4 DEF WireTypes, SessionInv, Sequenced, InOrder
<1>6. ASSUME NEW i \in DOMAIN g
      PROVE  /\ i > 1 => g[i - 1].n < g[i].n
             /\ LET m == sent[s][g[i].n] IN ~(m.shared /\ IsDynamic(m)) => g[i].text = m.text
  <2>1. i > 1 => i - 1 \in DOMAIN g /\ i - 1 < i
    BY <1>5
  <2>2. i > 1 => g[i - 1].n < g[i].n
    BY <1>5, <2>1 DEF Rising
  <2>3. g[i] \in ToSet(g)
    BY DEF ToSet
  <2> QED
    BY <1>1, <1>4, <2>2, <2>3 DEF SessionInv, Coming
<1>7. \A i \in DOMAIN heard[s] : Decrypts(asked[s][i].size) => heard[s][i] = asked[s][i].text
  BY <1>1 DEF SessionInv, Asking
<1>8. ASSUME AtRest(s), Short(s) PROVE Len(g) = k
  <2>1. ~broken[s] /\ outbox[s] = <<>> /\ batch[s] = <<>> /\ down[s] = <<>>
    BY <1>1, <1>8 DEF SessionInv, Whole, AtRest
  <2>2. 0 .. k \subseteq Numbers(g) \cup {0}
    BY <1>1, <1>4, <1>8, <2>1, NumbersNone DEF SessionInv, Whole
  <2>3. \A i \in 1 .. k : i \in 0 .. k /\ i # 0
    OBVIOUS
  <2>4. Numbers(g) = 1 .. k
    BY <1>5, <2>2, <2>3
  <2>5. PICK X : X = [n : Nat, text : Bytes]
    OBVIOUS
  <2> QED
    BY <1>5, <2>4, <2>5, RisingAll
<1> QED
  BY <1>4, <1>6, <1>7, <1>8 DEF Short

\* In every state a session's messages are in order, none is lost, and each is as it was sent
\* or encrypted once (PostMessageList, MyFilter::Write).
THEOREM WireAlways == WireSpec => []WireInv
<1>1. WireInit => WireInv
  BY WireInitially
<1>2. WireInv /\ [WireNext]_wireVars => WireInv'
  BY WireStep
<1> QED
  BY <1>1, <1>2, PTL DEF WireSpec

\* What a client reads is what its handler sent, in order and without a gap, and what the
\* handler gets is what the client asked (Readable), with every number of sessions,
\* whatever numbers they draw, and for every size and number of messages.
THEOREM MessagesReadable == WireSpec => []Readable
<1>1. WireInv => Readable
  BY InvReadable
<1> QED
  BY <1>1, WireAlways, PTL
=============================================================================
