-------------------------------- MODULE Army --------------------------------
(***************************************************************************)
(* The army build queues of the small map worker.  A player orders         *)
(* soldiers in camps; every camp builds its queue front to back, one       *)
(* soldier per timer; a finished soldier takes a slot of the army list in  *)
(* redis while the population limit allows it.  The queues live in the     *)
(* worker while the player is online and in redis in between.              *)
(*                                                                         *)
(* One player is modelled.  Time is counted in ticks of a second; what the *)
(* code stores as an absolute time is kept here as its distance from now,  *)
(* cut off at Horizon.  The worker runs its handlers one after the other   *)
(* (one io_service, one thread), so a handler is a step; the PvP worker is *)
(* another process and reports a death in three redis commands.            *)
(***************************************************************************)
EXTENDS Integers, Sequences, SequencesExt, FiniteSets

CONSTANTS
    Camps,          \* camps of the player
    Kinds,          \* soldier type and level
    Refused,        \* the kinds soldier_is_unlock answers true for
    BuildTime,      \* [Kinds -> ticks]
    Cost,           \* [Kinds -> wood]
    Population,     \* [Kinds -> population a soldier takes]
    PopLimit,       \* abt#popu
    RetryTime,      \* the 30 second retry of a blocked camp, in ticks
    Wood,           \* resources at the start
    Diamonds,       \* balance at the start
    Numbers,        \* numbers a request may name
    Foreign,        \* what the lists of players whose uid begins with the same digits hold
    Horizon,        \* bound: times further away are not told apart
    MaxRequests,    \* bound on requests, deaths and crashes
    Hole,           \* the "#" of a free slot
    None

ASSUME ArmyAssumption ==
    /\ Refused \subseteq Kinds
    /\ BuildTime \in [Kinds -> Nat \ {0}]
    /\ Cost \in [Kinds -> Nat]
    /\ Population \in [Kinds -> Nat \ {0}]
    /\ PopLimit \in Nat /\ RetryTime \in Nat \ {0}
    /\ Wood \in Nat /\ Diamonds \in Nat
    /\ Numbers \subseteq Nat \ {0}
    /\ Horizon \in Nat /\ MaxRequests \in Nat
    /\ Hole \notin Kinds /\ None \notin Kinds \cup {Hole}
    /\ IsFiniteSet(Camps)
    /\ None \notin [armys : Seq([kind : Kinds, num : Int]), age : Int, block : BOOLEAN]
    /\ None \notin [slot : Nat, kind : Kinds \cup {Hole}, freed : BOOLEAN]
    /\ Foreign \subseteq [armys : Seq([kind : Kinds, num : Int]), age : Int, block : BOOLEAN]

VARIABLES
    online,     \* m_uid2buildqueue holds the player's ArmysBuildQueue
    queue,      \* [Camps -> None or a TimerQueue]: camp_queue
    timer,      \* [Camps -> deadline timer]: armed wait, its expiry, expired waits
    stored,     \* [Camps -> None or what the redis list camp#uid#camp holds]
    wood, diamonds,     \* abt#wood in redis, balance in mysql
    army,       \* the redis list army#uid
    count,      \* the redis fields army#kind
    curPopu,    \* abt#curPopu
    dying,      \* setSoldierDie between its commands, in the PvP worker
    requests    \* how many requests, deaths and crashes there were

vars == <<online, queue, timer, stored, wood, diamonds, army, count, curPopu, dying, requests>>
soldiers == <<army, count, curPopu>>
-----------------------------------------------------------------------------
Least(a, b) == IF a <= b THEN a ELSE b
Most(a, b) == IF a >= b THEN a ELSE b

\* A soldier entry of a queue; soldier_num is signed and does go below zero.
Entry(k, n) == [kind |-> k, num |-> n]

\* TimerQueue: its entries, the age of begin_build_time, is_block.
NewTimerQueue == [armys |-> <<>>, age |-> 0, block |-> FALSE]

\* A deadline timer: at most one armed wait; exp is expires_at() - now; ready
\* counts expired waits whose handler has not run yet.
IdleTimer == [armed |-> FALSE, exp |-> 0, ready |-> 0]

\* timer.cancel() and expires_at() abort the armed wait; a wait that has
\* expired already is in the io_service's queue and keeps its success code.
CancelTimer(q, t) == IF q.armys = <<>> THEN t ELSE [t EXCEPT !.armed = FALSE]

\* registerTime: begin_build_time is age ticks ago, and the timer is set to
\* secs ticks after it, or to the front entry's build time when secs is zero.
\* Nothing happens to an empty queue.
RegisterTime(q, t, age, secs) ==
    IF q.armys = <<>> THEN [q |-> q, t |-> t]
    ELSE LET wait == IF secs = 0 THEN BuildTime[Head(q.armys).kind] ELSE secs IN
         [q |-> [q EXCEPT !.age = age],
          t |-> [t EXCEPT !.armed = TRUE, !.exp = wait - age]]

\* Faulty variant: the loop over the entries starts at the second.
SavedWithoutFront(q) == IF q.armys = <<>> THEN q ELSE [q EXCEPT !.armys = Tail(@)]

\* How far a handler gets that writes a list: to its end, or the worker ends when the
\* handler has done all but the write, or between the two commands of the write.
Ends == {"done", "unsaved", "deleted"}

\* writeIntoRedis: the list is deleted, and pushed anew in a second command.
Saved(q) == q
Written(c, q, end) ==
    stored' = CASE end = "done" -> [stored EXCEPT ![c] = Saved(q)]
                [] end = "unsaved" -> stored
                [] end = "deleted" -> [stored EXCEPT ![c] = None]

\* Every answer to an order, and every notice of a soldier that is done, writes the
\* camp's queue first.
SendProcessResultToUser(c, q, end) == Written(c, q, end)
SendSoldierIsComplete(c, q, end) == Written(c, q, end)

\* The worker's memory after a handler that got that far: queues and timers, or nothing.
NoQueues == [c \in Camps |-> None]
NoTimers == [c \in Camps |-> IdleTimer]
Leaves(end, q, t) ==
    IF end = "done" THEN online' = TRUE /\ queue' = q /\ timer' = t
    ELSE online' = FALSE /\ queue' = NoQueues /\ timer' = NoTimers

\* The destructor of ArmysBuildQueue writes the lists one after the other; those of
\* `saved` are written, that of `cut` is deleted and not pushed.
Live == {c \in Camps : queue[c] # None}
WrittenUpTo(saved, cut) ==
    stored' = [c \in Camps |-> CASE c \in saved -> Saved(queue[c])
                                  [] c = cut -> None
                                  [] OTHER -> stored[c]]

\* soldier_is_unlock, which answers true for what may not be built.
SoldierIsUnlock(k) == k \in Refused

\* insertToBuildedArmyQueue: how many soldiers of a kind the limit still takes.
Room(k, popu) == IF popu > PopLimit THEN 0 ELSE (PopLimit - popu) \div Population[k]

\* Faulty variant: without a free slot the last one is taken.
LastSlot(a) ==
    IF \E i \in 1..Len(a) : a[i] = Hole
    THEN CHOOSE i \in 1..Len(a) : a[i] = Hole /\ \A j \in 1..(i-1) : a[j] # Hole
    ELSE Most(Len(a), 1)

\* finishCreateSoldier.lua: the first free slot, or a new one at the end.
FirstSlot(a) ==
    IF \E i \in 1..Len(a) : a[i] = Hole
    THEN CHOOSE i \in 1..Len(a) : a[i] = Hole /\ \A j \in 1..(i-1) : a[j] # Hole
    ELSE Len(a) + 1

Insert(s, k) ==
    LET i == FirstSlot(s.army) IN
    [army |-> IF i > Len(s.army) THEN Append(s.army, k) ELSE [s.army EXCEPT ![i] = k],
     count |-> [s.count EXCEPT ![k] = @ + 1],
     popu |-> s.popu + Population[k]]

\* n calls of it that all succeed.
InsertMany(s, k, n) ==
    LET after[i \in 0..n] == IF i = 0 THEN s ELSE Insert(after[i-1], k)
    IN after[n]

Army == [army |-> army, count |-> count, popu |-> curPopu]

\* A camp with soldiers in its queue.
Busy(c) == queue[c] # None /\ queue[c].armys # <<>>

SetArmy(s) == /\ army' = s.army
              /\ count' = s.count
              /\ curPopu' = s.popu
-----------------------------------------------------------------------------
\* One entry of newTimerQueueFromRedis.  The loop runs while soldier_num >= 0,
\* so it can build one soldier more than the entry holds, and an entry that is
\* just finished is put back with number 0.
Restore(r, e) ==
    LET T == BuildTime[e.kind]
        byTime == Most(r.td, 0) \div T
        byPopu == Room(e.kind, r.s.popu)
        turns == Most(e.num + 1, 0)
        n == Least(turns, Least(byTime, byPopu))
        left == Entry(e.kind, e.num - n)
        built == InsertMany(r.s, e.kind, n)
    IN CASE e.num = 0 -> r
         [] e.num # 0 /\ r.direct -> [r EXCEPT !.q.armys = Append(@, e)]
         [] e.num # 0 /\ ~r.direct /\ n = turns ->
              [r EXCEPT !.s = built, !.td = @ - n * T]
         [] e.num # 0 /\ ~r.direct /\ n < turns /\ n = byTime ->
              LET reg == RegisterTime([r.q EXCEPT !.armys = Append(@, left)],
                                      r.t, r.td - n * T, 0)
              IN [r EXCEPT !.s = built, !.q = reg.q, !.t = reg.t, !.direct = TRUE]
         [] OTHER ->
              [r EXCEPT !.s = built, !.direct = TRUE,
                        !.q.armys = Append(@, left), !.q.block = TRUE]

\* newTimerQueueFromRedis: a list without entries creates no queue.  A queue
\* that was or becomes blocked waits for the retry.
NewTimerQueueFromRedis(s, l, t) ==
    IF l = None \/ l.armys = <<>> THEN [s |-> s, q |-> None, t |-> t]
    ELSE LET start == [s |-> s, td |-> l.age, direct |-> l.block, t |-> t,
                       q |-> [NewTimerQueue EXCEPT !.block = l.block]]
             r == FoldLeft(Restore, start, l.armys)
             reg == IF r.q.block THEN RegisterTime(r.q, r.t, 0, RetryTime)
                    ELSE [q |-> r.q, t |-> r.t]
         IN [s |-> r.s, q |-> reg.q, t |-> reg.t]

\* What the destructor of a queue leaves of its timer: an expired wait stays behind.
Stopped(t) == [IdleTimer EXCEPT !.ready = t.ready]

\* The constructor of ArmysBuildQueue reads each list that `keys camp#uid*' finds, in
\* whatever order redis returns them, under the camp named behind its last '#': the
\* player's own lists, and those of every player whose uid begins with his.  A list
\* read later takes the place of the queue that the same camp has got before.
Keys == Camps \X {"own", "other"}
KeyOrders == SetToSeqs(Keys)

Load(a, c, l) ==
    LET r == NewTimerQueueFromRedis(a.s, l, Stopped(a.t[c]))
    IN IF r.q = None THEN a
       ELSE [s |-> r.s, q |-> [a.q EXCEPT ![c] = r.q], t |-> [a.t EXCEPT ![c] = r.t]]

Construct(order, others) ==
    LET step(a, key) == Load(a, key[1], IF key[2] = "own" THEN stored[key[1]] ELSE others[key[1]])
    IN FoldLeft(step, [s |-> Army, q |-> NoQueues, t |-> timer], order)

\* findUid: the player's queues, created when they are not in the table.
FindUid == IF online THEN {[s |-> Army, q |-> queue, t |-> timer]}
           ELSE {Construct(order, others) : order \in KeyOrders,
                                            others \in [Camps -> Foreign \cup {None}]}

Request == requests < MaxRequests /\ requests' = requests + 1
-----------------------------------------------------------------------------
Init ==
    /\ online = FALSE
    /\ queue = NoQueues
    /\ timer = NoTimers
    /\ stored = [c \in Camps |-> None]
    /\ wood = Wood /\ diamonds = Diamonds
    /\ army = <<>> /\ count = [k \in Kinds |-> 0] /\ curPopu = 0
    /\ dying = None
    /\ requests = 0

\* uidOnline.
Login ==
    /\ Request
    /\ \E a \in FindUid : queue' = a.q /\ timer' = a.t /\ SetArmy(a.s)
    /\ online' = TRUE
    /\ UNCHANGED <<stored, wood, diamonds, dying>>

\* uidOffline: the destructor cancels the timers and saves every queue; the worker may
\* end on the way.  An expired wait that has not run yet refers to the object that is gone.
Logout ==
    /\ Request
    /\ online
    /\ online' = FALSE
    /\ queue' = NoQueues
    /\ \/ /\ WrittenUpTo(Live, None)
          /\ timer' = [c \in Camps |-> IF c \in Live THEN Stopped(timer[c]) ELSE timer[c]]
       \/ /\ \E saved \in SUBSET Live : \E cut \in (Live \ saved) \cup {None} : WrittenUpTo(saved, cut)
          /\ timer' = NoTimers
    /\ UNCHANGED <<wood, diamonds, soldiers, dying>>

\* addSoldiers: the camp's queue is created first; a refused kind ends there.
\* The price is taken by manUserResource.lua, which answers false and takes
\* nothing when there is not enough wood.
AddTo(q, k, n) ==
    IF \E i \in 1..Len(q.armys) : q.armys[i].kind = k
    THEN LET i == CHOOSE j \in 1..Len(q.armys) :
                     q.armys[j].kind = k /\ \A h \in 1..(j-1) : q.armys[h].kind # k
         IN [q EXCEPT !.armys[i].num = @ + n]
    ELSE [q EXCEPT !.armys = Append(@, Entry(k, n))]

AddSoldiers(c, k, n) ==
    /\ Request
    /\ \E a \in FindUid, end \in Ends :
         LET q == IF a.q[c] = None THEN NewTimerQueue ELSE a.q[c]
             t == a.t[c]
             paid == ~SoldierIsUnlock(k) /\ wood >= Cost[k] * n
             more == AddTo(q, k, n)
             r == IF q.armys = <<>> THEN RegisterTime(more, t, 0, 0) ELSE [q |-> more, t |-> t]
             new == IF paid THEN r ELSE [q |-> q, t |-> t]
         IN /\ Leaves(end, [a.q EXCEPT ![c] = new.q], [a.t EXCEPT ![c] = new.t])
            /\ IF SoldierIsUnlock(k) THEN end = "done" /\ UNCHANGED stored
               ELSE SendProcessResultToUser(c, new.q, end)
            /\ wood' = IF paid THEN wood - Cost[k] * n ELSE wood
            /\ SetArmy(a.s)
    /\ UNCHANGED <<diamonds, dying>>

\* delSoliders.  The refund is half the price of the number the request names,
\* whatever the entry still holds.
DelSoliders(c, k, n) ==
    /\ Request
    /\ \E a \in FindUid, end \in Ends :
         LET q == a.q[c]
             t == a.t[c]
             at == IF q = None THEN {} ELSE {i \in 1..Len(q.armys) : q.armys[i].kind = k}
             i == CHOOSE j \in at : \A h \in at : j <= h
             num == q.armys[i].num - n
             rest == [q EXCEPT !.armys = IF num <= 0 THEN RemoveAt(@, i)
                                         ELSE [@ EXCEPT ![i].num = num]]
             r == IF i = 1 /\ num <= 0 THEN RegisterTime(rest, CancelTimer(q, t), 0, 0)
                  ELSE [q |-> rest, t |-> t]
         IN /\ SetArmy(a.s)
            /\ \/ /\ at = {} /\ end = "done"
                  /\ Leaves(end, a.q, a.t)
                  /\ UNCHANGED <<stored, wood>>
               \/ /\ at # {}
                  /\ Leaves(end, [a.q EXCEPT ![c] = r.q], [a.t EXCEPT ![c] = r.t])
                  /\ SendProcessResultToUser(c, r.q, end)
                  /\ wood' = wood + (Cost[k] \div 2) * n
    /\ UNCHANGED <<diamonds, dying>>

\* The price of completeAtOnce: one diamond per started five minutes of what is
\* left, of which only the seconds field of the elapsed time is taken off.
Quotient(n, d) == IF n >= 0 THEN n \div d ELSE -((-n) \div d)
SecondsField(n) == IF n >= 0 THEN n % 60 ELSE -((-n) % 60)
DiamondPrice(q) ==
    LET total == FoldLeft(LAMBDA sum, e : sum + e.num * BuildTime[e.kind], 0, q.armys)
    IN Quotient(total - SecondsField(q.age), 300) + 1

\* Every soldier that still finds room; what does not is dropped.
Complete(s, e) == InsertMany(s, e.kind, Least(Most(e.num, 0), Room(e.kind, s.popu)))

\* completeAtOnce.  subDiamond writes the balance and then takes a row count
\* other than zero for a failure; which count the library returns for an
\* UPDATE is not known here, so a charge may go either way.
CompleteAtOnce(c) ==
    /\ Request
    /\ \E a \in FindUid, charged, ok \in BOOLEAN, end \in Ends :
         LET q == a.q[c]
             price == DiamondPrice(q)
         IN \/ /\ q = None /\ ~charged /\ ~ok /\ end = "done"
               /\ Leaves(end, a.q, a.t) /\ SetArmy(a.s)
               /\ UNCHANGED <<stored, diamonds>>
            \/ /\ q # None
               /\ charged = (diamonds >= price)
               /\ ok => charged
               /\ diamonds' = IF charged THEN diamonds - price ELSE diamonds
               /\ IF ok
                  THEN /\ SetArmy(FoldLeft(Complete, a.s, q.armys))
                       /\ Leaves(end, [a.q EXCEPT ![c] = NewTimerQueue],
                                 [a.t EXCEPT ![c] = CancelTimer(q, @)])
                       /\ Written(c, NewTimerQueue, end)
                  ELSE /\ end = "done" /\ Leaves(end, a.q, a.t) /\ SetArmy(a.s)
                       /\ UNCHANGED stored
    /\ UNCHANGED <<wood, dying>>

\* The armed wait of a camp expires.
Expire(c) ==
    /\ timer[c].armed /\ timer[c].exp <= 0
    /\ timer' = [timer EXCEPT ![c].armed = FALSE, ![c].ready = @ + 1]
    /\ UNCHANGED <<online, queue, stored, wood, diamonds, soldiers, dying, requests>>

\* Faulty variant: the soldier that would fill the population up is held back.
FitsStrictly(k) == Room(k, curPopu) > 1

\* The script takes one more soldier of the kind.
Fits(k) == Room(k, curPopu) > 0

\* timeIsUp of an expired wait: one soldier of the front entry, saved with the
\* begin_build_time it had, then the next wait; or, with the population full,
\* the retry.  For a queue object that is gone the handler finds no camp.
TimeIsUp(c) ==
    /\ timer[c].ready > 0
    /\ LET q == queue[c]
           t == [timer[c] EXCEPT !.ready = @ - 1]
           k == Head(q.armys).kind
           fits == Fits(k)
           rest == IF Head(q.armys).num = 1 THEN Tail(q.armys)
                   ELSE [q.armys EXCEPT ![1].num = @ - 1]
           built == [q EXCEPT !.block = FALSE, !.armys = rest]
           r == IF fits THEN RegisterTime(built, t, -t.exp, 0)
                ELSE RegisterTime([q EXCEPT !.block = TRUE], t, -t.exp, RetryTime)
       IN \/ /\ ~Busy(c)
             /\ timer' = [timer EXCEPT ![c] = t]
             /\ UNCHANGED <<online, queue, stored, soldiers>>
          \/ /\ Busy(c) /\ fits
             /\ SetArmy(Insert(Army, k))
             /\ \E end \in Ends : /\ SendSoldierIsComplete(c, built, end)
                                 /\ Leaves(end, [queue EXCEPT ![c] = r.q], [timer EXCEPT ![c] = r.t])
          \/ /\ Busy(c) /\ ~fits
             /\ queue' = [queue EXCEPT ![c] = r.q]
             /\ timer' = [timer EXCEPT ![c] = r.t]
             /\ UNCHANGED <<online, stored, soldiers>>
    /\ UNCHANGED <<wood, diamonds, dying, requests>>

\* A second passes.
Older(q) == IF q = None \/ q.armys = <<>> THEN q ELSE [q EXCEPT !.age = Least(@ + 1, Horizon)]
Nearer(t) == IF t.armed \/ t.ready > 0 THEN [t EXCEPT !.exp = Most(@ - 1, -Horizon)] ELSE t
Tick ==
    /\ queue' = [c \in Camps |-> Older(queue[c])]
    /\ stored' = [c \in Camps |-> Older(stored[c])]
    /\ timer' = [c \in Camps |-> Nearer(timer[c])]
    /\ UNCHANGED <<online, wood, diamonds, soldiers, dying, requests>>

\* The worker process ends and is started again.
Crash ==
    /\ Request
    /\ online' = FALSE
    /\ queue' = NoQueues
    /\ timer' = NoTimers
    /\ UNCHANGED <<stored, wood, diamonds, soldiers, dying>>

\* setSoldierDie in the PvP worker: the slot is read, freed, and the number of what
\* was read taken down, in three commands; abt#curPopu stays.  The slot may have been
\* free: a death that is reported twice reads the "#" of the first report.
ReadSlot(i) ==
    /\ Request
    /\ dying = None
    /\ dying' = [slot |-> i, kind |-> army[i], freed |-> FALSE]
    /\ UNCHANGED <<online, queue, timer, stored, wood, diamonds, soldiers>>

FreeSlot ==
    /\ dying # None /\ ~dying.freed
    /\ army' = [army EXCEPT ![dying.slot] = Hole]
    /\ dying' = [dying EXCEPT !.freed = TRUE]
    /\ UNCHANGED <<online, queue, timer, stored, wood, diamonds, count, curPopu, requests>>

CountDown ==
    /\ dying # None /\ dying.freed
    /\ count' = [k \in Kinds |-> IF k = dying.kind THEN count[k] - 1 ELSE count[k]]
    /\ dying' = None
    /\ UNCHANGED <<online, queue, timer, stored, wood, diamonds, army, curPopu, requests>>

PlayerRequest ==
    \/ Login
    \/ Logout
    \/ \E c \in Camps, k \in Kinds, n \in Numbers : AddSoldiers(c, k, n) \/ DelSoliders(c, k, n)
    \/ \E c \in Camps : CompleteAtOnce(c)

Timers == \E c \in Camps : Expire(c) \/ TimeIsUp(c)

SoldierDie == (\E i \in 1..Len(army) : ReadSlot(i)) \/ FreeSlot \/ CountDown

Next == PlayerRequest \/ Timers \/ Tick \/ Crash \/ SoldierDie

Spec == Init /\ [][Next]_vars

\* The io_service runs expired waits and time passes; nobody must send requests.
Fairness ==
    /\ WF_vars(Tick)
    /\ \A c \in Camps : WF_vars(Expire(c)) /\ WF_vars(TimeIsUp(c))

FairSpec == Spec /\ Fairness
-----------------------------------------------------------------------------
\* CountAgrees: the number kept per kind follows the number of that kind's slots in the
\* army list, from the empty list on and a death that is half written included,
\* although the lists are written by two workers.  One thing parts them, by one more
\* each time: a death reported a second time found the slot free, the small map worker
\* filled it, and then the report freed it again.
SlotsOf(k) == Cardinality({i \in 1..Len(army) : army[i] = k})
Surplus(k) ==
    count[k] - SlotsOf(k) - (IF dying # None /\ dying.freed /\ dying.kind = k THEN 1 ELSE 0)
Erased(k) == FreeSlot /\ dying.kind = Hole /\ army[dying.slot] = k
CountAgrees ==
    [][\A k \in Kinds : Surplus(k)' = Surplus(k) + (IF Erased(k) THEN 1 ELSE 0)]_vars

\* time_remain: what a player who logs in is shown for a camp.
TimeRemain(c) ==
    IF queue[c] = None THEN -1
    ELSE IF queue[c].block \/ queue[c].armys = <<>> THEN 0
    ELSE BuildTime[Head(queue[c].armys).kind] - queue[c].age

\* getCampInfo, sent at login: what is queued in a camp, and for how long.
CampInfo(c) == [camp |-> queue[c].armys, time_remain |-> TimeRemain(c)]

\* TimeShown: a camp that builds has a timer whose wait is pending, and the time the
\* player is shown is what that timer has to go: begin_build_time, the front of the
\* queue and the timer are changed together by orders, deletions, expired waits,
\* blocked camps and the restoration from redis.
TimeShown ==
    \A c \in Camps : Busy(c) /\ ~queue[c].block /\ queue[c].age < Horizon =>
        /\ CampInfo(c).time_remain = timer[c].exp
        /\ timer[c].armed \/ timer[c].ready > 0

\* SavedAtOnce: what a step makes of a camp's orders while the player is there, the
\* first order of an empty camp included, is in redis at the end of that step (what
\* login itself builds is not written back).  When the worker ends, in a handler or
\* between two, every camp's list holds the orders it had or those of the queue, but
\* for one camp at most: that whose list was deleted and not yet pushed.
Orders(q) == IF q = None THEN <<>> ELSE q.armys
Kept(c) == stored'[c] # None /\ Orders(stored'[c]) = Orders(queue'[c])
Intact(c) == stored'[c] # None /\ Orders(stored'[c]) \in {Orders(stored[c]), Orders(queue[c])}
SavedAtOnce ==
    [][\A c \in Camps :
          /\ online /\ online' /\ Orders(queue'[c]) # Orders(queue[c]) => Kept(c)
          /\ ~online' /\ stored[c] # None =>
                Intact(c) \/ (stored'[c] = None /\ \A d \in Camps \ {c} :
                                  stored[d] # None => Intact(d))]_vars

\* OrdersProgress: what is queued is built in the end, unless the player leaves, the
\* worker goes down or the population has no room for the soldier in front.
Full(c) == Room(Head(queue[c].armys).kind, curPopu) = 0
OrdersProgress == \A c \in Camps : Busy(c) ~> (~Busy(c) \/ Full(c))
=============================================================================
