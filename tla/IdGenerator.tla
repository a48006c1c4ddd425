----------------------------- MODULE IdGenerator -----------------------------
(***************************************************************************)
(* The session ids of the gateway: IDGenerator of sdk/id_generator.h as    *)
(* TCPIOThreadManager uses it.  OnSessionConnect takes an id with Get      *)
(* unless more than MAX_CONNECTION_NUM handlers are registered;            *)
(* OnSessionClose gives it back with Put.  Ids are unsigned integers of    *)
(* fixed width, so ++next_ at MaxId wraps to 0.                            *)
(***************************************************************************)
EXTENDS Integers, Sequences, FiniteSets, Functions

CONSTANTS
    MaxId,           \* numeric_limits<uint32_t>::max()
    Threshold,       \* ids rest in the pool until it holds more than this many
    MaxConnections   \* MAX_CONNECTION_NUM

\* The sizes of the code (MaxId = 2^32 - 1, 4096 and 10000) satisfy this.
ASSUME IdAssumption ==
    /\ MaxId \in Nat /\ Threshold \in Nat /\ MaxConnections \in Nat
    /\ MaxConnections + Threshold + 2 <= MaxId

VARIABLES
    live,   \* ids of the registered handlers (keys of session_handler_map_)
    next,   \* next_
    pool    \* pool_, oldest first

vars == <<live, next, pool>>

Init == live = {} /\ next = 1 /\ pool = <<>>

\* Faulty variant: the id stays in the pool.
ConnectNoPop ==
    /\ Cardinality(live) <= MaxConnections
    /\ IF Len(pool) > Threshold
       THEN live' = live \cup {Head(pool)} /\ UNCHANGED <<pool, next>>
       ELSE /\ live' = live \cup {next}
            /\ next' = (next + 1) % (MaxId + 1)
            /\ UNCHANGED pool

\* OnSessionConnect: the connection limit, then IDGenerator::Get.
\* With next_ > max_ Get returns no id; next_ cannot exceed MaxId here, since
\* it wraps.
Connect ==
    /\ Cardinality(live) <= MaxConnections
    /\ IF Len(pool) > Threshold
       THEN /\ live' = live \cup {Head(pool)}
            /\ pool' = Tail(pool)
            /\ UNCHANGED next
       ELSE /\ live' = live \cup {next}
            /\ next' = (next + 1) % (MaxId + 1)
            /\ UNCHANGED pool

\* OnSessionClose of a registered id: erase and Put.
Close(id) ==
    /\ live' = live \ {id}
    /\ pool' = Append(pool, id)
    /\ UNCHANGED next

Next == Connect \/ \E id \in live : Close(id)

Spec == Init /\ [][Next]_vars

-----------------------------------------------------------------------------
\* Ids lie in 1 .. MaxId; 0 is the invalid id.
TypeOK ==
    /\ live \subseteq 1 .. MaxId
    /\ next \in 1 .. MaxId
    /\ pool \in Seq(1 .. MaxId)

\* "Generates unique id": the id Get is about to hand out is not in use, so the
\* insert into session_handler_map_ in OnSessionConnect succeeds.
FreshId ==
    /\ next \notin live
    /\ \A i \in DOMAIN pool : pool[i] \notin live

\* An id waits in the pool at most once.
PooledOnce == IsInjective(pool)

\* The generator never comes near the end of its range: fresh ids are handed out
\* only while the pool is small, and the number of connections is limited.
NoWrap == next <= MaxConnections + Threshold + 2

\* Every id ever handed out is in use or in the pool: none leaks.
NoLeak == Cardinality(live) + Len(pool) = next - 1

=============================================================================
