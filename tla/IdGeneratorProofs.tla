-------------------------- MODULE IdGeneratorProofs --------------------------
(***************************************************************************)
(* The id generator hands out unique ids and never wraps, for every size   *)
(* of the id space, the pool threshold and the connection limit.           *)
(***************************************************************************)
EXTENDS IdGenerator, SequenceTheorems, FiniteSetTheorems, TLAPS

\* Ids in use or in the pool have been handed out, that is, lie below next.
Issued ==
    /\ live \subseteq 1 .. next - 1
    /\ \A i \in DOMAIN pool : pool[i] \in 1 .. next - 1

IInv == TypeOK /\ FreshId /\ PooledOnce /\ NoWrap /\ NoLeak /\ Issued
        /\ IsFiniteSet(live)

\* The pool without its first id.
LEMMA PopFront ==
    ASSUME NEW p \in Seq(1 .. MaxId), IsInjective(p), Len(p) > 0
    PROVE  /\ Head(p) \in 1 .. MaxId /\ Tail(p) \in Seq(1 .. MaxId)
           /\ Len(Tail(p)) = Len(p) - 1
           /\ IsInjective(Tail(p))
           /\ 1 \in DOMAIN p /\ Head(p) = p[1]
           /\ \A i \in DOMAIN Tail(p) : i + 1 \in DOMAIN p /\ Tail(p)[i] = p[i + 1]
           /\ \A i \in DOMAIN Tail(p) : Tail(p)[i] # Head(p)
<1>1. p # <<>>
  OBVIOUS
<1>2. /\ Head(p) \in 1 .. MaxId /\ Tail(p) \in Seq(1 .. MaxId)
      /\ Len(Tail(p)) = Len(p) - 1 /\ Head(p) = p[1]
      /\ \A i \in 1 .. Len(Tail(p)) : Tail(p)[i] = p[i + 1]
  <2>1. Head(p) \in 1 .. MaxId /\ Tail(p) \in Seq(1 .. MaxId)
    BY <1>1, HeadTailProperties
  <2>2. Len(Tail(p)) = Len(p) - 1
    BY <1>1
  <2>3. Head(p) = p[1]
    BY <1>1
  <2>4. \A i \in 1 .. Len(Tail(p)) : Tail(p)[i] = p[i + 1]
    BY <1>1, <2>2
  <2> QED
    BY <2>1, <2>2, <2>3, <2>4
<1>3. DOMAIN p = 1 .. Len(p) /\ DOMAIN Tail(p) = 1 .. Len(p) - 1 /\ Len(p) \in Nat
  BY <1>2
<1>4. \A i \in DOMAIN Tail(p) :
        i \in Int /\ i + 1 \in DOMAIN p /\ Tail(p)[i] = p[i + 1] /\ i + 1 # 1
  BY <1>2, <1>3
<1>5. 1 \in DOMAIN p
  BY <1>3
<1>6. IsInjective(Tail(p))
  BY <1>4 DEF IsInjective
<1>7. \A i \in DOMAIN Tail(p) : Tail(p)[i] # Head(p)
  BY <1>2, <1>4, <1>5 DEF IsInjective
<1> QED
  BY <1>2, <1>4, <1>5, <1>6, <1>7

\* The pool with one more id.
LEMMA PushBack ==
    ASSUME NEW p \in Seq(1 .. MaxId), NEW id \in 1 .. MaxId, IsInjective(p),
           \A i \in DOMAIN p : p[i] # id
    PROVE  /\ Append(p, id) \in Seq(1 .. MaxId)
           /\ Len(Append(p, id)) = Len(p) + 1
           /\ \A i \in DOMAIN Append(p, id) :
                (i \in DOMAIN p /\ Append(p, id)[i] = p[i]) \/ Append(p, id)[i] = id
           /\ IsInjective(Append(p, id))
<1>1. Append(p, id) \in Seq(1 .. MaxId) /\ Len(Append(p, id)) = Len(p) + 1
  BY AppendProperties
<1>2. DOMAIN Append(p, id) = 1 .. Len(p) + 1 /\ Len(p) \in Nat /\ DOMAIN p = 1 .. Len(p)
  OBVIOUS
<1>3. /\ \A i \in 1 .. Len(p) : Append(p, id)[i] = p[i]
      /\ Append(p, id)[Len(p) + 1] = id
  BY AppendProperties
<1>4. \A i \in DOMAIN Append(p, id) :
        \/ i \in DOMAIN p /\ Append(p, id)[i] = p[i]
        \/ i = Len(p) + 1 /\ Append(p, id)[i] = id
  BY <1>2, <1>3
<1>5. IsInjective(Append(p, id))
  BY <1>4 DEF IsInjective
<1> QED
  BY <1>1, <1>4, <1>5

\* The generator starts with no id handed out.
LEMMA InitIInv == Init => IInv
<1> SUFFICES ASSUME Init PROVE IInv
  OBVIOUS
<1>1. IsFiniteSet(live) /\ Cardinality(live) = 0
  BY FS_EmptySet DEF Init
<1>2. pool = <<>> /\ Len(pool) = 0 /\ DOMAIN pool = {} /\ pool \in Seq(1 .. MaxId)
  BY DEF Init
<1>3. IsInjective(pool)
  BY <1>2 DEF IsInjective
<1> QED
  BY <1>1, <1>2, <1>3, IdAssumption
     DEF Init, IInv, TypeOK, FreshId, PooledOnce, NoWrap, NoLeak, Issued

\* Get and Put keep the inductive invariant.
LEMMA StepIInv == IInv /\ [Next]_vars => IInv'
<1> SUFFICES ASSUME IInv, [Next]_vars PROVE IInv'
  OBVIOUS
<1>T. /\ live \subseteq 1 .. MaxId /\ next \in 1 .. MaxId /\ next \in Nat
      /\ pool \in Seq(1 .. MaxId) /\ Len(pool) \in Nat
      /\ IsInjective(pool) /\ IsFiniteSet(live) /\ Cardinality(live) \in Nat
      /\ Cardinality(live) + Len(pool) = next - 1
      /\ MaxId \in Nat /\ Threshold \in Nat /\ MaxConnections \in Nat
  BY FS_CardinalityType, IdAssumption DEF IInv, TypeOK, PooledOnce, NoLeak
<1>1. CASE UNCHANGED vars
  BY <1>1 DEF vars, IInv, TypeOK, FreshId, PooledOnce, NoWrap, NoLeak, Issued
<1>2. CASE Connect /\ Len(pool) > Threshold
  <2>1. live' = live \cup {Head(pool)} /\ pool' = Tail(pool) /\ next' = next
    BY <1>2 DEF Connect
  <2>2. Len(pool) > 0
    BY <1>T, <1>2
  <2>3. /\ Head(pool) \in 1 .. MaxId /\ Tail(pool) \in Seq(1 .. MaxId)
        /\ Len(Tail(pool)) = Len(pool) - 1 /\ IsInjective(Tail(pool))
        /\ 1 \in DOMAIN pool /\ Head(pool) = pool[1]
        /\ \A i \in DOMAIN Tail(pool) :
             i + 1 \in DOMAIN pool /\ Tail(pool)[i] = pool[i + 1]
        /\ \A i \in DOMAIN Tail(pool) : Tail(pool)[i] # Head(pool)
    BY <1>T, <2>2, PopFront
  <2>4. Head(pool) \notin live /\ Head(pool) \in 1 .. next - 1
    BY <2>3 DEF IInv, FreshId, Issued
  <2>5. IsFiniteSet(live') /\ Cardinality(live') = Cardinality(live) + 1
    BY <1>T, <2>1, <2>4, FS_AddElement
  <2>6. TypeOK' /\ PooledOnce' /\ NoWrap'
    BY <1>T, <2>1, <2>3 DEF IInv, TypeOK, PooledOnce, NoWrap
  <2>7. Issued'
    BY <2>1, <2>3, <2>4 DEF IInv, Issued
  <2>8. FreshId'
    BY <1>T, <2>1, <2>3, <2>4 DEF IInv, FreshId
  <2>9. NoLeak'
    BY <1>T, <2>1, <2>3, <2>5 DEF NoLeak
  <2> QED
    BY <2>5, <2>6, <2>7, <2>8, <2>9 DEF IInv
<1>3. CASE Connect /\ ~(Len(pool) > Threshold)
  <2>1. /\ live' = live \cup {next} /\ pool' = pool
        /\ next' = (next + 1) % (MaxId + 1)
        /\ Cardinality(live) <= MaxConnections
    BY <1>3 DEF Connect
  <2>2. next <= MaxConnections + Threshold + 1 /\ next + 1 \in 1 .. MaxId
    BY <1>T, <1>3, <2>1, IdAssumption
  <2>3. next' = next + 1
    <3>1. \A a, b \in Nat : a < b => a % b = a
      OBVIOUS
    <3>2. next + 1 \in Nat /\ MaxId + 1 \in Nat /\ next + 1 < MaxId + 1
      BY <1>T, <2>2
    <3> QED
      BY <2>1, <3>1, <3>2
  <2>4. next \notin live
    BY DEF IInv, FreshId
  <2>5. IsFiniteSet(live') /\ Cardinality(live') = Cardinality(live) + 1
    BY <1>T, <2>1, <2>4, FS_AddElement
  <2>6. TypeOK' /\ PooledOnce' /\ NoWrap'
    BY <1>T, <2>1, <2>2, <2>3 DEF IInv, TypeOK, PooledOnce, NoWrap
  <2>7. Issued'
    BY <1>T, <2>1, <2>3 DEF IInv, Issued
  <2>8. FreshId'
    BY <1>T, <2>1, <2>3 DEF IInv, FreshId, Issued
  <2>9. NoLeak'
    <3>1. Cardinality(live') + Len(pool') = (next + 1) - 1
      BY <1>T, <2>1, <2>5
    <3> QED
      BY <2>3, <3>1 DEF NoLeak
  <2> QED
    BY <2>5, <2>6, <2>7, <2>8, <2>9 DEF IInv
<1>4. ASSUME NEW id \in live, Close(id) PROVE IInv'
  <2>1. live' = live \ {id} /\ pool' = Append(pool, id) /\ next' = next
    BY <1>4 DEF Close
  <2>2. id \in 1 .. MaxId /\ id \in 1 .. next - 1 /\ \A i \in DOMAIN pool : pool[i] # id
    BY <1>T DEF IInv, FreshId, Issued
  <2>3. /\ Append(pool, id) \in Seq(1 .. MaxId)
        /\ Len(Append(pool, id)) = Len(pool) + 1
        /\ \A i \in DOMAIN Append(pool, id) :
             \/ i \in DOMAIN pool /\ Append(pool, id)[i] = pool[i]
             \/ Append(pool, id)[i] = id
        /\ IsInjective(Append(pool, id))
    BY <1>T, <2>2, PushBack
  <2>4. IsFiniteSet(live') /\ Cardinality(live') = Cardinality(live) - 1
    BY <1>T, <2>1, FS_RemoveElement
  <2>5. TypeOK' /\ PooledOnce' /\ NoWrap'
    BY <1>T, <2>1, <2>3 DEF IInv, TypeOK, PooledOnce, NoWrap
  <2>6. Issued'
    BY <2>1, <2>2, <2>3 DEF IInv, Issued
  <2>7. FreshId'
    BY <2>1, <2>3 DEF IInv, FreshId
  <2>8. NoLeak'
    BY <1>T, <2>1, <2>3, <2>4 DEF NoLeak
  <2> QED
    BY <2>4, <2>5, <2>6, <2>7, <2>8 DEF IInv
<1> QED
  BY <1>1, <1>2, <1>3, <1>4 DEF Next

\* "Generates unique id": the id handed out is never one in use, whatever the
\* order of connects and closes and however the pool is filled.
THEOREM UniqueIds == Spec => [](TypeOK /\ FreshId /\ PooledOnce)
<1>1. IInv => TypeOK /\ FreshId /\ PooledOnce
  BY DEF IInv
<1> QED
  BY <1>1, InitIInv, StepIInv, PTL DEF Spec

\* With the connection limit and the pool threshold of the code the counter of
\* a 32-bit id never wraps, and ids do not leak.
THEOREM NeverWraps == Spec => [](NoWrap /\ NoLeak)
<1>1. IInv => NoWrap /\ NoLeak
  BY DEF IInv
<1> QED
  BY <1>1, InitIInv, StepIInv, PTL DEF Spec

=============================================================================
