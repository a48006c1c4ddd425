---------------------------- MODULE BrokerProofs ----------------------------
(***************************************************************************)
(* Theorems about the broker, and about the broker and its workers         *)
(* together, for every set of clients, workers, names and READY offers.    *)
(*                                                                         *)
(* The first part is about the broker alone: what its Service objects      *)
(* hold, whom it sends to, and that it implements Exchange.  The second is *)
(* that no request is handled or answered twice; its proof follows a       *)
(* request from the broker's queue over the channel and the worker's own   *)
(* queue to the handled ones, and a reply on its way back.                 *)
(***************************************************************************)
EXTENDS Mdp, SequenceTheorems, FiniteSetTheorems, TLAPS

-----------------------------------------------------------------------------
(* The operations on Service objects.                                      *)

\* Erasing workers from m_waiting leaves a list of workers of m_waiting.
LEMMA KeptType ==
    ASSUME NEW ws \in Seq(Workers), NEW keep, NEW v \in Kept(ws, keep)
    PROVE  /\ v \in Seq(Workers)
           /\ \A i \in DOMAIN v : \E p \in DOMAIN ws : ws[p] = v[i]
           /\ \A i \in DOMAIN v : v[i] \in keep
<1> DEFINE kept == Range(ws) \cap keep
<1>1. Range(ws) \subseteq Workers
  BY DEF Range
<1>2. IsFiniteSet(kept)
  BY <1>1, FS_Subset, BrokerAssumption
<1>3. Cardinality(kept) \in Nat
  BY <1>2, FS_CardinalityType
<1>4. v \in [1 .. Cardinality(kept) -> kept]
  BY DEF Kept
<1>5. v \in Seq(Workers)
  <2>1. v \in [1 .. Cardinality(kept) -> Workers]
    BY <1>1, <1>4
  <2> HIDE DEF kept
  <2> QED
    BY <2>1, <1>3, SeqDef
<1>6. \A i \in DOMAIN v : v[i] \in kept
  BY <1>4
<1> QED
  BY <1>5, <1>6 DEF Range

\* ... and never lists a worker twice if m_waiting does not.
LEMMA KeptOnce ==
    ASSUME NEW ws \in Seq(Workers), NEW keep, NEW v \in Kept(ws, keep),
           IsInjective(ws)
    PROVE  IsInjective(v)
<1>1. v \in Seq(Workers)
  BY KeptType
<1>2. SUFFICES ASSUME NEW i \in DOMAIN v, NEW j \in DOMAIN v, i < j
               PROVE  v[i] # v[j]
  <2>1. DOMAIN v = 1 .. Len(v) /\ Len(v) \in Nat
    BY <1>1
  <2> QED
    BY <1>2, <2>1 DEF IsInjective
<1>3. PICK p \in DOMAIN ws, q \in DOMAIN ws :
        p < q /\ ws[p] = v[i] /\ ws[q] = v[j]
  BY <1>2 DEF Kept
<1>4. DOMAIN ws \subseteq Int
  OBVIOUS
<1> QED
  BY <1>3, <1>4 DEF IsInjective

\* A sequence is empty or has a positive length.
LEMMA NonEmpty ==
    ASSUME NEW v \in Seq(Workers), v # <<>>
    PROVE  Len(v) \in Nat \ {0}
BY EmptySeq

\* Concatenation is associative.
LEMMA Assoc ==
    ASSUME NEW a \in Seq(Requests), NEW b \in Seq(Requests),
           NEW c \in Seq(Requests)
    PROVE  a \o (b \o c) = (a \o b) \o c
BY ConcatAssociative

\* Appending to the second of two sequences appends to their concatenation.
LEMMA AppendConcat ==
    ASSUME NEW a \in Seq(Requests), NEW b \in Seq(Requests), NEW m \in Requests
    PROVE  Append(a \o b, m) = a \o Append(b, m)
<1>1. <<m>> \in Seq(Requests) /\ a \o b \in Seq(Requests)
  OBVIOUS
<1>2. Append(a \o b, m) = (a \o b) \o <<m>> /\ Append(b, m) = b \o <<m>>
  BY <1>1, AppendIsConcat
<1> QED
  BY <1>1, <1>2, Assoc

\* service_require returns a well-formed Service object.
LEMMA RequiredType ==
    ASSUME NEW r \in ServiceType, NEW t \in KnownTypes
    PROVE  Required(r, t) \in ServiceType /\ Required(r, t).type = t
<1>1. CASE r.type = Absent
  BY <1>1 DEF Required, ServiceType, NewService, Service, Unset
<1>2. CASE r.type # Absent /\ r.type = t
  BY <1>2 DEF Required
<1>3. CASE r.type # Absent /\ r.type # t
  <2>1. Len(r.waiting) \in Nat
    BY DEF ServiceType
  <2> QED
    BY <1>3, <2>1 DEF Required, ServiceType, Service, Unset
<1> QED
  BY <1>1, <1>2, <1>3

\* worker_waiting leaves a well-formed Service object.
LEMMA JoinedType ==
    ASSUME NEW r \in ServiceType, NEW w \in Workers
    PROVE  /\ Joined(r, w) \in ServiceType
           /\ Joined(r, w).type = r.type
           /\ Joined(r, w).requests = r.requests
<1>1. Append(r.waiting, w) \in Seq(Workers)
  BY DEF ServiceType
<1>2. CASE w \in Range(r.waiting)
  BY <1>2 DEF Joined
<1>3. CASE w \notin Range(r.waiting) /\ Len(r.waiting) < r.cap
  BY <1>1, <1>3 DEF Joined, ServiceType
<1>4. CASE w \notin Range(r.waiting) /\ ~(Len(r.waiting) < r.cap)
  BY <1>1, <1>4 DEF Joined, ServiceType, Service, Unset, Dangling
<1> QED
  BY <1>2, <1>3, <1>4

\* Queueing a request leaves a well-formed Service object.
LEMMA QueuedType ==
    ASSUME NEW r \in ServiceType, NEW m \in Requests
    PROVE  /\ Queued(r, m) \in ServiceType
           /\ Queued(r, m).type = r.type
           /\ Queued(r, m).requests = Append(r.requests, m)
           /\ Queued(r, m).waiting = r.waiting
BY DEF Queued, ServiceType

\* What one run of the loop of service_dispatch does to the Service object.
LEMMA DrainedFacts ==
    ASSUME NEW r \in ServiceType, NEW v \in Seq(Workers)
    PROVE  /\ Drained(r, v) \in ServiceType
           /\ Drained(r, v).requests # <<>> => Drained(r, v).waiting = <<>>
           /\ Burst(r, v) \in 0 .. Len(r.requests)
           /\ r.requests =
                SubSeq(r.requests, 1, Burst(r, v)) \o Drained(r, v).requests
<1> DEFINE q == r.requests
           k == Burst(r, v)
           left == SubSeq(q, k + 1, Len(q))
<1>1. q \in Seq(Requests) /\ Len(q) \in Nat /\ Len(v) \in Nat /\ r.pos \in Int
  BY DEF ServiceType
<1>2. k \in 0 .. Len(q)
  BY <1>1 DEF Burst
<1>3. left \in Seq(Requests) /\ q = SubSeq(q, 1, k) \o left
  <2> HIDE DEF k
  <2>1. left \in Seq(Requests)
    BY <1>1, <1>2
  <2>2. q = SubSeq(q, 1, k) \o SubSeq(q, k + 1, Len(q))
    <3>1. SubSeq(q, 1, Len(q)) = q
      BY <1>1, SubSeqFull
    <3>2. 1 \in 1 .. Len(q) + 1 /\ k \in 1 - 1 .. Len(q) /\ Len(q) \in k .. Len(q)
      BY <1>1, <1>2
    <3> HIDE DEF q
    <3>3. SubSeq(q, 1, k) \o SubSeq(q, k + 1, Len(q)) = SubSeq(q, 1, Len(q))
      BY <1>1, <3>2, ConcatAdjacentSubSeq
    <3> QED
      BY <3>1, <3>3
  <2> QED
    BY <2>1, <2>2
<1>4. CASE q = <<>>
  <2>1. k = 0
    BY <1>4 DEF Burst
  <2> QED
    BY <1>2, <1>4, <2>1 DEF Drained
<1>5. CASE q # <<>> /\ v = <<>>
  <2>1. k = 0
    BY <1>5 DEF Burst
  <2>2. Drained(r, v) = [r EXCEPT !.waiting = <<>>]
    BY <1>5 DEF Drained
  <2>3. SubSeq(q, 1, 0) = <<>>
    OBVIOUS
  <2>4. <<>> \o q = q
    BY <1>1
  <2>5. Drained(r, v) \in ServiceType
    <3>1. <<>> \in Seq(Workers)
      OBVIOUS
    <3> QED
      BY <2>2, <3>1 DEF ServiceType
  <2>6. Drained(r, v).waiting = <<>> /\ Drained(r, v).requests = q
    BY <2>2 DEF ServiceType
  <2> QED
    BY <1>2, <2>1, <2>3, <2>4, <2>5, <2>6
<1>6. CASE q # <<>> /\ v # <<>> /\ r.type = DoNotWait
  <2> DEFINE p == ((ReadPos(r, v) + k - 2) % Len(v)) + 2
  <2>1. k = Len(q)
    BY <1>6 DEF Burst
  <2>2. left = <<>>
    <3>1. Len(q) + 1 > Len(q)
      BY <1>1
    <3> QED
      BY <1>1, <2>1, <3>1, SubSeqProperties
  <2>3. p \in Int
    <3>1. Len(v) > 0
      BY <1>1, <1>6
    <3>2. ReadPos(r, v) \in Int
      BY <1>1 DEF ReadPos
    <3> HIDE DEF k
    <3> QED
      BY <1>1, <1>2, <3>1, <3>2
  <2>4. Drained(r, v) = Service(r.type, v, left, p, r.cap)
    BY <1>6 DEF Drained
  <2> HIDE DEF p, k, left
  <2>5. Drained(r, v) \in ServiceType
    BY <1>3, <2>3, <2>4 DEF Service, ServiceType
  <2>6. Drained(r, v).requests = left
    BY <2>4 DEF Service
  <2> QED
    BY <1>2, <1>3, <2>2, <2>5, <2>6 DEF k, left
<1>7. CASE q # <<>> /\ v # <<>> /\ r.type # DoNotWait
  <2> DEFINE ws == SubSeq(v, k + 1, Len(v))
  <2>1. ws \in Seq(Workers)
    <3> HIDE DEF k
    <3> QED
      BY <1>1, <1>2
  <2>2. Drained(r, v) = Service(r.type, ws, left, r.pos, r.cap)
    BY <1>7 DEF Drained
  <2>3. left # <<>> => ws = <<>>
    <3>1. CASE Len(q) <= Len(v)
      <4>1. k = Len(q)
        BY <1>7, <3>1 DEF Burst
      <4>2. left = <<>>
        BY <1>1, <4>1, SubSeqProperties
      <4> QED
        BY <4>2
    <3>2. CASE ~(Len(q) <= Len(v))
      <4>1. k = Len(v)
        BY <1>7, <3>2 DEF Burst
      <4>2. ws = <<>>
        BY <1>1, <4>1, SubSeqProperties
      <4> QED
        BY <4>2
    <3> QED
      BY <3>1, <3>2
  <2> HIDE DEF k, left, ws
  <2>4. Drained(r, v) \in ServiceType
    BY <1>3, <2>1, <2>2 DEF Service, ServiceType
  <2>5. Drained(r, v).requests = left /\ Drained(r, v).waiting = ws
    BY <2>2 DEF Service
  <2> QED
    BY <1>2, <1>3, <2>3, <2>4, <2>5 DEF k, left
<1> QED
  BY <1>4, <1>5, <1>6, <1>7

\* The loop of service_dispatch leaves a well-formed Service object.
LEMMA DrainedType ==
    ASSUME NEW r \in ServiceType, NEW v
    PROVE  /\ Drained(r, v).type = r.type
           /\ r.requests = <<>> => Drained(r, v).requests = <<>>
BY DEF Drained, Service, ServiceType

\* The list has no duplicates after the loop if it had none before.
LEMMA DrainedOnce ==
    ASSUME NEW r \in ServiceType, NEW v \in Seq(Workers),
           IsInjective(r.waiting), IsInjective(v)
    PROVE  IsInjective(Drained(r, v).waiting)
<1>1. Burst(r, v) \in Nat /\ Len(v) \in Nat
  BY DEF Burst, ServiceType
<1> DEFINE k == Burst(r, v)
           ws == SubSeq(v, k + 1, Len(v))
<1>2. IsInjective(ws)
  <2> HIDE DEF k
  <2>1. DOMAIN ws = 1 .. Len(v) - k \/ ws = <<>>
    BY <1>1, SubSeqProperties DEF k
  <2>2. \A i \in DOMAIN ws : i \in Int /\ i + k \in DOMAIN v /\ ws[i] = v[i + k]
    BY <1>1, <2>1, SubSeqProperties DEF k
  <2>3. k \in Int
    BY <1>1 DEF k
  <2> HIDE DEF ws
  <2> QED
    BY <2>2, <2>3 DEF IsInjective
<1>3. IsInjective(<<>>)
  BY DEF IsInjective
<1>4. \/ Drained(r, v) = r
      \/ Drained(r, v) = [r EXCEPT !.waiting = <<>>]
      \/ Drained(r, v).waiting = v
      \/ Drained(r, v).waiting = ws
  BY DEF Drained, Service
<1>5. CASE Drained(r, v) = [r EXCEPT !.waiting = <<>>]
  <2>1. Drained(r, v).waiting = <<>>
    BY <1>5 DEF ServiceType
  <2> QED
    BY <1>3, <2>1
<1> QED
  BY <1>2, <1>4, <1>5

\* worker_waiting never lists a worker twice.
LEMMA JoinedOnce ==
    ASSUME NEW r \in ServiceType, NEW w \in Workers, IsInjective(r.waiting)
    PROVE  IsInjective(Joined(r, w).waiting)
<1>1. CASE w \in Range(r.waiting)
  BY <1>1 DEF Joined
<1>2. CASE w \notin Range(r.waiting)
  <2> DEFINE ws == r.waiting
  <2>1. ws \in Seq(Workers)
    BY DEF ServiceType
  <2>2. Joined(r, w).waiting = Append(ws, w)
    BY <1>2 DEF Joined, Service, ServiceType
  <2>3. \A i \in DOMAIN ws : ws[i] # w
    BY <1>2 DEF Range
  <2>4. IsInjective(Append(ws, w))
    <3> HIDE DEF ws
    <3>1. DOMAIN Append(ws, w) = 1 .. Len(ws) + 1 /\ Len(ws) \in Nat
      BY <2>1
    <3>2. \A i \in 1 .. Len(ws) : i \in DOMAIN ws /\ Append(ws, w)[i] = ws[i]
      BY <2>1
    <3>3. Append(ws, w)[Len(ws) + 1] = w
      BY <2>1
    <3>4. IsInjective(ws)
      BY DEF ws
    <3> QED
      BY <2>3, <3>1, <3>2, <3>3, <3>4 DEF IsInjective
  <2> QED
    BY <2>2, <2>4
<1> QED
  BY <1>1, <1>2

\* Every request of a burst goes to a worker of the purged list.
LEMMA RecipientType ==
    ASSUME NEW r \in ServiceType, NEW v \in Seq(Workers),
           NEW k \in 1 .. Burst(r, v)
    PROVE  Recipient(r, v, k) \in {v[i] : i \in DOMAIN v}
<1>1. Len(v) \in Nat /\ Len(r.requests) \in Nat /\ r.pos \in Int
  BY DEF ServiceType
<1>2. v # <<>> /\ Len(v) > 0 /\ DOMAIN v = 1 .. Len(v)
  BY <1>1 DEF Burst
<1>3. CASE r.type = DoNotWait
  <2>1. ReadPos(r, v) \in Int
    BY <1>1 DEF ReadPos
  <2>2. k \in Int
    BY <1>1 DEF Burst
  <2> DEFINE x == ReadPos(r, v) + k - 2
  <2>3. x \in Int
    BY <2>1, <2>2
  <2> HIDE DEF x
  <2>4. (x % Len(v)) + 1 \in 1 .. Len(v)
    BY <1>1, <1>2, <2>3
  <2> QED
    BY <1>2, <1>3, <2>4 DEF Recipient, x
<1>4. CASE r.type # DoNotWait
  <2>1. k \in 1 .. Len(v)
    BY <1>1, <1>2, <1>4 DEF Burst
  <2> QED
    BY <1>2, <1>4, <2>1 DEF Recipient
<1> QED
  BY <1>3, <1>4

-----------------------------------------------------------------------------
(* The inductive invariant, for any READY offers.                          *)

\* Only a service that exists has requests.
AbsentEmpty ==
    \A n \in Names : services[n].type = Absent => services[n].requests = <<>>

IInv == TypeOK /\ WorkConserving /\ InOrder /\ WaitingOnce /\ AbsentEmpty

\* A handler that ends in service_dispatch keeps the invariant if the Service
\* object it dispatches from holds what has been accepted and not delivered.
LEMMA DispatchStep ==
    ASSUME IInv, fault = "none",
           NEW n \in Names, NEW r \in ServiceType, NEW replied,
           r.type = Absent => r.requests = <<>>, IsInjective(r.waiting),
           expired' \subseteq Workers,
           accepted' \in [Names -> Seq(Requests)],
           accepted'[n] = delivered[n] \o r.requests,
           \A m \in Names : m # n => accepted'[m] = accepted[m],
           ServiceDispatch(n, r, replied)
    PROVE  /\ services' \in [Names -> ServiceType]
           /\ fault' \in {"none", "bad_pos"}
           /\ asked' \subseteq Workers
           /\ delivered' \in [Names -> Seq(Requests)]
           /\ WorkConserving' /\ InOrder' /\ WaitingOnce' /\ AbsentEmpty'
<1>1. PICK v \in Kept(r.waiting, Alive') :
        IF Faulty(r, v)
        THEN /\ fault' = "bad_pos"
             /\ services' = [services EXCEPT ![n] = r]
             /\ UNCHANGED <<delivered, asked>>
        ELSE /\ fault' = "none"
             /\ services' = [services EXCEPT ![n] = Drained(r, v)]
             /\ delivered' = [delivered EXCEPT
                               ![n] = @ \o SubSeq(r.requests, 1, Burst(r, v))]
             /\ asked' = asked \cup
                         Range([i \in 1 .. Burst(r, v) |-> Recipient(r, v, i)])
  BY DEF ServiceDispatch
<1>2. r.waiting \in Seq(Workers) /\ r.requests \in Seq(Requests)
  BY DEF ServiceType
<1>3. v \in Seq(Workers) /\ IsInjective(v)
  BY <1>1, <1>2, KeptType, KeptOnce
<1> USE DEF IInv
<1>4. CASE Faulty(r, v)
  <2>1. \A m \in Names : services'[m] = IF m = n THEN r ELSE services[m]
    BY <1>1, <1>4 DEF TypeOK
  <2>2. services' \in [Names -> ServiceType] /\ fault' = "bad_pos"
    BY <1>1, <1>4 DEF TypeOK
  <2>3. InOrder'
    BY <1>1, <1>4, <2>1 DEF InOrder
  <2>4. WaitingOnce'
    BY <2>1 DEF WaitingOnce
  <2>5. AbsentEmpty'
    BY <2>1 DEF AbsentEmpty
  <2> QED
    BY <1>1, <1>4, <2>2, <2>3, <2>4, <2>5 DEF WorkConserving, TypeOK
<1>5. CASE ~Faulty(r, v)
  <2> DEFINE d == Drained(r, v)
             s == SubSeq(r.requests, 1, Burst(r, v))
  <2>1. /\ d \in ServiceType
        /\ d.requests # <<>> => d.waiting = <<>>
        /\ Burst(r, v) \in 0 .. Len(r.requests)
        /\ r.requests = s \o d.requests
        /\ d.type = Absent => d.requests = <<>>
    BY <1>3, DrainedFacts, DrainedType
  <2>2. s \in Seq(Requests)
    BY <1>2, <2>1
  <2>3. IsInjective(d.waiting)
    BY <1>3, DrainedOnce
  <2>4. asked' \subseteq Workers
    <3>1. \A i \in 1 .. Burst(r, v) : Recipient(r, v, i) \in Workers
      BY <1>3, RecipientType
    <3> QED
      BY <1>1, <1>5, <3>1 DEF TypeOK, Range
  <2> HIDE DEF d, s
  <2>5. /\ fault' = "none"
        /\ services' = [services EXCEPT ![n] = d]
        /\ delivered' = [delivered EXCEPT ![n] = @ \o s]
    BY <1>1, <1>5 DEF d, s
  <2>6. \A m \in Names : services'[m] = IF m = n THEN d ELSE services[m]
    BY <2>5 DEF TypeOK
  <2>7. services' \in [Names -> ServiceType]
    BY <2>1, <2>5 DEF TypeOK
  <2>8. delivered' \in [Names -> Seq(Requests)]
    <3>1. delivered[n] \o s \in Seq(Requests)
      BY <2>2 DEF TypeOK
    <3> QED
      BY <2>5, <3>1 DEF TypeOK
  <2>9. WorkConserving'
    BY <2>1, <2>6 DEF WorkConserving
  <2>10. WaitingOnce'
    BY <2>3, <2>6 DEF WaitingOnce
  <2>12. AbsentEmpty'
    BY <2>1, <2>6 DEF AbsentEmpty
  <2>11. InOrder'
    <3>1. SUFFICES ASSUME NEW m \in Names
                   PROVE  accepted'[m] = delivered'[m] \o services'[m].requests
      BY DEF InOrder
    <3>2. CASE m # n
      BY <2>5, <2>6, <3>2 DEF InOrder, TypeOK
    <3>3. CASE m = n
      <4>1. delivered'[n] = delivered[n] \o s /\ services'[n] = d
        BY <2>5, <2>6 DEF TypeOK
      <4>2. d.requests \in Seq(Requests) /\ delivered[n] \in Seq(Requests)
        BY <2>1 DEF ServiceType, TypeOK
      <4>3. delivered[n] \o (s \o d.requests) = (delivered[n] \o s) \o d.requests
        BY <2>2, <4>2, Assoc
      <4> QED
        BY <2>1, <3>3, <4>1, <4>3
    <3> QED
      BY <3>2, <3>3
  <2> QED
    BY <2>4, <2>5, <2>7, <2>8, <2>9, <2>10, <2>11, <2>12
<1> QED
  BY <1>4, <1>5

\* A broker that has just started satisfies the inductive invariant.
LEMMA InitIInv == Init => IInv
<1> SUFFICES ASSUME Init PROVE IInv
  OBVIOUS
<1> USE DEF Init
<1>1. NewService(Absent) \in ServiceType
  <2>1. <<>> \in Seq(Workers) /\ <<>> \in Seq(Requests)
    OBVIOUS
  <2> QED
    BY <2>1 DEF NewService, Service, ServiceType, Unset
<1>2. \A n \in Names : /\ services[n].waiting = <<>>
                       /\ services[n].requests = <<>>
                       /\ accepted[n] = <<>> /\ delivered[n] = <<>>
  BY DEF NewService, Service
<1>3. TypeOK
  <2>1. services \in [Names -> ServiceType]
    BY <1>1
  <2>2. /\ accepted \in [Names -> Seq(Requests)]
        /\ delivered \in [Names -> Seq(Requests)]
    OBVIOUS
  <2> QED
    BY <2>1, <2>2, BrokerAssumption DEF TypeOK
<1>4. WaitingOnce
  BY <1>2 DEF WaitingOnce, IsInjective
<1>5. InOrder
  <2>1. <<>> \o <<>> = <<>>
    OBVIOUS
  <2> QED
    BY <1>2, <2>1 DEF InOrder
<1> QED
  BY <1>2, <1>3, <1>4, <1>5 DEF IInv, WorkConserving, AbsentEmpty

\* A step that leaves the queues alone.
LEMMA QuietStep ==
    ASSUME IInv, UNCHANGED <<services, accepted, delivered>>,
           fault = "none" \/ fault' = fault
    PROVE  WorkConserving' /\ InOrder' /\ WaitingOnce' /\ AbsentEmpty'
BY DEF IInv, WorkConserving, InOrder, WaitingOnce, AbsentEmpty

\* What service_require does to the table of owners keeps its type.
LEMMA OwnerAfterRequireType ==
    ASSUME TypeOK, NEW n \in Names, NEW t
    PROVE  OwnerAfterRequire(n, t) \in [Workers -> Names \cup {NoService, Freed}]
BY DEF OwnerAfterRequire, TypeOK

\* service_require neither loses a request nor duplicates a worker.
LEMMA RequiredKeeps ==
    ASSUME IInv, NEW n \in Names, NEW t \in KnownTypes
    PROVE  /\ accepted[n] = delivered[n] \o Required(services[n], t).requests
           /\ IsInjective(Required(services[n], t).waiting)
           /\ Required(services[n], t) \in ServiceType
           /\ Required(services[n], t).type = t
           /\ t # Absent
<1>1. services[n] \in ServiceType
  BY DEF IInv, TypeOK
<1>2. t # Absent
  BY DEF KnownTypes, Absent, Wait, DoNotWait
<1>3. Required(services[n], t).requests = services[n].requests
  BY DEF IInv, AbsentEmpty, Required, NewService, Service
<1>4. IsInjective(Required(services[n], t).waiting)
  <2>1. IsInjective(<<>>)
    BY DEF IsInjective
  <2>2. \/ Required(services[n], t).waiting = <<>>
        \/ Required(services[n], t).waiting = services[n].waiting
    BY DEF Required, NewService, Service
  <2> QED
    BY <2>1, <2>2 DEF IInv, WaitingOnce
<1> QED
  BY <1>1, <1>2, <1>3, <1>4, RequiredType DEF IInv, InOrder

\* worker_delete, with or without a DISCONNECT, keeps the inductive invariant.
LEMMA DeleteStep ==
    ASSUME IInv, NEW w \in Workers, NEW message, WorkerDelete(w, message),
           fault = "none", accepted' = accepted
    PROVE  /\ services' \in [Names -> ServiceType]
           /\ fault' \in {"none", "dangling_service"}
           /\ UNCHANGED <<owner, expired, delivered, asked>>
           /\ WorkConserving' /\ InOrder' /\ WaitingOnce' /\ AbsentEmpty'
<1> USE DEF IInv
<1>1. /\ fault' \in {"none", "dangling_service"}
      /\ UNCHANGED <<owner, expired, delivered, asked>>
  BY DEF WorkerDelete
<1>2. CASE services' = services
  BY <1>1, <1>2, QuietStep DEF TypeOK
<1>3. CASE services' # services
  <2> DEFINE n == owner[w]
  <2>1. n \in Names /\ fault' = "none"
    BY <1>3 DEF WorkerDelete, TypeOK
  <2>2. PICK v \in Kept(services[n].waiting, Workers \ {w}) :
          services' = [services EXCEPT ![n].waiting = v]
    BY <1>3 DEF WorkerDelete
  <2> HIDE DEF n
  <2>3. services[n] \in ServiceType /\ services[n].waiting \in Seq(Workers)
    BY <2>1 DEF TypeOK, ServiceType
  <2>4. /\ v \in Seq(Workers) /\ IsInjective(v)
        /\ \A i \in DOMAIN v : \E p \in DOMAIN services[n].waiting :
             services[n].waiting[p] = v[i]
    BY <2>1, <2>2, <2>3, KeptType, KeptOnce DEF WaitingOnce
  <2> DEFINE d == [services[n] EXCEPT !.waiting = v]
  <2>5. /\ d \in ServiceType /\ d.waiting = v
        /\ d.requests = services[n].requests /\ d.type = services[n].type
    BY <2>3, <2>4 DEF ServiceType
  <2>6. services' = [services EXCEPT ![n] = d]
    BY <2>2
  <2>7. services[n].waiting = <<>> => v = <<>>
    BY <2>4
  <2> HIDE DEF d
  <2>8. \A m \in Names : services'[m] = IF m = n THEN d ELSE services[m]
    BY <2>6 DEF TypeOK
  <2>9. services' \in [Names -> ServiceType]
    BY <2>5, <2>6 DEF TypeOK
  <2>10. WorkConserving'
    BY <2>1, <2>5, <2>7, <2>8 DEF WorkConserving
  <2>11. InOrder' /\ AbsentEmpty'
    BY <1>1, <2>5, <2>8 DEF InOrder, AbsentEmpty
  <2>12. WaitingOnce'
    BY <2>4, <2>5, <2>8 DEF WaitingOnce
  <2> QED
    BY <1>1, <2>9, <2>10, <2>11, <2>12
<1> QED
  BY <1>2, <1>3

\* broker::worker_waiting, from the Service object r of name n.
LEMMA WaitingStep ==
    ASSUME IInv, fault = "none", NEW w \in Workers, NEW n \in Names,
           NEW r \in ServiceType, NEW replied,
           r.type = Absent => r.requests = <<>>, IsInjective(r.waiting),
           accepted[n] = delivered[n] \o r.requests, accepted' = accepted,
           WorkerWaiting(w, n, r, replied)
    PROVE  /\ services' \in [Names -> ServiceType]
           /\ fault' \in {"none", "bad_pos"}
           /\ expired' \subseteq Workers /\ asked' \subseteq Workers
           /\ delivered' \in [Names -> Seq(Requests)]
           /\ WorkConserving' /\ InOrder' /\ WaitingOnce' /\ AbsentEmpty'
<1> DEFINE j == Joined(r, w)
<1>1. /\ j \in ServiceType /\ j.requests = r.requests /\ j.type = r.type
      /\ IsInjective(j.waiting)
  BY JoinedType, JoinedOnce
<1>2. expired' \subseteq Workers
  BY DEF WorkerWaiting, IInv, TypeOK
<1>3. ServiceDispatch(n, j, replied)
  BY DEF WorkerWaiting
<1>4. accepted' \in [Names -> Seq(Requests)]
  BY DEF IInv, TypeOK
<1> HIDE DEF j
<1> QED
  BY <1>1, <1>2, <1>3, <1>4, DispatchStep

\* Every handler of the broker keeps the inductive invariant.
LEMMA StepIInv == IInv /\ [Next]_vars => IInv'
<1> SUFFICES ASSUME IInv, [Next]_vars PROVE IInv'
  OBVIOUS
<1>T. TypeOK
  BY DEF IInv
<1>1. CASE UNCHANGED vars
  BY <1>1 DEF vars, history, IInv, TypeOK, WorkConserving, InOrder,
              WaitingOnce, AbsentEmpty
<1>2. ASSUME NEW c \in Clients, ClientHeartbeat(c) PROVE IInv'
  <2>1. WorkConserving' /\ InOrder' /\ WaitingOnce' /\ AbsentEmpty'
    BY <1>2, QuietStep DEF ClientHeartbeat, history
  <2> QED
    BY <1>T, <1>2, <2>1 DEF ClientHeartbeat, history, TypeOK, IInv
<1>3. ASSUME NEW c \in Clients, NEW n \in Names, ClientRequest(c, n)
      PROVE  IInv'
  <2> DEFINE m == [client |-> c, id |-> submitted + 1]
             r == Required(services[n], DoNotWait)
  <2>1. m \in Requests
    BY <1>T, <1>3, BrokerAssumption DEF ClientRequest, TypeOK, Requests
  <2>2. DoNotWait \in KnownTypes
    BY DEF KnownTypes
  <2>3. /\ r \in ServiceType /\ r.type = DoNotWait /\ DoNotWait # Absent
        /\ IsInjective(r.waiting)
        /\ accepted[n] = delivered[n] \o r.requests
    BY <2>2, RequiredKeeps
  <2> HIDE DEF r, m
  <2> DEFINE q == Queued(r, m)
  <2>4. /\ q \in ServiceType /\ q.type = DoNotWait
        /\ q.requests = Append(r.requests, m) /\ q.waiting = r.waiting
    BY <2>1, <2>3, QueuedType
  <2>5. /\ fault = "none" /\ ServiceDispatch(n, q, {})
        /\ accepted' = [accepted EXCEPT ![n] = Append(@, m)]
        /\ owner' = OwnerAfterRequire(n, DoNotWait)
        /\ submitted' = submitted + 1 /\ submitted < MaxRequests
        /\ UNCHANGED <<registered, expired, clients, restarts>>
    BY <1>3 DEF ClientRequest, m, r
  <2> HIDE DEF q
  <2>6. accepted' \in [Names -> Seq(Requests)]
    <3>1. Append(accepted[n], m) \in Seq(Requests)
      BY <1>T, <2>1 DEF TypeOK
    <3> QED
      BY <1>T, <2>5, <3>1 DEF TypeOK
  <2>7. accepted'[n] = delivered[n] \o q.requests
    <3>1. delivered[n] \in Seq(Requests) /\ r.requests \in Seq(Requests)
      BY <1>T, <2>3 DEF TypeOK, ServiceType
    <3>2. Append(delivered[n] \o r.requests, m)
            = delivered[n] \o Append(r.requests, m)
      BY <2>1, <3>1, AppendConcat
    <3> QED
      BY <1>T, <2>3, <2>4, <2>5, <3>2 DEF TypeOK
  <2>8. \A k \in Names : k # n => accepted'[k] = accepted[k]
    BY <1>T, <2>5 DEF TypeOK
  <2>9. expired' \subseteq Workers
    BY <1>T, <2>5 DEF TypeOK
  <2>10. /\ services' \in [Names -> ServiceType]
         /\ fault' \in {"none", "bad_pos"}
         /\ asked' \subseteq Workers
         /\ delivered' \in [Names -> Seq(Requests)]
         /\ WorkConserving' /\ InOrder' /\ WaitingOnce' /\ AbsentEmpty'
    BY <2>3, <2>4, <2>5, <2>6, <2>7, <2>8, <2>9, DispatchStep
  <2>11. owner' \in [Workers -> Names \cup {NoService, Freed}]
    BY <1>T, <2>5, OwnerAfterRequireType
  <2>12. submitted' \in 0 .. MaxRequests
    BY <1>T, <2>5, BrokerAssumption DEF TypeOK
  <2> QED
    BY <1>T, <2>5, <2>6, <2>9, <2>10, <2>11, <2>12 DEF TypeOK, IInv
<1>4. ASSUME NEW c \in Clients, NEW n \in Names, NEW body \in Names,
             ClientInternal(c, n, body)
      PROVE  IInv'
  <2> DEFINE r == Required(services[n], DoNotWait)
  <2>1. /\ fault = "none"
        /\ owner' = OwnerAfterRequire(n, DoNotWait)
        /\ fault' \in {"none", "mmi_at"}
        /\ UNCHANGED <<registered, clients, accepted, submitted, restarts,
                       expired, delivered, asked>>
        /\ services' = services \/ services' = [services EXCEPT ![n] = r]
    BY <1>4 DEF ClientInternal, Crash
  <2>2. owner' \in [Workers -> Names \cup {NoService, Freed}]
    BY <1>T, <2>1, OwnerAfterRequireType
  <2>3. DoNotWait \in KnownTypes
    BY DEF KnownTypes
  <2>4. /\ r \in ServiceType /\ r.type = DoNotWait /\ DoNotWait # Absent
        /\ IsInjective(r.waiting)
        /\ accepted[n] = delivered[n] \o r.requests
    BY <2>3, RequiredKeeps
  <2>5. r.requests # <<>> => r.waiting = <<>>
    BY <2>1 DEF IInv, WorkConserving, Required, NewService, Service
  <2> HIDE DEF r
  <2>6. services' \in [Names -> ServiceType]
    BY <1>T, <2>1, <2>4 DEF TypeOK
  <2>7. WorkConserving' /\ InOrder' /\ WaitingOnce' /\ AbsentEmpty'
    <3>1. CASE services' = services
      BY <2>1, <3>1, QuietStep
    <3>2. CASE services' = [services EXCEPT ![n] = r]
      <4>1. \A m \in Names : services'[m] = IF m = n THEN r ELSE services[m]
        BY <1>T, <3>2 DEF TypeOK
      <4> QED
        BY <2>1, <2>4, <2>5, <4>1
           DEF IInv, WorkConserving, InOrder, WaitingOnce, AbsentEmpty
    <3> QED
      BY <2>1, <3>1, <3>2
  <2> QED
    BY <1>T, <2>1, <2>2, <2>6, <2>7 DEF TypeOK, IInv
<1>5. ASSUME NEW w \in Workers, NEW o \in Offers, o[1] = w,
             WorkerReady(w, o[2], o[3])
      PROVE  IInv'
  <2> DEFINE n == o[2]
             t == o[3]
  <2>1. n \in Names
    BY BrokerAssumption
  <2> HIDE DEF n, t
  <2>2. /\ fault = "none" /\ registered' = registered \cup {w}
        /\ UNCHANGED <<clients, accepted, submitted, restarts>>
    BY <1>5 DEF WorkerReady
  <2>3. CASE w \in Reserved
    <3>1. WorkerDelete(w, Silent)
      BY <1>5, <2>3 DEF WorkerReady
    <3> QED
      BY <1>T, <2>2, <3>1, DeleteStep DEF TypeOK, IInv
  <2>4. CASE w \notin Reserved /\ t \notin KnownTypes
    <3>1. /\ owner' = [owner EXCEPT ![w] = NoService] /\ fault' = "null_service"
          /\ UNCHANGED <<services, expired, delivered, asked>>
      BY <1>5, <2>4 DEF WorkerReady, Crash, n, t
    <3>2. WorkConserving' /\ InOrder' /\ WaitingOnce' /\ AbsentEmpty'
      BY <2>2, <3>1, QuietStep
    <3> QED
      BY <1>T, <2>2, <3>1, <3>2 DEF TypeOK, IInv
  <2>5. CASE w \notin Reserved /\ t \in KnownTypes
    <3> DEFINE r == Required(services[n], t)
    <3>1. /\ owner' = [OwnerAfterRequire(n, t) EXCEPT ![w] = n]
          /\ WorkerWaiting(w, n, r, {})
      BY <1>5, <2>5 DEF WorkerReady, n, t
    <3>2. owner' \in [Workers -> Names \cup {NoService, Freed}]
      BY <1>T, <2>1, <3>1, OwnerAfterRequireType
    <3>3. /\ r \in ServiceType /\ r.type # Absent /\ IsInjective(r.waiting)
          /\ accepted[n] = delivered[n] \o r.requests
      BY <2>1, <2>5, RequiredKeeps
    <3> HIDE DEF r
    <3> QED
      BY <1>T, <2>1, <2>2, <3>1, <3>2, <3>3, WaitingStep DEF TypeOK, IInv
  <2> QED
    BY <2>3, <2>4, <2>5
<1>6. ASSUME NEW w \in Workers, WorkerReadyNoName(w) PROVE IInv'
  <2>1. WorkConserving' /\ InOrder' /\ WaitingOnce' /\ AbsentEmpty'
    BY <1>6, QuietStep DEF WorkerReadyNoName, history
  <2> QED
    BY <1>T, <1>6, <2>1 DEF WorkerReadyNoName, history, TypeOK, IInv
<1>O. ASSUME NEW w \in Workers, owner[w] \in Names
      PROVE  /\ services[owner[w]] \in ServiceType
             /\ IsInjective(services[owner[w]].waiting)
             /\ services[owner[w]].type = Absent =>
                  services[owner[w]].requests = <<>>
             /\ accepted[owner[w]] =
                  delivered[owner[w]] \o services[owner[w]].requests
  BY <1>O DEF IInv, TypeOK, WaitingOnce, AbsentEmpty, InOrder
<1>C. ASSUME NEW f, Crash(f), fault = "none", accepted' = accepted
      PROVE  WorkConserving' /\ InOrder' /\ WaitingOnce' /\ AbsentEmpty'
  BY <1>C, QuietStep DEF Crash
<1>7. ASSUME NEW w \in Workers, NEW c \in Clients, WorkerReply(w, c) PROVE IInv'
  <2>1. /\ fault = "none" /\ registered' = registered \cup {w}
        /\ UNCHANGED <<owner, clients, accepted, submitted, restarts>>
    BY <1>7 DEF WorkerReply
  <2>2. CASE owner[w] \notin Names
    <3>1. \/ Crash("null_service") \/ Crash("dangling_service")
      BY <1>T, <1>7, <2>2 DEF WorkerReply, TypeOK
    <3> QED
      BY <1>T, <1>C, <2>1, <3>1 DEF TypeOK, IInv, Crash
  <2>3. CASE owner[w] \in Names
    <3>1. WorkerWaiting(w, owner[w], services[owner[w]], {c})
      BY <1>7, <2>3, BrokerAssumption DEF WorkerReply
    <3> QED
      BY <1>T, <1>O, <2>1, <2>3, <3>1, WaitingStep DEF TypeOK, IInv
  <2> QED
    BY <2>2, <2>3
<1>8. ASSUME NEW w \in Workers, WorkerHeartbeat(w) PROVE IInv'
  <2>1. /\ fault = "none" /\ registered' = registered \cup {w}
        /\ UNCHANGED <<owner, clients, accepted, submitted, restarts>>
    BY <1>8 DEF WorkerHeartbeat, WorkerDelete
  <2>2. CASE owner[w] = NoService
    <3>1. WorkerDelete(w, Disconnect(w))
      BY <1>8, <2>2 DEF WorkerHeartbeat
    <3> QED
      BY <1>T, <2>1, <3>1, DeleteStep DEF TypeOK, IInv
  <2>3. CASE owner[w] = Freed
    <3>1. Crash("dangling_service")
      BY <1>8, <2>3, BrokerAssumption DEF WorkerHeartbeat
    <3> QED
      BY <1>T, <1>C, <2>1, <3>1 DEF TypeOK, IInv, Crash
  <2>4. CASE owner[w] \in Names
    <3>1. WorkerWaiting(w, owner[w], services[owner[w]], {})
      BY <1>8, <2>4, BrokerAssumption DEF WorkerHeartbeat
    <3> QED
      BY <1>T, <1>O, <2>1, <2>4, <3>1, WaitingStep DEF TypeOK, IInv
  <2> QED
    BY <1>T, <2>2, <2>3, <2>4 DEF TypeOK
<1>9. ASSUME NEW w \in Workers, WorkerDisconnect(w) PROVE IInv'
  <2>1. /\ fault = "none" /\ registered' = registered \cup {w}
        /\ UNCHANGED <<clients, accepted, submitted, restarts>>
        /\ WorkerDelete(w, Disconnect(w))
    BY <1>9 DEF WorkerDisconnect
  <2> QED
    BY <1>T, <2>1, DeleteStep DEF TypeOK, IInv
<1>10. ASSUME NEW w \in Workers, ClockPasses(w) PROVE IInv'
  <2>1. WorkConserving' /\ InOrder' /\ WaitingOnce' /\ AbsentEmpty'
    BY <1>10, QuietStep DEF ClockPasses, history
  <2> QED
    BY <1>T, <1>10, <2>1 DEF ClockPasses, history, TypeOK, IInv
<1>11. CASE BrokerHeartbeat
  <2>1. WorkConserving' /\ InOrder' /\ WaitingOnce' /\ AbsentEmpty'
    BY <1>11, QuietStep DEF BrokerHeartbeat, history
  <2> QED
    BY <1>T, <1>11, <2>1 DEF BrokerHeartbeat, history, TypeOK, IInv
<1>12. CASE Restart
  <2>1. /\ FreshBroker /\ UNCHANGED <<asked, submitted>>
        /\ restarts < MaxRestarts /\ restarts' = restarts + 1
    BY <1>12 DEF Restart
  <2>2. NewService(Absent) \in ServiceType
    <3>1. <<>> \in Seq(Workers) /\ <<>> \in Seq(Requests)
      OBVIOUS
    <3> QED
      BY <3>1 DEF NewService, Service, ServiceType, Unset
  <2>3. \A n \in Names : /\ services'[n].waiting = <<>>
                         /\ services'[n].requests = <<>>
                         /\ accepted'[n] = <<>> /\ delivered'[n] = <<>>
    BY <2>1 DEF FreshBroker, NewService, Service
  <2>4. services' \in [Names -> ServiceType]
    BY <2>1, <2>2 DEF FreshBroker
  <2>5. /\ accepted' \in [Names -> Seq(Requests)]
        /\ delivered' \in [Names -> Seq(Requests)]
    BY <2>1 DEF FreshBroker
  <2>6. restarts' \in 0 .. MaxRestarts
    BY <1>T, <2>1, BrokerAssumption DEF TypeOK
  <2>7. TypeOK'
    BY <1>T, <2>1, <2>4, <2>5, <2>6 DEF TypeOK, FreshBroker
  <2>8. WaitingOnce'
    BY <2>3 DEF WaitingOnce, IsInjective
  <2>9. InOrder'
    <3>1. <<>> \o <<>> = <<>>
      OBVIOUS
    <3> QED
      BY <2>3, <3>1 DEF InOrder
  <2> QED
    BY <2>3, <2>7, <2>8, <2>9 DEF IInv, WorkConserving, AbsentEmpty
<1> QED
  BY <1>1, <1>2, <1>3, <1>4, <1>5, <1>6, <1>7, <1>8, <1>9, <1>10, <1>11, <1>12
     DEF Next, ClientNext, WorkerNext

\* Requests are neither lost, duplicated nor reordered inside the broker, none
\* waits next to an idle worker, and no worker is listed twice: whatever
\* messages arrive from whatever clients and workers, across type changes and
\* restarts.
THEOREM BrokerInvariant ==
    Spec => [](TypeOK /\ WorkConserving /\ InOrder /\ WaitingOnce)
<1>1. IInv => TypeOK /\ WorkConserving /\ InOrder /\ WaitingOnce
  BY DEF IInv
<1> QED
  BY <1>1, InitIInv, StepIInv, PTL DEF Spec

\* What a step may send: a REQUEST to workers heard of before their expiry only.
SendsAlive ==
    out'.kind = "request" => \A i \in DOMAIN out'.to : out'.to[i] \notin expired'

\* service_dispatch sends to workers that the purge has left in the list.
LEMMA DispatchAlive ==
    ASSUME NEW n, NEW r \in ServiceType, NEW replied, ServiceDispatch(n, r, replied)
    PROVE  SendsAlive
<1>1. PICK v \in Kept(r.waiting, Alive') :
        IF Faulty(r, v) THEN out' = Silent
        ELSE out' = [kind |-> "request",
                     to |-> [i \in 1 .. Burst(r, v) |-> Recipient(r, v, i)],
                     sent |-> SubSeq(r.requests, 1, Burst(r, v)),
                     replied |-> replied]
  BY DEF ServiceDispatch
<1>2. r.waiting \in Seq(Workers)
  BY DEF ServiceType
<1>3. v \in Seq(Workers) /\ \A i \in DOMAIN v : v[i] \in Alive'
  BY <1>1, <1>2, KeptType
<1>4. CASE Faulty(r, v)
  BY <1>1, <1>4 DEF SendsAlive, Silent
<1>5. CASE ~Faulty(r, v)
  <2>1. out'.to = [i \in 1 .. Burst(r, v) |-> Recipient(r, v, i)]
    BY <1>1, <1>5
  <2>2. \A i \in 1 .. Burst(r, v) : Recipient(r, v, i) \in {v[j] : j \in DOMAIN v}
    BY <1>3, RecipientType
  <2>3. \A i \in 1 .. Burst(r, v) : Recipient(r, v, i) \in Alive'
    BY <1>3, <2>2
  <2> QED
    BY <2>1, <2>3 DEF SendsAlive, Alive
<1> QED
  BY <1>4, <1>5

\* Every handler sends requests through service_dispatch, after the purge.
LEMMA StepSends == IInv /\ Next => SendsAlive
<1> SUFFICES ASSUME IInv, Next PROVE SendsAlive
  OBVIOUS
<1>T. TypeOK
  BY DEF IInv
<1>S. out'.kind # "request" => SendsAlive
  BY DEF SendsAlive
<1>D. ASSUME NEW w \in Workers, NEW message, message.kind # "request",
             WorkerDelete(w, message)
      PROVE  SendsAlive
  BY <1>D, <1>S DEF WorkerDelete
<1>C. ASSUME NEW f, Crash(f) PROVE SendsAlive
  BY <1>C, <1>S DEF Crash, Silent
<1>W. ASSUME NEW w \in Workers, NEW n, NEW r \in ServiceType, NEW replied,
             WorkerWaiting(w, n, r, replied)
      PROVE  SendsAlive
  BY <1>W, JoinedType, DispatchAlive DEF WorkerWaiting
<1>O. ASSUME NEW w \in Workers, owner[w] # NoService, owner[w] # Freed
      PROVE  services[owner[w]] \in ServiceType
  BY <1>O, <1>T DEF TypeOK
<1>1. ASSUME NEW c \in Clients, ClientHeartbeat(c) PROVE SendsAlive
  BY <1>1, <1>S DEF ClientHeartbeat, Silent
<1>2. ASSUME NEW c \in Clients, NEW n \in Names, ClientRequest(c, n) PROVE SendsAlive
  <2> PICK e, r, q : /\ e = [client |-> c, id |-> submitted + 1]
                     /\ r = Required(services[n], DoNotWait) /\ q = Queued(r, e)
    OBVIOUS
  <2>1. e \in Requests
    BY <1>T, <1>2, BrokerAssumption DEF ClientRequest, TypeOK, Requests
  <2>2. r \in ServiceType
    BY RequiredKeeps DEF KnownTypes
  <2>3. q \in ServiceType
    BY <2>1, <2>2, QueuedType
  <2>4. ServiceDispatch(n, q, {})
    BY <1>2 DEF ClientRequest
  <2> QED
    BY <2>3, <2>4, DispatchAlive
<1>3. ASSUME NEW c \in Clients, NEW n \in Names, NEW body \in Names,
             ClientInternal(c, n, body)
      PROVE  SendsAlive
  <2>1. out' = Silent \/ out'.kind = "internal"
    BY <1>3 DEF ClientInternal, Crash
  <2> QED
    BY <1>S, <2>1 DEF Silent
<1>4. ASSUME NEW w \in Workers, NEW o \in Offers, WorkerReady(w, o[2], o[3])
      PROVE  SendsAlive
  <2>1. CASE w \in Reserved
    BY <1>4, <1>D, <2>1 DEF WorkerReady, Silent
  <2>2. CASE w \notin Reserved /\ o[3] \notin KnownTypes
    BY <1>4, <1>C, <2>2 DEF WorkerReady
  <2>3. CASE w \notin Reserved /\ o[3] \in KnownTypes
    <3> PICK r : r = Required(services[o[2]], o[3])
      OBVIOUS
    <3>1. r \in ServiceType
      BY <2>3, BrokerAssumption, RequiredKeeps
    <3>2. WorkerWaiting(w, o[2], r, {})
      BY <1>4, <2>3 DEF WorkerReady
    <3> QED
      BY <1>W, <3>1, <3>2
  <2> QED
    BY <2>1, <2>2, <2>3
<1>5. ASSUME NEW w \in Workers, WorkerReadyNoName(w) PROVE SendsAlive
  BY <1>5, <1>S DEF WorkerReadyNoName, Silent
<1>6. ASSUME NEW w \in Workers, NEW c \in Clients, WorkerReply(w, c) PROVE SendsAlive
  BY <1>6, <1>C, <1>O, <1>W DEF WorkerReply
<1>7. ASSUME NEW w \in Workers, WorkerHeartbeat(w) PROVE SendsAlive
  BY <1>7, <1>C, <1>D, <1>O, <1>W DEF WorkerHeartbeat, Disconnect
<1>8. ASSUME NEW w \in Workers, WorkerDisconnect(w) PROVE SendsAlive
  BY <1>8, <1>D DEF WorkerDisconnect, Disconnect
<1>9. ASSUME NEW w \in Workers, ClockPasses(w) PROVE SendsAlive
  BY <1>9, <1>S DEF ClockPasses, Silent
<1>10. CASE BrokerHeartbeat
  BY <1>10, <1>S DEF BrokerHeartbeat
<1>11. CASE Restart
  BY <1>11, <1>S DEF Restart, FreshBroker, Silent
<1> QED
  BY <1>1, <1>2, <1>3, <1>4, <1>5, <1>6, <1>7, <1>8, <1>9, <1>10, <1>11
     DEF Next, ClientNext, WorkerNext

\* A REQUEST goes only to workers heard of before their expiry, although expired
\* ones stay in m_waiting until the next dispatch: no handler, whatever it does to
\* the service first, sends without the purge.
THEOREM SendsOnlyToAlive == Spec => SendsToAlive
<1>1. IInv /\ [Next]_vars => [SendsAlive]_vars
  BY StepSends
<1> QED
  BY <1>1, InitIInv, StepIInv, PTL DEF Spec, SendsToAlive, SendsAlive

-----------------------------------------------------------------------------
(* The broker implements the abstract exchange.                            *)

\* Erasing keeps every worker of m_waiting that is to be kept.
LEMMA KeptAll ==
    ASSUME NEW ws \in Seq(Workers), NEW keep, NEW v \in Kept(ws, keep), IsInjective(ws)
    PROVE  Range(v) = Range(ws) \cap keep
<1> PICK kept : kept = Range(ws) \cap keep
  OBVIOUS
<1>1. IsFiniteSet(kept)
  BY FS_Subset, BrokerAssumption DEF Range
<1> PICK c \in Nat : c = Cardinality(kept)
  BY <1>1, FS_CardinalityType
<1>2. v \in [1 .. c -> kept] /\ IsInjective(v)
  BY KeptOnce DEF Kept
<1>3. v \in Injection(1 .. c, kept)
  BY <1>2 DEF Injection
<1>4. Cardinality(1 .. c) = c
  BY FS_Interval
<1>5. v \in Surjection(1 .. c, kept)
  BY <1>1, <1>3, <1>4, FS_Injection
<1>6. \A w \in kept : \E i \in 1 .. c : v[i] = w
  BY <1>5 DEF Surjection
<1> QED
  BY <1>2, <1>6 DEF Range

\* An empty list has no workers, and one worker makes a list of one.
LEMMA ListsOfOne ==
    ASSUME NEW v \in Seq(Workers)
    PROVE  /\ Range(v) = {} <=> v = <<>>
           /\ \A w \in Workers : Range(v) = {w} /\ IsInjective(v) => v = <<w>>
<1>1. Len(v) \in Nat /\ DOMAIN v = 1 .. Len(v)
  OBVIOUS
<1>2. Range(v) = {} => v = <<>>
  <2> SUFFICES ASSUME v # <<>> PROVE Range(v) # {}
    OBVIOUS
  <2>1. 1 \in DOMAIN v
    BY <1>1, EmptySeq
  <2> QED
    BY <2>1 DEF Range
<1>3. Range(<<>>) = {}
  BY DEF Range
<1>4. ASSUME NEW w \in Workers, Range(v) = {w}, IsInjective(v) PROVE v = <<w>>
  <2>1. \A i \in 1 .. Len(v) : v[i] = w
    BY <1>1, <1>4 DEF Range
  <2>2. v # <<>>
    BY <1>3, <1>4
  <2>3. Len(v) # 0
    BY <2>2, EmptySeq
  <2>4. ~(2 <= Len(v))
    <3> SUFFICES ASSUME 2 <= Len(v) PROVE FALSE
      OBVIOUS
    <3>1. 1 \in DOMAIN v /\ 2 \in DOMAIN v /\ v[1] = v[2]
      BY <1>1, <2>1
    <3> QED
      BY <1>4, <3>1 DEF IsInjective
  <2>5. Len(v) = 1
    BY <1>1, <2>3, <2>4
  <2>6. <<w>> \in Seq(Workers) /\ Len(<<w>>) = 1 /\ <<w>>[1] = w
    OBVIOUS
  <2>7. \A i \in 1 .. Len(v) : v[i] = <<w>>[i]
    BY <2>1, <2>5, <2>6
  <2> QED
    BY <2>5, <2>6, <2>7, SeqEqual
<1> QED
  BY <1>2, <1>3, <1>4

\* A step that changes one service, in terms of the exchange.
LEMMA OneService ==
    ASSUME TypeOK, fault = "none", fault' = "none", NEW n \in Names, NEW d,
           services' = [services EXCEPT ![n] = d]
    PROVE  /\ Queues' = [Queues EXCEPT ![n] = d.requests]
           /\ Standing' = [Standing EXCEPT ![n] = Range(d.waiting)]
           /\ Queues[n] = services[n].requests
           /\ Standing[n] = Range(services[n].waiting)
           /\ Serving /\ Serving' = Serving
<1>1. \A m \in Names : services'[m] = IF m = n THEN d ELSE services[m]
  BY DEF TypeOK
<1>2. Serving /\ Serving'
  BY DEF Serving
<1>3. Queues' = [m \in Names |-> services'[m].requests]
  BY <1>2 DEF Queues
<1>4. Standing' = [m \in Names |-> Range(services'[m].waiting)]
  BY <1>2 DEF Standing
<1>5. Queues = [m \in Names |-> services[m].requests]
  BY <1>2 DEF Queues
<1>6. Standing = [m \in Names |-> Range(services[m].waiting)]
  BY <1>2 DEF Standing
<1>7. [Queues EXCEPT ![n] = d.requests] = [m \in Names |-> services'[m].requests]
  BY <1>1, <1>5
<1>8. [Standing EXCEPT ![n] = Range(d.waiting)] = [m \in Names |-> Range(services'[m].waiting)]
  BY <1>1, <1>6
<1> QED
  BY <1>2, <1>3, <1>4, <1>5, <1>6, <1>7, <1>8

\* A handler that fails breaks the exchange.
LEMMA Breaks ==
    ASSUME fault' # "none", Handed' = <<>>
    PROVE  Promise!Break
<1>1. Serving' = FALSE
  BY DEF Serving
<1>2. Queues' = [n \in Names |-> <<>>] /\ Standing' = [n \in Names |-> {}] /\ Heard' = {}
  BY <1>1 DEF Queues, Standing, Heard
<1> QED
  BY <1>1, <1>2 DEF Promise!Break, Promise!Nothing

\* A step that leaves the tables alone is Idle.
LEMMA Idles ==
    ASSUME fault = "none", fault' = "none", UNCHANGED <<services, expired>>, Handed' = <<>>
    PROVE  Promise!Idle
<1>1. Serving /\ Serving'
  BY DEF Serving
<1>2. UNCHANGED <<Queues, Standing, Heard>>
  BY <1>1 DEF Queues, Standing, Heard, Alive
<1> QED
  BY <1>1, <1>2 DEF Promise!Idle

\* What handlers write that is no REQUEST hands nothing out.
LEMMA HandsNothing ==
    ASSUME out'.kind # "request"
    PROVE  Handed' = <<>>
BY DEF Handed

\* What service_dispatch does to the service, and what it hands out, if it does not fail.
DispatchedTo(n, r, v, k) ==
    /\ fault' = "none"
    /\ v \in Seq(Workers) /\ IsInjective(v) /\ Range(v) = Range(r.waiting) \cap Alive'
    /\ k = Burst(r, v) /\ ~Faulty(r, v)
    /\ services' = [services EXCEPT ![n] = Drained(r, v)]
    /\ Handed' = [i \in 1 .. k |-> <<Recipient(r, v, i), r.requests[i]>>]

\* A handler that ends in service_dispatch fails, or it hands out what the burst sends.
LEMMA Dispatched ==
    ASSUME NEW n \in Names, NEW r \in ServiceType, IsInjective(r.waiting), NEW replied,
           ServiceDispatch(n, r, replied)
    PROVE  \/ fault' # "none" /\ Handed' = <<>>
           \/ \E v, k : DispatchedTo(n, r, v, k)
<1>1. PICK v \in Kept(r.waiting, Alive') :
        IF Faulty(r, v) THEN fault' = "bad_pos" /\ out' = Silent
        ELSE /\ fault' = "none"
             /\ services' = [services EXCEPT ![n] = Drained(r, v)]
             /\ out' = [kind |-> "request",
                        to |-> [i \in 1 .. Burst(r, v) |-> Recipient(r, v, i)],
                        sent |-> SubSeq(r.requests, 1, Burst(r, v)),
                        replied |-> replied]
  BY DEF ServiceDispatch
<1>2. r.waiting \in Seq(Workers) /\ r.requests \in Seq(Requests)
  BY DEF ServiceType
<1>3. v \in Seq(Workers) /\ IsInjective(v) /\ Range(v) = Range(r.waiting) \cap Alive'
  BY <1>1, <1>2, KeptType, KeptOnce, KeptAll
<1>4. CASE Faulty(r, v)
  <2>1. out'.kind # "request"
    BY <1>1, <1>4 DEF Silent
  <2> QED
    BY <1>1, <1>4, <2>1, HandsNothing
<1>5. CASE ~Faulty(r, v)
  <2> PICK k : k = Burst(r, v)
    OBVIOUS
  <2>1. k \in 0 .. Len(r.requests)
    BY <1>3, DrainedFacts
  <2>0. out' = [kind |-> "request", to |-> [i \in 1 .. k |-> Recipient(r, v, i)],
                sent |-> SubSeq(r.requests, 1, k), replied |-> replied]
    BY <1>1, <1>5
  <2>2. /\ out'.kind = "request" /\ DOMAIN out'.to = 1 .. k
        /\ out'.sent = SubSeq(r.requests, 1, k)
        /\ \A i \in 1 .. k : out'.to[i] = Recipient(r, v, i)
    BY <2>0
  <2>3. \A i \in 1 .. k : out'.sent[i] = r.requests[i]
    <3>1. \A i \in 1 .. k : SubSeq(r.requests, 1, k)[i] = r.requests[i]
      BY <1>2, <2>1
    <3> QED
      BY <2>2, <3>1
  <2>4. Handed' = [i \in 1 .. k |-> <<Recipient(r, v, i), r.requests[i]>>]
    BY <2>2, <2>3 DEF Handed
  <2>5. DispatchedTo(n, r, v, k)
    BY <1>1, <1>3, <1>5, <2>4 DEF DispatchedTo
  <2> QED
    BY <2>5
<1> QED
  BY <1>4, <1>5

\* service_dispatch keeps the type of the service and adds nobody to its list.
LEMMA DispatchedService ==
    ASSUME NEW n \in Names, NEW r \in ServiceType, NEW replied, ServiceDispatch(n, r, replied)
    PROVE  \E d \in ServiceType :
             /\ services' = [services EXCEPT ![n] = d]
             /\ d.type = r.type /\ Range(d.waiting) \subseteq Range(r.waiting)
<1>1. PICK v \in Kept(r.waiting, Alive') :
        services' = [services EXCEPT ![n] = IF Faulty(r, v) THEN r ELSE Drained(r, v)]
  BY DEF ServiceDispatch
<1>2. r.waiting \in Seq(Workers)
  BY DEF ServiceType
<1>3. v \in Seq(Workers) /\ Range(v) \subseteq Range(r.waiting)
  <2>1. /\ v \in Seq(Workers)
        /\ \A i \in DOMAIN v : \E p \in DOMAIN r.waiting : r.waiting[p] = v[i]
    BY <1>1, <1>2, KeptType
  <2> QED
    BY <2>1 DEF Range
<1>4. Drained(r, v) \in ServiceType /\ Drained(r, v).type = r.type
  BY <1>3, DrainedFacts, DrainedType
<1>5. Range(Drained(r, v).waiting) \subseteq Range(r.waiting)
  <2> PICK k, ws : k = Burst(r, v) /\ ws = SubSeq(v, k + 1, Len(v))
    OBVIOUS
  <2>1. k \in Nat /\ Len(v) \in Nat
    BY <1>3, DrainedFacts DEF ServiceType
  <2>2. Range(ws) \subseteq Range(v)
    <3>1. \A i \in DOMAIN ws : i + k \in DOMAIN v /\ ws[i] = v[i + k]
      BY <1>3, <2>1, SubSeqProperties
    <3>2. \A i \in DOMAIN ws : ws[i] \in Range(v)
      BY <3>1 DEF Range
    <3> QED
      BY <3>2 DEF Range
  <2>3. \/ Drained(r, v) = r
        \/ Drained(r, v) = [r EXCEPT !.waiting = <<>>]
        \/ Drained(r, v).waiting = v
        \/ Drained(r, v).waiting = ws
    BY DEF Drained, Service
  <2>4. CASE Drained(r, v) = [r EXCEPT !.waiting = <<>>]
    <3>1. Drained(r, v).waiting = <<>>
      BY <2>4 DEF ServiceType
    <3> QED
      BY <3>1 DEF Range
  <2> QED
    BY <1>3, <2>2, <2>3, <2>4
<1>6. CASE Faulty(r, v)
  BY <1>1, <1>6
<1>7. CASE ~Faulty(r, v)
  BY <1>1, <1>4, <1>5, <1>7
<1> QED
  BY <1>6, <1>7

\* Whoever belongs to a service or waits at it has offered it, and the services of
\* workers exist.
OffersInv ==
    /\ \A w \in Workers : owner[w] \in Names =>
         <<w, owner[w]>> \in Offering /\ services[owner[w]].type # Absent
    /\ \A n \in Names :
         /\ services[n].type = Absent => services[n].waiting = <<>>
         /\ \A w \in Range(services[n].waiting) : <<w, n>> \in Offering

\* A handler that changes one service keeps this if it lets in only workers that offered it.
LEMMA OffersKept ==
    ASSUME TypeOK, OffersInv, NEW n \in Names, NEW d,
           services' = [services EXCEPT ![n] = d],
           services[n].type # Absent => d.type # Absent,
           d.type = Absent => d.waiting = <<>>,
           \A w \in Range(d.waiting) : <<w, n>> \in Offering,
           \A w \in Workers : owner'[w] \in Names =>
             \/ owner'[w] = owner[w]
             \/ owner'[w] = n /\ d.type # Absent /\ <<w, n>> \in Offering
    PROVE  OffersInv'
<1>1. \A m \in Names : services'[m] = IF m = n THEN d ELSE services[m]
  BY DEF TypeOK
<1>2. \A m \in Names : services[m].type # Absent => services'[m].type # Absent
  BY <1>1
<1>3. \A w \in Workers : owner'[w] \in Names =>
        <<w, owner'[w]>> \in Offering /\ services'[owner'[w]].type # Absent
  BY <1>1, <1>2 DEF OffersInv
<1>4. \A m \in Names : /\ services'[m].type = Absent => services'[m].waiting = <<>>
                       /\ \A w \in Range(services'[m].waiting) : <<w, m>> \in Offering
  BY <1>1 DEF OffersInv
<1>5. Offering' = Offering
  BY DEF Offering
<1> QED
  BY <1>3, <1>4, <1>5 DEF OffersInv

\* The service after service_require has the workers and the requests it had.
LEMMA RequiredSame ==
    ASSUME IInv, OffersInv, NEW n \in Names, NEW t \in KnownTypes
    PROVE  /\ Required(services[n], t).requests = services[n].requests
           /\ Required(services[n], t).waiting = services[n].waiting
BY DEF IInv, AbsentEmpty, OffersInv, Required, NewService, Service

\* service_require moves workers only between services they offered.
LEMMA OwnersMoved ==
    ASSUME TypeOK, OffersInv, NEW n \in Names, NEW t, NEW w \in Workers
    PROVE  LET o == OwnerAfterRequire(n, t)[w]
           IN o \in Names => \/ o = owner[w]
                             \/ o = n /\ <<w, n>> \in Offering
<1>1. Freed \notin Names
  BY BrokerAssumption
<1> QED
  BY <1>1 DEF OwnerAfterRequire, OffersInv

\* After worker_waiting the worker is listed, and nobody else is new.
LEMMA JoinedWaits ==
    ASSUME NEW r \in ServiceType, NEW w \in Workers
    PROVE  Range(Joined(r, w).waiting) = Range(r.waiting) \cup {w}
<1> PICK ws \in Seq(Workers) : ws = r.waiting
  BY DEF ServiceType
<1>1. CASE w \in Range(ws)
  BY <1>1 DEF Joined
<1>2. CASE w \notin Range(ws)
  <2>1. Joined(r, w).waiting = Append(ws, w)
    BY <1>2 DEF Joined, Service, ServiceType
  <2>2. /\ DOMAIN Append(ws, w) = 1 .. Len(ws) + 1 /\ DOMAIN ws = 1 .. Len(ws)
        /\ Len(ws) \in Nat /\ Append(ws, w)[Len(ws) + 1] = w
        /\ \A i \in 1 .. Len(ws) : Append(ws, w)[i] = ws[i]
    OBVIOUS
  <2>3. \A i \in DOMAIN Append(ws, w) : Append(ws, w)[i] \in Range(ws) \cup {w}
    BY <2>2 DEF Range
  <2>4. \A x \in Range(ws) \cup {w} : \E i \in DOMAIN Append(ws, w) : Append(ws, w)[i] = x
    <3>1. Len(ws) + 1 \in 1 .. Len(ws) + 1 /\ 1 .. Len(ws) \subseteq 1 .. Len(ws) + 1
      BY <2>2
    <3> QED
      BY <2>2, <3>1 DEF Range
  <2>5. Range(Append(ws, w)) = Range(ws) \cup {w}
    BY <2>3, <2>4 DEF Range
  <2> QED
    BY <2>1, <2>5
<1> QED
  BY <1>1, <1>2

\* A worker that arrives stands ready, or takes what waits.
LEMMA WaitingImplements ==
    ASSUME IInv, fault = "none", NEW w \in Workers, NEW n \in Names, NEW r \in ServiceType,
           NEW replied, r.requests = services[n].requests, r.waiting = services[n].waiting,
           r.type \in KnownTypes, <<w, n>> \in Offering, WorkerWaiting(w, n, r, replied)
    PROVE  Promise!Stand(w, n) \/ Promise!Take(w, n) \/ Promise!Break
<1> PICK j : j = Joined(r, w)
  OBVIOUS
<1>1. /\ j \in ServiceType /\ j.requests = r.requests /\ j.type = r.type
      /\ IsInjective(j.waiting) /\ Range(j.waiting) = Range(r.waiting) \cup {w}
  BY JoinedType, JoinedOnce, JoinedWaits DEF IInv, WaitingOnce
<1>2. ServiceDispatch(n, j, replied) /\ expired' = expired \ {w}
  BY DEF WorkerWaiting
<1>3. CASE fault' # "none" /\ Handed' = <<>>
  BY <1>3, Breaks
<1>4. ASSUME NEW v, NEW k, DispatchedTo(n, j, v, k)
      PROVE  Promise!Stand(w, n) \/ Promise!Take(w, n)
  <2> PICK q, d : q = j.requests /\ d = Drained(j, v)
    OBVIOUS
  <2>1. /\ fault' = "none"
        /\ v \in Seq(Workers) /\ IsInjective(v) /\ Range(v) = Range(j.waiting) \cap Alive'
        /\ k = Burst(j, v)
        /\ services' = [services EXCEPT ![n] = d]
        /\ Handed' = [i \in 1 .. k |-> <<Recipient(j, v, i), q[i]>>]
    BY <1>4 DEF DispatchedTo
  <2>2. TypeOK /\ q \in Seq(Requests) /\ q = services[n].requests
    BY <1>1 DEF IInv, ServiceType
  <2>3. /\ Queues' = [Queues EXCEPT ![n] = d.requests]
        /\ Standing' = [Standing EXCEPT ![n] = Range(d.waiting)]
        /\ Queues[n] = q /\ Standing[n] = Range(r.waiting)
        /\ Serving /\ Serving' = Serving
    BY <2>1, <2>2, OneService
  <2>4. Alive' = Alive \cup {w} /\ Heard' = Heard \cup {w}
    BY <1>2, <2>3 DEF Heard, Alive
  <2>5. CASE q = <<>>
    <3>1. k = 0 /\ d = j
      BY <2>1, <2>5 DEF Burst, Drained
    <3>2. Handed' = <<>>
      BY <2>1, <3>1
    <3>3. Queues' = Queues
      BY <2>2, <2>3, <2>5, <3>1 DEF Queues
    <3>4. Standing' = [Standing EXCEPT ![n] = @ \cup {w}]
      BY <1>1, <2>3, <3>1
    <3> QED
      BY <2>3, <2>4, <2>5, <3>2, <3>3, <3>4 DEF Promise!Stand
  <2>6. CASE q # <<>>
    <3>1. r.waiting = <<>>
      BY <2>2, <2>6 DEF IInv, WorkConserving
    <3>2. Range(j.waiting) = {w}
      <4>1. Range(<<>>) = {}
        BY DEF Range
      <4> QED
        BY <1>1, <3>1, <4>1
    <3>3. Range(v) = {w}
      BY <2>1, <2>4, <3>2
    <3>4. v = <<w>>
      BY <2>1, <3>3, ListsOfOne
    <3>5. Len(v) = 1 /\ v # <<>> /\ DOMAIN v = {1} /\ v[1] = w
      BY <3>4
    <3>6. Len(q) \in Nat \ {0}
      BY <2>2, <2>6, EmptySeq
    <3>7. \A i \in 1 .. k : Recipient(j, v, i) = w
      BY <1>1, <2>1, <3>5, RecipientType
    <3>8. CASE j.type = DoNotWait
      <4>1. k = Len(q)
        BY <2>1, <2>6, <3>5, <3>8 DEF Burst
      <4>2. Handed' = [i \in 1 .. Len(q) |-> <<w, q[i]>>]
        BY <2>1, <3>7, <4>1
      <4>3. d.waiting = v /\ d.requests = SubSeq(q, k + 1, Len(q))
        BY <2>6, <3>5, <3>8, <2>1 DEF Drained, Service
      <4>4. d.requests = <<>>
        <5>1. k + 1 \in Int /\ Len(q) \in Int /\ Len(q) < k + 1
          BY <3>6, <4>1
        <5> QED
          BY <4>3, <5>1, SubSeqEmpty
      <4>5. Queues' = [Queues EXCEPT ![n] = <<>>] /\ Standing' = [Standing EXCEPT ![n] = {w}]
        BY <2>3, <3>3, <4>3, <4>4
      <4> QED
        BY <2>3, <2>4, <2>6, <4>2, <4>5 DEF Promise!Take
    <3>9. CASE j.type # DoNotWait
      <4>1. k = 1
        BY <2>1, <2>6, <3>5, <3>6, <3>9 DEF Burst
      <4>2. Handed' = << <<w, Head(q)>> >>
        <5>1. Handed' = [i \in 1 .. 1 |-> <<w, q[i]>>]
          BY <2>1, <3>7, <4>1
        <5>2. Head(q) = q[1]
          BY <2>2, <2>6
        <5> QED
          BY <5>1, <5>2
      <4>3. d.waiting = SubSeq(v, 2, 1) /\ d.requests = SubSeq(q, 2, Len(q))
        BY <2>6, <3>5, <3>9, <2>1, <4>1 DEF Drained, Service
      <4>4. SubSeq(v, 2, 1) = <<>> /\ SubSeq(q, 2, Len(q)) = Tail(q)
        <5>1. SubSeq(v, 2, 1) = <<>>
          BY SubSeqEmpty
        <5>2. SubSeq(q, 2, Len(q)) = Tail(q)
          BY <2>2, <2>6, <3>6
        <5> QED
          BY <5>1, <5>2
      <4>5. Range(d.waiting) = {}
        BY <4>3, <4>4 DEF Range
      <4>6. Queues' = [Queues EXCEPT ![n] = Tail(@)] /\ Standing' = [Standing EXCEPT ![n] = {}]
        BY <2>3, <4>3, <4>4, <4>5
      <4> QED
        BY <2>3, <2>4, <2>6, <4>2, <4>6 DEF Promise!Take
    <3> QED
      BY <3>8, <3>9
  <2> QED
    BY <2>5, <2>6
<1> QED
  BY <1>1, <1>2, <1>3, <1>4, Dispatched

\* A request is passed on, or kept, or breaks the broker.
LEMMA RequestImplements ==
    ASSUME IInv, fault = "none", NEW n \in Names, NEW m \in Requests, NEW r \in ServiceType,
           r.type = DoNotWait, r.waiting = services[n].waiting,
           r.requests = Append(services[n].requests, m), expired' = expired,
           ServiceDispatch(n, r, {})
    PROVE  Promise!Pass(n, m) \/ Promise!Keep(n, m) \/ Promise!Break
<1>1. IsInjective(r.waiting) /\ TypeOK
  BY DEF IInv, WaitingOnce
<1>2. CASE fault' # "none" /\ Handed' = <<>>
  BY <1>2, Breaks
<1>3. ASSUME NEW v, NEW k, DispatchedTo(n, r, v, k)
      PROVE  Promise!Pass(n, m) \/ Promise!Keep(n, m)
  <2> PICK q, d, p : q = r.requests /\ d = Drained(r, v) /\ p = services[n].requests
    OBVIOUS
  <2>1. /\ fault' = "none"
        /\ v \in Seq(Workers) /\ Range(v) = Range(r.waiting) \cap Alive'
        /\ k = Burst(r, v)
        /\ services' = [services EXCEPT ![n] = d]
        /\ Handed' = [i \in 1 .. k |-> <<Recipient(r, v, i), q[i]>>]
    BY <1>3 DEF DispatchedTo
  <2>2. p \in Seq(Requests) /\ q = Append(p, m) /\ q # <<>>
    <3>1. p \in Seq(Requests) /\ q = Append(p, m)
      BY <1>1 DEF TypeOK, ServiceType
    <3>2. Append(p, m) # <<>>
      BY <3>1, AppendProperties
    <3> QED
      BY <3>1, <3>2
  <2>3. /\ Queues' = [Queues EXCEPT ![n] = d.requests]
        /\ Standing' = [Standing EXCEPT ![n] = Range(d.waiting)]
        /\ Queues[n] = p /\ Standing[n] = Range(r.waiting)
        /\ Serving /\ Serving' = Serving
    BY <1>1, <2>1, OneService
  <2>4. Alive' = Alive /\ Heard' = Heard /\ Heard = Alive
    BY <2>3 DEF Heard, Alive
  <2>5. Range(v) = Standing[n] \cap Heard
    BY <2>1, <2>3, <2>4
  <2>6. CASE v = <<>>
    <3>1. k = 0 /\ d = [r EXCEPT !.waiting = <<>>]
      BY <2>1, <2>2, <2>6 DEF Burst, Drained
    <3>2. d.waiting = <<>> /\ d.requests = q
      BY <3>1 DEF ServiceType
    <3>3. Handed' = <<>> /\ Range(d.waiting) = {} /\ Range(v) = {}
      BY <2>1, <2>6, <3>1, <3>2 DEF Range
    <3>4. Queues' = [Queues EXCEPT ![n] = Append(@, m)] /\ Standing' = [Standing EXCEPT ![n] = {}]
      BY <2>2, <2>3, <3>2, <3>3
    <3> QED
      BY <2>3, <2>4, <2>5, <3>3, <3>4 DEF Promise!Keep
  <2>7. CASE v # <<>>
    <3>1. Range(v) # {}
      BY <2>1, <2>7, ListsOfOne
    <3>2. r.waiting # <<>>
      <4>1. Range(<<>>) = {}
        BY DEF Range
      <4> QED
        BY <2>1, <3>1, <4>1
    <3>3. p = <<>>
      BY <3>2 DEF IInv, WorkConserving
    <3>4. q = <<m>> /\ Len(q) = 1 /\ q[1] = m
      BY <2>2, <3>3
    <3>5. k = 1
      BY <2>1, <2>2, <2>7, <3>4 DEF Burst
    <3> PICK w : w = Recipient(r, v, 1)
      OBVIOUS
    <3>6. w \in Range(v)
      <4>1. 1 \in 1 .. Burst(r, v)
        BY <2>1, <3>5
      <4>2. w \in {v[i] : i \in DOMAIN v}
        BY <2>1, <4>1, RecipientType
      <4> QED
        BY <4>2 DEF Range
    <3>7. Handed' = << <<w, m>> >>
      <4>1. Handed' = [i \in 1 .. 1 |-> <<Recipient(r, v, i), q[i]>>]
        BY <2>1, <3>5
      <4> QED
        BY <3>4, <4>1
    <3>8. d.waiting = v /\ d.requests = SubSeq(q, 2, 1)
      BY <2>1, <2>2, <2>7, <3>4, <3>5 DEF Drained, Service
    <3>9. d.requests = <<>>
      BY <3>8, SubSeqEmpty
    <3>10. Queues' = Queues
      BY <2>3, <3>3, <3>9 DEF Queues
    <3>11. Standing' = [Standing EXCEPT ![n] = @ \cap Heard]
      BY <2>3, <2>5, <3>8
    <3> QED
      BY <2>3, <2>4, <2>5, <3>6, <3>7, <3>10, <3>11 DEF Promise!Pass
  <2> QED
    BY <2>6, <2>7
<1> QED
  BY <1>1, <1>2, <1>3, Dispatched

\* worker_delete takes a worker off the list of its service, or breaks the broker.
LEMMA DeleteImplements ==
    ASSUME IInv, OffersInv, fault = "none", NEW w \in Workers, NEW message,
           message.kind # "request", WorkerDelete(w, message)
    PROVE  OffersInv' /\ Promise!Next
<1>0. TypeOK /\ Handed' = <<>> /\ UNCHANGED <<owner, expired>>
  BY HandsNothing DEF IInv, WorkerDelete
<1>1. CASE services' = services
  <2>1. OffersInv'
    BY <1>0, <1>1 DEF OffersInv, Offering
  <2>2. CASE fault' = "none"
    <3>1. Promise!Idle
      BY <1>0, <1>1, <2>2, Idles
    <3> QED
      BY <2>1, <3>1 DEF Promise!Next
  <2>3. CASE fault' # "none"
    <3>1. Promise!Break
      BY <1>0, <2>3, Breaks
    <3> QED
      BY <2>1, <3>1 DEF Promise!Next
  <2> QED
    BY <2>1, <2>2, <2>3
<1>2. CASE services' # services
  <2> PICK n : n = owner[w]
    OBVIOUS
  <2>1. n \in Names /\ fault' = "none"
    BY <1>0, <1>2 DEF WorkerDelete, TypeOK
  <2> PICK ws : ws = services[n].waiting
    OBVIOUS
  <2>2. PICK v \in Kept(ws, Workers \ {w}) : services' = [services EXCEPT ![n].waiting = v]
    BY <1>2 DEF WorkerDelete
  <2>3. services[n] \in ServiceType /\ ws \in Seq(Workers) /\ IsInjective(ws)
    BY <1>0, <2>1 DEF TypeOK, ServiceType, IInv, WaitingOnce
  <2>4. Range(v) = Range(ws) \cap (Workers \ {w})
    BY <2>3, KeptAll
  <2>5. Range(v) = Range(ws) \ {w}
    BY <2>3, <2>4 DEF Range
  <2> PICK d : d = [services[n] EXCEPT !.waiting = v]
    OBVIOUS
  <2>6. /\ services' = [services EXCEPT ![n] = d] /\ d.waiting = v
        /\ d.requests = services[n].requests /\ d.type = services[n].type
    BY <2>2, <2>3 DEF ServiceType
  <2>7. ws = <<>> => v = <<>>
    <3>1. Range(<<>>) = {}
      BY DEF Range
    <3>2. v \in Seq(Workers)
      BY <2>3, KeptType
    <3> QED
      BY <2>5, <3>1, <3>2, ListsOfOne
  <2>8. OffersInv'
    <3>1. \A x \in Range(d.waiting) : <<x, n>> \in Offering
      BY <2>1, <2>5, <2>6 DEF OffersInv
    <3>2. d.type = Absent => d.waiting = <<>>
      BY <2>1, <2>6, <2>7 DEF OffersInv
    <3> QED
      BY <1>0, <2>1, <2>6, <3>1, <3>2, OffersKept
  <2>9. /\ Queues' = [Queues EXCEPT ![n] = d.requests]
        /\ Standing' = [Standing EXCEPT ![n] = Range(d.waiting)]
        /\ Queues[n] = services[n].requests /\ Standing[n] = Range(ws)
        /\ Serving /\ Serving' = Serving
    BY <1>0, <2>1, <2>6, OneService
  <2>10. Queues' = Queues
    BY <2>1, <2>6, <2>9 DEF Queues
  <2>11. Standing' = [Standing EXCEPT ![n] = @ \ {w}]
    BY <2>5, <2>6, <2>9
  <2>12. Heard' = Heard
    BY <1>0, <2>9 DEF Heard, Alive
  <2>13. Promise!Leave(w, n)
    BY <1>0, <2>9, <2>10, <2>11, <2>12 DEF Promise!Leave
  <2> QED
    BY <2>1, <2>8, <2>13 DEF Promise!Next
<1> QED
  BY <1>1, <1>2

\* worker_waiting lets in a worker that offered the service.
LEMMA WaitingOffers ==
    ASSUME IInv, OffersInv, NEW w \in Workers, NEW n \in Names, NEW r \in ServiceType,
           NEW replied, r.waiting = services[n].waiting, r.type \in KnownTypes,
           <<w, n>> \in Offering, WorkerWaiting(w, n, r, replied),
           \A x \in Workers : owner'[x] \in Names =>
             \/ owner'[x] = owner[x]
             \/ owner'[x] = n /\ <<x, n>> \in Offering
    PROVE  OffersInv'
<1>1. /\ Joined(r, w) \in ServiceType /\ Joined(r, w).type = r.type
      /\ Range(Joined(r, w).waiting) = Range(r.waiting) \cup {w}
  BY JoinedType, JoinedWaits
<1>2. PICK d \in ServiceType :
        /\ services' = [services EXCEPT ![n] = d]
        /\ d.type = r.type /\ Range(d.waiting) \subseteq Range(r.waiting) \cup {w}
  BY <1>1, DispatchedService DEF WorkerWaiting
<1>3. d.type # Absent
  BY <1>2 DEF KnownTypes, Absent, Wait, DoNotWait
<1>4. \A x \in Range(d.waiting) : <<x, n>> \in Offering
  BY <1>2 DEF OffersInv
<1>5. TypeOK
  BY DEF IInv
<1> QED
  BY <1>2, <1>3, <1>4, <1>5, OffersKept

\* Every handler is a step of the exchange.
LEMMA StepImplements ==
    ASSUME IInv, OffersInv, Next
    PROVE  OffersInv' /\ Promise!Next
<1>T. TypeOK
  BY DEF IInv
<1>K. ASSUME NEW t \in KnownTypes PROVE t # Absent
  BY DEF KnownTypes, Absent, Wait, DoNotWait
<1>D. DoNotWait \in KnownTypes
  BY DEF KnownTypes
<1>I. ASSUME fault = "none", UNCHANGED <<services, owner, expired, fault>>, Handed' = <<>>
      PROVE  OffersInv' /\ Promise!Next
  BY <1>I, Idles DEF OffersInv, Offering, Promise!Next
<1>C. ASSUME NEW f, f # "none", Crash(f),
             \A x \in Workers : owner'[x] \in Names =>
               owner'[x] = owner[x] /\ services[owner[x]].type # Absent
      PROVE  OffersInv' /\ Promise!Next
  <2>1. Promise!Break
    BY <1>C, HandsNothing, Breaks DEF Crash, Silent
  <2>2. OffersInv'
    BY <1>C DEF OffersInv, Offering, Crash
  <2> QED
    BY <2>1, <2>2 DEF Promise!Next
<1>O. \A w \in Workers : owner[w] # NoService /\ owner[w] # Freed =>
        /\ owner[w] \in Names /\ <<w, owner[w]>> \in Offering
        /\ services[owner[w]] \in ServiceType /\ services[owner[w]].type \in KnownTypes
  BY <1>T DEF TypeOK, OffersInv, ServiceType
<1>W. ASSUME NEW w \in Workers, fault = "none", owner[w] # NoService, owner[w] # Freed,
             owner' = owner, NEW replied,
             WorkerWaiting(w, owner[w], services[owner[w]], replied)
      PROVE  OffersInv' /\ Promise!Next
  <2> PICK n, r : n = owner[w] /\ r = services[n]
    OBVIOUS
  <2>1. n \in Names /\ <<w, n>> \in Offering /\ r \in ServiceType /\ r.type \in KnownTypes
    BY <1>O, <1>W
  <2>2. WorkerWaiting(w, n, r, replied)
    BY <1>W
  <2>3. OffersInv'
    BY <1>W, <2>1, <2>2, WaitingOffers
  <2>4. Promise!Stand(w, n) \/ Promise!Take(w, n) \/ Promise!Break
    BY <1>W, <2>1, <2>2, WaitingImplements
  <2> QED
    BY <2>1, <2>3, <2>4 DEF Promise!Next
<1>1. ASSUME NEW c \in Clients, ClientHeartbeat(c) PROVE OffersInv' /\ Promise!Next
  BY <1>1, <1>I, HandsNothing DEF ClientHeartbeat, Silent
<1>2. ASSUME NEW c \in Clients, NEW n \in Names, ClientRequest(c, n)
      PROVE  OffersInv' /\ Promise!Next
  <2> PICK m, r, q : /\ m = [client |-> c, id |-> submitted + 1]
                     /\ r = Required(services[n], DoNotWait) /\ q = Queued(r, m)
    OBVIOUS
  <2>1. m \in Requests
    BY <1>T, <1>2, BrokerAssumption DEF ClientRequest, TypeOK, Requests
  <2>2. /\ r \in ServiceType /\ r.type = DoNotWait
        /\ r.requests = services[n].requests /\ r.waiting = services[n].waiting
    BY <1>D, RequiredKeeps, RequiredSame
  <2>3. /\ q \in ServiceType /\ q.type = DoNotWait /\ q.waiting = services[n].waiting
        /\ q.requests = Append(services[n].requests, m)
    <3>1. /\ q \in ServiceType /\ q.type = r.type /\ q.requests = Append(r.requests, m)
          /\ q.waiting = r.waiting
      BY <2>1, <2>2, QueuedType
    <3> QED
      BY <2>2, <3>1
  <2>4. /\ fault = "none" /\ ServiceDispatch(n, q, {}) /\ expired' = expired
        /\ owner' = OwnerAfterRequire(n, DoNotWait)
    BY <1>2 DEF ClientRequest
  <2>5. OffersInv'
    <3>1. PICK d \in ServiceType :
            /\ services' = [services EXCEPT ![n] = d]
            /\ d.type = q.type /\ Range(d.waiting) \subseteq Range(q.waiting)
      BY <2>3, <2>4, DispatchedService
    <3>2. d.type # Absent
      BY <1>D, <1>K, <2>3, <3>1
    <3>3. \A x \in Range(d.waiting) : <<x, n>> \in Offering
      BY <2>3, <3>1 DEF OffersInv
    <3>4. \A x \in Workers : owner'[x] \in Names =>
            \/ owner'[x] = owner[x]
            \/ owner'[x] = n /\ d.type # Absent /\ <<x, n>> \in Offering
      BY <1>T, <2>4, <3>2, OwnersMoved
    <3> QED
      BY <1>T, <3>1, <3>2, <3>3, <3>4, OffersKept
  <2>6. Promise!Pass(n, m) \/ Promise!Keep(n, m) \/ Promise!Break
    BY <2>1, <2>3, <2>4, RequestImplements
  <2> QED
    BY <2>1, <2>5, <2>6 DEF Promise!Next
<1>3. ASSUME NEW c \in Clients, NEW n \in Names, NEW body \in Names, ClientInternal(c, n, body)
      PROVE  OffersInv' /\ Promise!Next
  <2> PICK r : r = Required(services[n], DoNotWait)
    OBVIOUS
  <2>1. /\ r \in ServiceType /\ r.type = DoNotWait
        /\ r.requests = services[n].requests /\ r.waiting = services[n].waiting
    BY <1>D, RequiredKeeps, RequiredSame
  <2>2. /\ fault = "none" /\ owner' = OwnerAfterRequire(n, DoNotWait) /\ Handed' = <<>>
        /\ UNCHANGED expired
        /\ \/ fault' = "mmi_at" /\ services' = services
           \/ fault' = fault /\ services' = [services EXCEPT ![n] = r]
    <3>1. out'.kind # "request"
      BY <1>3 DEF ClientInternal, Crash, Silent
    <3> QED
      BY <1>3, <3>1, HandsNothing DEF ClientInternal, Crash
  <2>3. \A x \in Workers : owner'[x] \in Names =>
          \/ owner'[x] = owner[x]
          \/ owner'[x] = n /\ <<x, n>> \in Offering
    BY <1>T, <2>2, OwnersMoved
  <2>4. \A x \in Range(services[n].waiting) : <<x, n>> \in Offering
    BY DEF OffersInv
  <2>5. r.type # Absent
    BY <1>D, <1>K, <2>1
  <2>6. CASE fault' = "mmi_at" /\ services' = services
    <3>1. Promise!Break
      BY <2>2, <2>6, Breaks
    <3>2. \A x \in Workers : owner'[x] = owner[x] \/ owner'[x] = Freed
                             \/ (owner'[x] = n /\ services[n].type # Absent)
      BY <1>T, <2>2 DEF OwnerAfterRequire, TypeOK
    <3>3. \A x \in Workers : owner'[x] \in Names =>
            \/ owner'[x] = owner[x]
            \/ owner'[x] = n /\ services[n].type # Absent /\ <<x, n>> \in Offering
      BY <2>3, <3>2, BrokerAssumption
    <3>4. services' = [services EXCEPT ![n] = services[n]]
      BY <1>T, <2>6 DEF TypeOK
    <3>5. services[n].type = Absent => services[n].waiting = <<>>
      BY DEF OffersInv
    <3>6. OffersInv'
      BY <1>T, <2>4, <3>3, <3>4, <3>5, OffersKept
    <3> QED
      BY <3>1, <3>6 DEF Promise!Next
  <2>7. CASE fault' = fault /\ services' = [services EXCEPT ![n] = r]
    <3>1. OffersInv'
      BY <1>T, <2>1, <2>3, <2>4, <2>5, <2>7, OffersKept
    <3>2. /\ Queues' = [Queues EXCEPT ![n] = r.requests]
          /\ Standing' = [Standing EXCEPT ![n] = Range(r.waiting)]
          /\ Queues[n] = services[n].requests /\ Standing[n] = Range(services[n].waiting)
          /\ Serving /\ Serving' = Serving
      BY <1>T, <2>2, <2>7, OneService
    <3>3. Queues' = Queues
      BY <2>1, <3>2 DEF Queues
    <3>4. Standing' = Standing
      BY <2>1, <3>2 DEF Standing
    <3>5. Heard' = Heard
      BY <2>2, <3>2 DEF Heard, Alive
    <3>6. Promise!Idle
      BY <2>2, <3>2, <3>3, <3>4, <3>5 DEF Promise!Idle
    <3> QED
      BY <3>1, <3>6 DEF Promise!Next
  <2> QED
    BY <2>2, <2>6, <2>7
<1>4. ASSUME NEW w \in Workers, NEW o \in Offers, o[1] = w, WorkerReady(w, o[2], o[3])
      PROVE  OffersInv' /\ Promise!Next
  <2> PICK n, t : n = o[2] /\ t = o[3]
    OBVIOUS
  <2>1. n \in Names /\ <<w, n>> \in Offering /\ fault = "none" /\ WorkerReady(w, n, t)
    BY <1>4, BrokerAssumption DEF Offering, WorkerReady
  <2>2. CASE w \in Reserved
    <3>1. WorkerDelete(w, Silent) /\ Silent.kind # "request"
      BY <2>1, <2>2 DEF WorkerReady, Silent
    <3> QED
      BY <2>1, <3>1, DeleteImplements
  <2>3. CASE w \notin Reserved /\ t \notin KnownTypes
    <3>1. owner' = [owner EXCEPT ![w] = NoService] /\ Crash("null_service")
      BY <2>1, <2>3 DEF WorkerReady
    <3>2. \A x \in Workers : owner'[x] \in Names =>
            owner'[x] = owner[x] /\ services[owner[x]].type # Absent
      BY <1>T, <3>1, BrokerAssumption DEF TypeOK, OffersInv
    <3> QED
      BY <1>C, <3>1, <3>2
  <2>4. CASE w \notin Reserved /\ t \in KnownTypes
    <3> PICK r : r = Required(services[n], t)
      OBVIOUS
    <3>1. /\ r \in ServiceType /\ r.type \in KnownTypes
          /\ r.requests = services[n].requests /\ r.waiting = services[n].waiting
      BY <2>1, <2>4, RequiredKeeps, RequiredSame
    <3>2. /\ owner' = [OwnerAfterRequire(n, t) EXCEPT ![w] = n]
          /\ WorkerWaiting(w, n, r, {})
      BY <2>1, <2>4 DEF WorkerReady
    <3>3. OwnerAfterRequire(n, t) \in [Workers -> Names \cup {NoService, Freed}]
      BY <1>T, <2>1, OwnerAfterRequireType
    <3>4. \A x \in Workers : owner'[x] \in Names =>
            \/ owner'[x] = owner[x]
            \/ owner'[x] = n /\ <<x, n>> \in Offering
      <4>1. \A x \in Workers : owner'[x] = IF x = w THEN n ELSE OwnerAfterRequire(n, t)[x]
        BY <3>2, <3>3
      <4> QED
        BY <1>T, <2>1, <4>1, OwnersMoved
    <3>5. OffersInv'
      BY <2>1, <3>1, <3>2, <3>4, WaitingOffers
    <3>6. Promise!Stand(w, n) \/ Promise!Take(w, n) \/ Promise!Break
      BY <2>1, <3>1, <3>2, WaitingImplements
    <3> QED
      BY <2>1, <3>5, <3>6 DEF Promise!Next
  <2> QED
    BY <2>2, <2>3, <2>4
<1>5. ASSUME NEW w \in Workers, WorkerReadyNoName(w) PROVE OffersInv' /\ Promise!Next
  BY <1>5, <1>I, HandsNothing DEF WorkerReadyNoName, Silent
<1>6. ASSUME NEW w \in Workers, NEW c \in Clients, WorkerReply(w, c)
      PROVE  OffersInv' /\ Promise!Next
  <2>1. fault = "none" /\ owner' = owner
    BY <1>6 DEF WorkerReply
  <2>2. CASE owner[w] = NoService \/ owner[w] = Freed
    <3>1. Crash("null_service") \/ Crash("dangling_service")
      BY <1>6, <2>2 DEF WorkerReply
    <3>2. \A x \in Workers : owner'[x] \in Names =>
            owner'[x] = owner[x] /\ services[owner[x]].type # Absent
      BY <2>1 DEF OffersInv
    <3> QED
      BY <1>C, <3>1, <3>2
  <2>3. CASE owner[w] # NoService /\ owner[w] # Freed
    <3>1. WorkerWaiting(w, owner[w], services[owner[w]], {c})
      BY <1>6, <2>3 DEF WorkerReply
    <3> QED
      BY <1>W, <2>1, <2>3, <3>1
  <2> QED
    BY <2>2, <2>3
<1>7. ASSUME NEW w \in Workers, WorkerHeartbeat(w) PROVE OffersInv' /\ Promise!Next
  <2>1. fault = "none"
    BY <1>7 DEF WorkerHeartbeat
  <2>2. CASE owner[w] = NoService
    <3>1. WorkerDelete(w, Disconnect(w)) /\ Disconnect(w).kind # "request"
      BY <1>7, <2>2 DEF WorkerHeartbeat, Disconnect
    <3> QED
      BY <2>1, <3>1, DeleteImplements
  <2>3. CASE owner[w] # NoService /\ owner[w] = Freed
    <3>1. Crash("dangling_service") /\ owner' = owner
      BY <1>7, <2>3 DEF WorkerHeartbeat
    <3>2. \A x \in Workers : owner'[x] \in Names =>
            owner'[x] = owner[x] /\ services[owner[x]].type # Absent
      BY <3>1 DEF OffersInv
    <3> QED
      BY <1>C, <3>1, <3>2
  <2>4. CASE owner[w] # NoService /\ owner[w] # Freed
    <3>1. WorkerWaiting(w, owner[w], services[owner[w]], {}) /\ owner' = owner
      BY <1>7, <2>4 DEF WorkerHeartbeat
    <3> QED
      BY <1>W, <2>1, <2>4, <3>1
  <2> QED
    BY <2>2, <2>3, <2>4
<1>8. ASSUME NEW w \in Workers, WorkerDisconnect(w) PROVE OffersInv' /\ Promise!Next
  <2>1. fault = "none" /\ WorkerDelete(w, Disconnect(w)) /\ Disconnect(w).kind # "request"
    BY <1>8 DEF WorkerDisconnect, Disconnect
  <2> QED
    BY <2>1, DeleteImplements
<1>9. ASSUME NEW w \in Workers, ClockPasses(w) PROVE OffersInv' /\ Promise!Next
  <2>1. /\ fault = "none" /\ fault' = "none" /\ UNCHANGED <<services, owner>>
        /\ expired' = expired \cup {w} /\ Handed' = <<>>
    BY <1>9, HandsNothing DEF ClockPasses, Silent
  <2>2. Serving /\ Serving' /\ Serving' = Serving
    BY <2>1 DEF Serving
  <2>3. Heard' = Heard \ {w} /\ UNCHANGED <<Queues, Standing>>
    BY <2>1, <2>2 DEF Heard, Alive, Queues, Standing
  <2>4. Promise!Fade(w)
    BY <2>1, <2>2, <2>3 DEF Promise!Fade
  <2> QED
    BY <2>1, <2>4 DEF OffersInv, Offering, Promise!Next
<1>10. CASE BrokerHeartbeat
  BY <1>10, <1>I, HandsNothing DEF BrokerHeartbeat
<1>11. CASE Restart
  <2>1. /\ services' = [n \in Names |-> NewService(Absent)]
        /\ owner' = [w \in Workers |-> NoService] /\ expired' = Workers
        /\ fault' = "none" /\ Handed' = <<>>
    BY <1>11, HandsNothing DEF Restart, FreshBroker, Silent
  <2>2. \A n \in Names : /\ services'[n].waiting = <<>> /\ services'[n].requests = <<>>
                         /\ Range(services'[n].waiting) = {}
    BY <2>1 DEF NewService, Service, Range
  <2>3. Serving'
    BY <2>1 DEF Serving
  <2>4. /\ Queues' = [n \in Names |-> <<>>] /\ Standing' = [n \in Names |-> {}]
        /\ Heard' = {}
    BY <2>1, <2>2, <2>3 DEF Queues, Standing, Heard, Alive
  <2>5. Promise!Start
    BY <2>1, <2>3, <2>4 DEF Promise!Start, Promise!Nothing, Serving
  <2>6. OffersInv'
    BY <2>1, <2>2, BrokerAssumption DEF OffersInv
  <2> QED
    BY <2>5, <2>6 DEF Promise!Next
<1> QED
  BY <1>1, <1>2, <1>3, <1>4, <1>5, <1>6, <1>7, <1>8, <1>9, <1>10, <1>11
     DEF Next, ClientNext, WorkerNext

\* The broker keeps what module Exchange promises: in every behaviour, with whatever
\* clients, workers and offers, each handler passes a request on or keeps it, in order,
\* and hands out what waits to a worker that offered the service and is alive.
THEOREM BrokerKeepsPromise == Spec => Promised
<1>1. Init => OffersInv /\ Promise!Init
  <2> SUFFICES ASSUME Init PROVE OffersInv /\ Promise!Init
    OBVIOUS
  <2>1. \A n \in Names : /\ services[n].waiting = <<>> /\ services[n].requests = <<>>
                         /\ Range(services[n].waiting) = {}
    BY DEF Init, NewService, Service, Range
  <2>2. OffersInv
    BY <2>1, BrokerAssumption DEF OffersInv, Init
  <2>3. Serving /\ Handed = <<>>
    BY DEF Init, Serving, Handed, Silent
  <2>4. /\ Queues = [n \in Names |-> <<>>] /\ Standing = [n \in Names |-> {}]
        /\ Heard = {}
    BY <2>1, <2>3 DEF Init, Queues, Standing, Heard, Alive
  <2> QED
    BY <2>2, <2>3, <2>4 DEF Promise!Init, Promise!Nothing, Serving
<1>2. IInv /\ OffersInv /\ [Next]_vars => OffersInv' /\ [Promise!Next]_(Promise!exchangeVars)
  <2> SUFFICES ASSUME IInv, OffersInv, [Next]_vars
               PROVE  OffersInv' /\ [Promise!Next]_(Promise!exchangeVars)
    OBVIOUS
  <2>1. CASE Next
    BY <2>1, StepImplements
  <2>2. CASE UNCHANGED vars
    <3>1. UNCHANGED <<services, owner, expired, fault, out>>
      BY <2>2 DEF vars
    <3>2. OffersInv'
      BY <3>1 DEF OffersInv, Offering
    <3>3. UNCHANGED <<Serving, Queues, Standing, Heard, Handed>>
      BY <3>1 DEF Serving, Queues, Standing, Heard, Handed
    <3> QED
      BY <3>2, <3>3 DEF Promise!exchangeVars
  <2> QED
    BY <2>1, <2>2
<1> QED
  BY <1>1, <1>2, InitIInv, StepIInv, PTL DEF Spec, Promised, Promise!Spec

-----------------------------------------------------------------------------
(* The deployment of the repository is free of invalid pointers.           *)

\* With one worker per service m_waiting has at most one element and never
\* grows past capacity 1, so pos is unset or one past that element.
ObjectSafe(n, r) ==
    /\ r.type \in {Absent, DoNotWait}
    /\ r.type = Absent => r.requests = <<>>
    /\ r.pos \in {Unset, 2} /\ r.cap \in {0, 1}
    /\ r.pos = 2 => r.cap = 1
    /\ Len(r.waiting) <= r.cap
    /\ \A i \in DOMAIN r.waiting : \E o \in Offers : o[1] = r.waiting[i] /\ o[2] = n

ServiceSafe(n) == ObjectSafe(n, services[n])

\* A worker's m_service is null or a service it has announced.
OwnerSafe(w) ==
    owner[w] # NoService => \E o \in Offers : o[1] = w /\ o[2] = owner[w]

SafeInv ==
    /\ \A n \in Names : ServiceSafe(n)
    /\ \A w \in Workers : OwnerSafe(w)
    /\ PointersValid

\* service_require frees no Service object that is referred to.
LEMMA RequiredSafe ==
    ASSUME IInv, SafeInv, NEW n \in Names
    PROVE  /\ ObjectSafe(n, Required(services[n], DoNotWait))
           /\ Required(services[n], DoNotWait) \in ServiceType
<1>1. Required(services[n], DoNotWait) \in ServiceType
  BY RequiredType DEF IInv, TypeOK, KnownTypes
<1>2. ServiceSafe(n)
  BY DEF SafeInv
<1>3. CASE services[n].type = Absent
  <2>1. Required(services[n], DoNotWait) = Service(DoNotWait, <<>>, <<>>, Unset, 0)
    BY <1>3 DEF Required, NewService
  <2>2. Len(<<>>) = 0 /\ DOMAIN <<>> = {}
    OBVIOUS
  <2> QED
    BY <1>1, <2>1, <2>2 DEF Service, ObjectSafe, Unset
<1>4. CASE services[n].type # Absent
  BY <1>1, <1>2, <1>4 DEF Required, ServiceSafe, ObjectSafe
<1> QED
  BY <1>1, <1>3, <1>4

\* worker_waiting of a registered worker lists no freed worker.
LEMMA JoinedSafe ==
    ASSUME Deployed, NEW n \in Names, NEW w \in Workers, NEW r \in ServiceType,
           ObjectSafe(n, r), \E o \in Offers : o[1] = w /\ o[2] = n
    PROVE  ObjectSafe(n, Joined(r, w))
<1>1. CASE w \in Range(r.waiting)
  BY <1>1 DEF Joined
<1>2. CASE w \notin Range(r.waiting)
  <2> DEFINE ws == r.waiting
  <2>1. ws \in Seq(Workers) /\ Len(ws) \in Nat /\ DOMAIN ws = 1 .. Len(ws)
    BY DEF ServiceType
  <2>2. ws = <<>>
    <3>1. SUFFICES ASSUME 1 \in DOMAIN ws PROVE FALSE
      BY <2>1
    <3>2. ws[1] # w
      BY <1>2, <3>1 DEF Range
    <3>3. PICK o \in Offers : o[1] = ws[1] /\ o[2] = n
      BY <3>1 DEF ObjectSafe
    <3> QED
      BY <3>2, <3>3 DEF Deployed
  <2>3. Append(ws, w) = <<w>> /\ Len(ws) = 0
    BY <2>2
  <2>4. /\ Len(<<w>>) = 1
        /\ \A i \in DOMAIN <<w>> : \E o \in Offers : o[1] = <<w>>[i] /\ o[2] = n
    OBVIOUS
  <2>5. CASE 0 < r.cap
    <3>1. Joined(r, w) = [r EXCEPT !.waiting = <<w>>]
      BY <1>2, <2>3, <2>5 DEF Joined
    <3>2. /\ Joined(r, w).type = r.type /\ Joined(r, w).pos = r.pos
          /\ Joined(r, w).cap = r.cap /\ Joined(r, w).waiting = <<w>>
          /\ Joined(r, w).requests = r.requests
      BY <3>1 DEF ServiceType
    <3>3. r.cap = 1
      BY <2>5 DEF ObjectSafe
    <3> QED
      BY <2>4, <3>2, <3>3 DEF ObjectSafe
  <2>6. CASE ~(0 < r.cap)
    <3>1. r.cap = 0 /\ r.pos = Unset
      BY <2>6 DEF ObjectSafe, Unset
    <3>2. Joined(r, w) = Service(r.type, <<w>>, r.requests, Unset, 1)
      BY <1>2, <2>3, <2>6, <3>1 DEF Joined
    <3>3. /\ Joined(r, w).type = r.type /\ Joined(r, w).pos = Unset
          /\ Joined(r, w).cap = 1 /\ Joined(r, w).waiting = <<w>>
          /\ Joined(r, w).requests = r.requests
      BY <3>2 DEF Service
    <3> QED
      BY <2>4, <3>3 DEF ObjectSafe, Unset
  <2> QED
    BY <2>5, <2>6
<1> QED
  BY <1>1, <1>2

\* Erasing from a list does not make it longer.
LEMMA KeptShort ==
    ASSUME NEW ws \in Seq(Workers), NEW keep, NEW v \in Kept(ws, keep)
    PROVE  Len(v) <= Len(ws)
<1> DEFINE kept == Range(ws) \cap keep
<1>1. /\ IsFiniteSet(1 .. Len(ws)) /\ Cardinality(1 .. Len(ws)) = Len(ws)
      /\ Len(ws) \in Nat
  <2>1. Len(ws) \in Nat /\ 1 \in Int /\ Len(ws) \in Int
    OBVIOUS
  <2>2. /\ IsFiniteSet(1 .. Len(ws))
        /\ Cardinality(1 .. Len(ws)) = IF 1 > Len(ws) THEN 0 ELSE Len(ws) - 1 + 1
    BY <2>1, FS_Interval
  <2> QED
    BY <2>1, <2>2
<1>2. IsFiniteSet(Range(ws)) /\ Cardinality(Range(ws)) <= Len(ws)
  <2>1. Range(ws) = {ws[i] : i \in 1 .. Len(ws)}
    BY DEF Range
  <2>2. ws \in [1 .. Len(ws) -> Range(ws)]
    BY DEF Range
  <2>3. ws \in Surjection(1 .. Len(ws), Range(ws))
    BY <2>2 DEF Range, Surjection
  <2> QED
    BY <1>1, <2>3, FS_Surjection
<1>3. IsFiniteSet(kept) /\ Cardinality(kept) <= Cardinality(Range(ws))
  BY <1>2, FS_Subset
<1>4. Cardinality(kept) \in Nat /\ Cardinality(Range(ws)) \in Nat
  BY <1>2, <1>3, FS_CardinalityType
<1>5. Len(v) = Cardinality(kept)
  <2>1. v \in [1 .. Cardinality(kept) -> kept]
    BY DEF Kept
  <2> HIDE DEF kept
  <2> QED
    BY <1>4, <2>1
<1> HIDE DEF kept
<1> QED
  BY <1>1, <1>2, <1>3, <1>4, <1>5

\* With at most one worker, pop_worker reads inside the vector and leaves pos
\* one past it.
LEMMA DrainedSafe ==
    ASSUME NEW n \in Names, NEW r \in ServiceType, NEW v \in Seq(Workers),
           ObjectSafe(n, r), Len(v) <= Len(r.waiting),
           \A i \in DOMAIN v : \E o \in Offers : o[1] = v[i] /\ o[2] = n
    PROVE  ~Faulty(r, v) /\ ObjectSafe(n, Drained(r, v))
<1> DEFINE d == Drained(r, v)
<1>0. Len(v) \in Nat /\ Len(r.waiting) \in Nat
  BY DEF ServiceType
<1>1. Len(v) <= r.cap /\ r.cap \in {0, 1} /\ r.pos \in {Unset, 2}
  BY <1>0 DEF ObjectSafe
<1>2. v # <<>> => Len(v) = 1 /\ r.cap = 1
  <2>1. v # <<>> => Len(v) \in Nat \ {0}
    BY NonEmpty
  <2>2. CASE r.cap = 0
    <3>1. Len(v) <= 0
      BY <1>1, <2>2
    <3> QED
      BY <2>1, <3>1
  <2>3. CASE r.cap = 1
    <3>1. Len(v) <= 1
      BY <1>1, <2>3
    <3>2. \A k \in Nat \ {0} : k <= 1 => k = 1
      OBVIOUS
    <3> QED
      BY <2>1, <2>3, <3>1, <3>2, Zenon
  <2> QED
    BY <1>1, <2>2, <2>3
<1>3. v # <<>> => ReadPos(r, v) = 1
  BY <1>1, <1>2 DEF ReadPos, Unset
<1>4. ~Faulty(r, v)
  BY <1>2, <1>3 DEF Faulty
<1>5. CASE r.requests = <<>>
  BY <1>4, <1>5 DEF Drained
<1>6. CASE r.requests # <<>> /\ v = <<>>
  <2>1. d = [r EXCEPT !.waiting = <<>>]
    BY <1>6 DEF Drained
  <2>2. /\ d.type = r.type /\ d.pos = r.pos /\ d.cap = r.cap
        /\ d.waiting = <<>> /\ d.requests = r.requests
    BY <2>1 DEF ServiceType
  <2>3. Len(<<>>) = 0 /\ DOMAIN <<>> = {}
    OBVIOUS
  <2>4. d.type \in {Absent, DoNotWait} /\ d.pos \in {Unset, 2} /\ d.cap \in {0, 1}
        /\ (d.pos = 2 => d.cap = 1) /\ d.type # Absent
    BY <1>6, <2>2 DEF ObjectSafe
  <2> QED
    BY <1>4, <2>2, <2>3, <2>4 DEF ObjectSafe
<1>7. CASE r.requests # <<>> /\ v # <<>>
  <2> DEFINE b == Burst(r, v)
             p == ((ReadPos(r, v) + b - 2) % Len(v)) + 2
  <2>1. r.type = DoNotWait /\ r.type # Absent
    BY <1>7 DEF ObjectSafe
  <2>2. d.type = r.type /\ d.pos = p /\ d.cap = r.cap /\ d.waiting = v
    BY <1>7, <2>1 DEF Drained, Service
  <2>3. b \in Int
    BY <1>0 DEF Burst, ServiceType
  <2>4. p = 2
    <3> HIDE DEF b
    <3>1. \A x \in Int : x % 1 = 0
      OBVIOUS
    <3>2. 1 + b - 2 \in Int
      BY <2>3
    <3>3. Len(v) = 1 /\ ReadPos(r, v) = 1
      BY <1>2, <1>3, <1>7
    <3> QED
      BY <3>1, <3>2, <3>3
  <2> HIDE DEF p, d
  <2> QED
    BY <1>2, <1>4, <1>7, <2>1, <2>2, <2>4 DEF ObjectSafe, d
<1> QED
  BY <1>5, <1>6, <1>7

\* service_dispatch on a safe Service object reads no freed memory.
LEMMA DispatchSafe ==
    ASSUME IInv, SafeInv, NEW n \in Names, NEW r \in ServiceType, NEW replied,
           ObjectSafe(n, r), ServiceDispatch(n, r, replied)
    PROVE  fault' = "none" /\ \A m \in Names : ServiceSafe(m)'
<1>1. PICK v \in Kept(r.waiting, Alive') :
        ~Faulty(r, v) => /\ fault' = "none"
                         /\ services' = [services EXCEPT ![n] = Drained(r, v)]
  BY DEF ServiceDispatch
<1>2. r.waiting \in Seq(Workers)
  BY DEF ServiceType
<1>3. /\ v \in Seq(Workers)
      /\ \A i \in DOMAIN v : \E o \in Offers : o[1] = v[i] /\ o[2] = n
  BY <1>1, <1>2, KeptType DEF ObjectSafe
<1>4. Len(v) <= Len(r.waiting)
  BY <1>1, <1>2, KeptShort
<1> DEFINE d == Drained(r, v)
<1>5. ~Faulty(r, v) /\ ObjectSafe(n, d)
  BY <1>3, <1>4, DrainedSafe
<1> HIDE DEF d
<1>6. services' = [services EXCEPT ![n] = d] /\ fault' = "none"
  BY <1>1, <1>5 DEF d
<1>7. \A m \in Names : services'[m] = IF m = n THEN d ELSE services[m]
  BY <1>6 DEF IInv, TypeOK
<1> QED
  BY <1>5, <1>6, <1>7 DEF SafeInv, ServiceSafe


\* A broker that has just started refers to nothing that was freed.
LEMMA InitSafe == Init => SafeInv
<1> SUFFICES ASSUME Init PROVE SafeInv
  OBVIOUS
<1>1. ASSUME NEW n \in Names PROVE ServiceSafe(n)
  <2>1. services[n] = Service(Absent, <<>>, <<>>, Unset, 0)
    BY DEF Init, NewService
  <2>2. Len(<<>>) = 0 /\ DOMAIN <<>> = {}
    OBVIOUS
  <2> QED
    BY <2>1, <2>2 DEF Service, ServiceSafe, ObjectSafe, Unset
<1> QED
  BY <1>1 DEF Init, SafeInv, OwnerSafe, PointersValid

\* In the deployment, no handler leaves a reference to freed memory.
LEMMA StepSafe == Deployed /\ IInv /\ SafeInv /\ [Next]_vars => SafeInv'
<1> SUFFICES ASSUME Deployed, IInv, SafeInv, [Next]_vars PROVE SafeInv'
  OBVIOUS
<1>T. TypeOK
  BY DEF IInv
<1>S. /\ \A n \in Names : ServiceSafe(n)
      /\ \A w \in Workers : OwnerSafe(w) /\ owner[w] # Freed
      /\ fault \in {"none", "null_service"}
  <2>1. \A w \in Workers : OwnerSafe(w)
    BY DEF SafeInv
  <2>2. \A w \in Workers : owner[w] # Freed
    BY <2>1, BrokerAssumption DEF OwnerSafe
  <2> QED
    BY <2>1, <2>2 DEF SafeInv, PointersValid
\* A step that changes neither the services nor the pointers to them.
<1>U. ASSUME services' = services, owner' = owner,
             fault' \in {fault, "none", "null_service"}
      PROVE  SafeInv'
  BY <1>S, <1>U DEF SafeInv, ServiceSafe, OwnerSafe, PointersValid
\* service_change never happens: there is one type of service.
<1>R. ASSUME NEW n \in Names PROVE OwnerAfterRequire(n, DoNotWait) = owner
  BY <1>S DEF OwnerAfterRequire, ServiceSafe, ObjectSafe
\* broker::worker_waiting on the service of the worker.
<1>W. ASSUME NEW w \in Workers, NEW n \in Names, NEW r \in ServiceType,
             NEW replied, ObjectSafe(n, r),
             \E o \in Offers : o[1] = w /\ o[2] = n,
             WorkerWaiting(w, n, r, replied)
      PROVE  fault' = "none" /\ \A m \in Names : ServiceSafe(m)'
  <2>1. ObjectSafe(n, Joined(r, w)) /\ Joined(r, w) \in ServiceType
    BY <1>W, JoinedSafe, JoinedType
  <2>2. ServiceDispatch(n, Joined(r, w), replied)
    BY <1>W DEF WorkerWaiting
  <2> QED
    BY <2>1, <2>2, DispatchSafe
<1>D. ASSUME NEW w \in Workers, NEW message, WorkerDelete(w, message)
      PROVE  SafeInv'
  <2>1. fault' = "none" /\ owner' = owner
    BY <1>S, <1>D DEF WorkerDelete
  <2>2. CASE services' = services
    BY <1>U, <2>1, <2>2
  <2>3. CASE services' # services
    <3> DEFINE n == owner[w]
    <3>1. n \in Names
      BY <1>S, <1>T, <1>D, <2>3 DEF WorkerDelete, TypeOK
    <3>2. PICK v \in Kept(services[n].waiting, Workers \ {w}) :
            services' = [services EXCEPT ![n].waiting = v]
      BY <1>S, <1>D, <2>3 DEF WorkerDelete
    <3> HIDE DEF n
    <3> DEFINE r == services[n]
               d == [r EXCEPT !.waiting = v]
    <3>3. r \in ServiceType /\ r.waiting \in Seq(Workers) /\ ServiceSafe(n)
      BY <1>S, <1>T, <3>1 DEF TypeOK, ServiceType
    <3>4. /\ v \in Seq(Workers) /\ Len(v) <= Len(r.waiting)
          /\ \A i \in DOMAIN v : \E p \in DOMAIN r.waiting : r.waiting[p] = v[i]
      BY <3>2, <3>3, KeptType, KeptShort
    <3>5. Len(v) \in Nat /\ Len(r.waiting) \in Nat /\ r.cap \in Nat
      BY <3>3, <3>4 DEF ServiceType
    <3>6. Len(v) <= r.cap
      BY <3>3, <3>4, <3>5 DEF ServiceSafe, ObjectSafe
    <3>7. \A i \in DOMAIN v : \E o \in Offers : o[1] = v[i] /\ o[2] = n
      BY <3>3, <3>4 DEF ServiceSafe, ObjectSafe
    <3>8. /\ d.type = r.type /\ d.pos = r.pos /\ d.cap = r.cap /\ d.waiting = v
          /\ d.requests = r.requests
      BY <3>3 DEF ServiceType
    <3>9. services' = [services EXCEPT ![n] = d]
      BY <3>2
    <3> HIDE DEF d
    <3>10. \A m \in Names : services'[m] = IF m = n THEN d ELSE services[m]
      BY <1>T, <3>9 DEF TypeOK
    <3>11. \A m \in Names : ServiceSafe(m)'
      <4>1. ObjectSafe(n, d)
        BY <3>3, <3>6, <3>7, <3>8 DEF ServiceSafe, ObjectSafe
      <4> QED
        BY <1>S, <3>10, <4>1 DEF ServiceSafe
    <3> QED
      BY <1>S, <2>1, <3>11 DEF SafeInv, OwnerSafe, PointersValid
  <2> QED
    BY <2>2, <2>3
<1>O. ASSUME NEW w \in Workers, owner[w] # NoService
      PROVE  /\ owner[w] \in Names
             /\ services[owner[w]] \in ServiceType
             /\ ObjectSafe(owner[w], services[owner[w]])
             /\ \E o \in Offers : o[1] = w /\ o[2] = owner[w]
  <2>1. owner[w] \in Names
    BY <1>O, <1>S, <1>T DEF TypeOK
  <2> QED
    BY <1>O, <1>S, <1>T, <2>1 DEF TypeOK, ServiceSafe, OwnerSafe
<1>1. CASE UNCHANGED vars
  BY <1>1, <1>U DEF vars
<1>2. ASSUME NEW c \in Clients, ClientHeartbeat(c) PROVE SafeInv'
  BY <1>2, <1>U DEF ClientHeartbeat
<1>3. ASSUME NEW c \in Clients, NEW n \in Names, ClientRequest(c, n)
      PROVE  SafeInv'
  <2> DEFINE m == [client |-> c, id |-> submitted + 1]
             r == Required(services[n], DoNotWait)
             q == Queued(r, m)
  <2>1. m \in Requests
    BY <1>T, <1>3, BrokerAssumption DEF ClientRequest, TypeOK, Requests
  <2>2. ObjectSafe(n, r) /\ r \in ServiceType /\ r.type # Absent
    BY RequiredSafe, RequiredKeeps DEF KnownTypes
  <2>3. ServiceDispatch(n, q, {}) /\ owner' = owner
    BY <1>3, <1>R DEF ClientRequest
  <2> HIDE DEF r, m
  <2>4. /\ q \in ServiceType /\ q.type = r.type /\ q.waiting = r.waiting
        /\ q.pos = r.pos /\ q.cap = r.cap
    BY <2>1, <2>2, QueuedType DEF Queued, ServiceType
  <2> HIDE DEF q
  <2>5. ObjectSafe(n, q)
    BY <2>2, <2>4 DEF ObjectSafe
  <2>6. fault' = "none" /\ \A k \in Names : ServiceSafe(k)'
    BY <2>3, <2>4, <2>5, DispatchSafe
  <2> QED
    BY <1>S, <2>3, <2>6 DEF SafeInv, OwnerSafe, PointersValid
<1>4. ASSUME NEW c \in Clients, NEW n \in Names, NEW body \in Names,
             ClientInternal(c, n, body)
      PROVE  SafeInv'
  <2> DEFINE r == Required(services[n], DoNotWait)
  <2>1. n # MmiService /\ fault = "none"
    BY <1>4 DEF ClientInternal, Deployed
  <2>2. owner' = owner /\ fault' = "none" /\ services' = [services EXCEPT ![n] = r]
    BY <1>4, <1>R, <2>1 DEF ClientInternal
  <2>3. ObjectSafe(n, r)
    BY RequiredSafe
  <2> HIDE DEF r
  <2>4. \A k \in Names : services'[k] = IF k = n THEN r ELSE services[k]
    BY <1>T, <2>2 DEF TypeOK
  <2> QED
    BY <1>S, <2>2, <2>3, <2>4 DEF SafeInv, ServiceSafe, OwnerSafe, PointersValid
<1>5. ASSUME NEW w \in Workers, NEW o \in Offers, o[1] = w,
             WorkerReady(w, o[2], o[3])
      PROVE  SafeInv'
  <2> DEFINE n == o[2]
  <2>1. n \in Names /\ o[3] = DoNotWait /\ DoNotWait \in KnownTypes
    BY BrokerAssumption DEF Deployed, KnownTypes
  <2>2. CASE w \in Reserved
    BY <1>5, <1>D, <2>2 DEF WorkerReady
  <2>3. CASE w \notin Reserved
    <3> DEFINE r == Required(services[n], DoNotWait)
    <3>1. /\ owner' = [owner EXCEPT ![w] = n]
          /\ WorkerWaiting(w, n, r, {})
      BY <1>5, <1>R, <2>1, <2>3 DEF WorkerReady
    <3>2. ObjectSafe(n, r) /\ r \in ServiceType
      BY <2>1, RequiredSafe
    <3>3. \E x \in Offers : x[1] = w /\ x[2] = n
      BY <1>5
    <3> HIDE DEF r, n
    <3>4. fault' = "none" /\ \A k \in Names : ServiceSafe(k)'
      BY <1>W, <2>1, <3>1, <3>2, <3>3
    <3>5. \A u \in Workers : owner'[u] = IF u = w THEN n ELSE owner[u]
      BY <1>T, <3>1 DEF TypeOK
    <3>6. \A u \in Workers : OwnerSafe(u)'
      BY <1>S, <3>3, <3>5 DEF OwnerSafe
    <3> QED
      BY <3>4, <3>6 DEF SafeInv, PointersValid
  <2> QED
    BY <2>2, <2>3
<1>6. ASSUME NEW w \in Workers, WorkerReadyNoName(w) PROVE SafeInv'
  BY <1>6, <1>U DEF WorkerReadyNoName
<1>7. ASSUME NEW w \in Workers, NEW c \in Clients, WorkerReply(w, c)
      PROVE  SafeInv'
  <2>1. owner' = owner
    BY <1>7 DEF WorkerReply
  <2>2. CASE owner[w] = NoService
    <3>1. Crash("null_service")
      BY <1>7, <2>2 DEF WorkerReply
    <3> QED
      BY <1>U, <2>1, <3>1 DEF Crash
  <2>3. CASE owner[w] # NoService
    <3>1. WorkerWaiting(w, owner[w], services[owner[w]], {c})
      BY <1>7, <1>S, <2>3 DEF WorkerReply
    <3>2. fault' = "none" /\ \A k \in Names : ServiceSafe(k)'
      BY <1>O, <1>W, <2>3, <3>1
    <3> QED
      BY <1>S, <2>1, <3>2 DEF SafeInv, OwnerSafe, PointersValid
  <2> QED
    BY <2>2, <2>3
<1>8. ASSUME NEW w \in Workers, WorkerHeartbeat(w) PROVE SafeInv'
  <2>1. CASE owner[w] = NoService
    BY <1>8, <1>D, <2>1 DEF WorkerHeartbeat
  <2>2. CASE owner[w] # NoService
    <3>1. /\ WorkerWaiting(w, owner[w], services[owner[w]], {})
          /\ owner' = owner
      BY <1>8, <1>S, <2>2 DEF WorkerHeartbeat
    <3>2. fault' = "none" /\ \A k \in Names : ServiceSafe(k)'
      BY <1>O, <1>W, <2>2, <3>1
    <3> QED
      BY <1>S, <3>1, <3>2 DEF SafeInv, OwnerSafe, PointersValid
  <2> QED
    BY <2>1, <2>2
<1>9. ASSUME NEW w \in Workers, WorkerDisconnect(w) PROVE SafeInv'
  BY <1>9, <1>D DEF WorkerDisconnect
<1>10. ASSUME NEW w \in Workers, ClockPasses(w) PROVE SafeInv'
  BY <1>10, <1>U DEF ClockPasses
<1>11. CASE BrokerHeartbeat
  BY <1>11, <1>U DEF BrokerHeartbeat
<1>12. CASE Restart
  <2>1. /\ services' = [n \in Names |-> NewService(Absent)]
        /\ owner' = [w \in Workers |-> NoService] /\ fault' = "none"
    BY <1>12 DEF Restart, FreshBroker
  <2>2. ASSUME NEW n \in Names PROVE ServiceSafe(n)'
    <3>1. services'[n] = Service(Absent, <<>>, <<>>, Unset, 0)
      BY <2>1 DEF NewService
    <3>2. Len(<<>>) = 0 /\ DOMAIN <<>> = {}
      OBVIOUS
    <3> QED
      BY <3>1, <3>2 DEF Service, ServiceSafe, ObjectSafe, Unset
  <2> QED
    BY <2>1, <2>2 DEF SafeInv, OwnerSafe, PointersValid
<1> QED
  BY <1>1, <1>2, <1>3, <1>4, <1>5, <1>6, <1>7, <1>8, <1>9, <1>10, <1>11, <1>12
     DEF Next, ClientNext, WorkerNext

\* In the repository's deployment the broker never follows an invalid iterator
\* or a pointer to a deleted Service, however many services, workers and
\* clients there are; only a REPLY without a service (a null m_service) is left.
THEOREM DeploymentSafe == Deployed => (Spec => []PointersValid)
<1>1. SafeInv => PointersValid
  BY DEF SafeInv
<1>2. Deployed /\ IInv /\ SafeInv /\ [Next]_vars => (IInv /\ SafeInv)'
  BY StepIInv, StepSafe
<1>3. SUFFICES ASSUME Deployed PROVE Spec => []PointersValid
  OBVIOUS
<1>4. IInv /\ SafeInv /\ [Next]_vars => (IInv /\ SafeInv)'
  BY <1>2, <1>3
<1> QED
  BY <1>1, <1>4, InitIInv, InitSafe, PTL DEF Spec

-----------------------------------------------------------------------------
(* Lists of requests, and channels of messages.                            *)

\* The request or reply at place i of a channel of messages.
Holds(s, i, op, m) == s[i].op = op /\ s[i].req = m
Has(s, op, m) == \E i \in DOMAIN s : Holds(s, i, op, m)
Once(s, op) ==
    \A i, j \in DOMAIN s : s[i].op = op /\ s[j].op = op /\ s[i].req = s[j].req => i = j

\* Taking the first of a list without repetition takes it out of the list.
LEMMA TailOnce ==
    ASSUME NEW S, NEW s \in Seq(S), s # <<>>, IsInjective(s)
    PROVE  /\ Tail(s) \in Seq(S) /\ IsInjective(Tail(s))
           /\ Head(s) \in Range(s) /\ Head(s) \in S
           /\ \A m : m \in Range(Tail(s)) => m \in Range(s) /\ m # Head(s)
<1>1. Len(s) \in Nat \ {0} /\ DOMAIN s = 1 .. Len(s) /\ Head(s) = s[1]
  BY EmptySeq, LenProperties
<1>2. /\ Tail(s) \in Seq(S) /\ Head(s) \in S
      /\ Len(Tail(s)) = Len(s) - 1
      /\ \A i \in 1 .. Len(Tail(s)) : Tail(s)[i] = s[i + 1]
  BY HeadTailProperties
<1>3. DOMAIN Tail(s) = 1 .. Len(s) - 1
  BY <1>2, LenProperties
<1>4. \A i \in DOMAIN Tail(s) : i + 1 \in DOMAIN s /\ i + 1 # 1 /\ Tail(s)[i] = s[i + 1]
  BY <1>1, <1>2, <1>3
<1>5. IsInjective(Tail(s))
  <2>1. \A i, j \in DOMAIN Tail(s) : i + 1 = j + 1 => i = j
    BY <1>1, <1>3
  <2> QED
    BY <1>4, <2>1 DEF IsInjective
<1>6. 1 \in DOMAIN s
  BY <1>1
<1>7. \A m : m \in Range(Tail(s)) => m \in Range(s) /\ m # Head(s)
  BY <1>1, <1>4, <1>6 DEF IsInjective, Range
<1> QED
  BY <1>1, <1>2, <1>5, <1>6, <1>7 DEF Range

\* A list without repetition stays one when something new is added.
LEMMA AppendOnce ==
    ASSUME NEW S, NEW s \in Seq(S), NEW e \in S, IsInjective(s), e \notin Range(s)
    PROVE  /\ Append(s, e) \in Seq(S) /\ IsInjective(Append(s, e))
           /\ \A m : m \in Range(Append(s, e)) <=> (m \in Range(s) \/ m = e)
<1>1. /\ Len(s) \in Nat /\ DOMAIN s = 1 .. Len(s)
      /\ Append(s, e) \in Seq(S) /\ DOMAIN Append(s, e) = 1 .. Len(s) + 1
      /\ \A i \in 1 .. Len(s) : Append(s, e)[i] = s[i]
      /\ Append(s, e)[Len(s) + 1] = e
  BY AppendProperties, LenProperties
<1> DEFINE t == Append(s, e)
<1> HIDE DEF t
<1>2. PICK n \in Nat : n = Len(s)
  BY <1>1
<1>3. /\ DOMAIN s = 1 .. n /\ DOMAIN t = 1 .. n + 1 /\ t[n + 1] = e
      /\ \A i \in 1 .. n : t[i] = s[i]
  BY <1>1, <1>2 DEF t
<1>4. \A i \in 1 .. n + 1 : i \in 1 .. n \/ i = n + 1
  BY <1>2
<1>5. \A i \in 1 .. n : i \in 1 .. n + 1 /\ i # n + 1 /\ s[i] # e
  BY <1>2, <1>3 DEF Range
<1>6. IsInjective(t)
  BY <1>3, <1>4, <1>5 DEF IsInjective
<1>7. \A m : m \in Range(t) <=> (m \in Range(s) \/ m = e)
  <2>1. n + 1 \in 1 .. n + 1
    BY <1>2
  <2> QED
    BY <1>3, <1>4, <1>5, <2>1 DEF Range
<1> QED
  BY <1>1, <1>6, <1>7 DEF t

\* The two parts of a list without repetition have nothing in common.
LEMMA PartsOnce ==
    ASSUME NEW S, NEW a \in Seq(S), NEW b \in Seq(S), IsInjective(a \o b)
    PROVE  /\ IsInjective(a) /\ IsInjective(b)
           /\ \A m : m \in Range(a) => m \in Range(a \o b) /\ m \notin Range(b)
           /\ \A m : m \in Range(b) => m \in Range(a \o b)
<1>1. PICK c \in Seq(S) : c = a \o b
  BY ConcatProperties
<1>2. PICK k \in Nat, n \in Nat : k = Len(a) /\ n = Len(b)
  BY LenProperties
<1>3. /\ DOMAIN a = 1 .. k /\ DOMAIN b = 1 .. n /\ DOMAIN c = 1 .. k + n
      /\ \A i \in 1 .. k + n : c[i] = IF i <= k THEN a[i] ELSE b[i - k]
  BY <1>1, <1>2, ConcatProperties, LenProperties
<1>4. \A i \in 1 .. k : i \in 1 .. k + n /\ c[i] = a[i]
  BY <1>2, <1>3
<1>5. \A i \in 1 .. n : i + k \in 1 .. k + n /\ c[i + k] = b[i]
  <2> TAKE i \in 1 .. n
  <2>1. i + k \in 1 .. k + n /\ ~(i + k <= k) /\ i + k - k = i
    BY <1>2
  <2> QED
    BY <1>3, <2>1
<1>6. \A i \in 1 .. k, j \in 1 .. n : i # j + k
  BY <1>2
<1>7. \A i, j \in 1 .. n : i + k = j + k => i = j
  BY <1>2
<1>8. IsInjective(c)
  BY <1>1
<1>9. IsInjective(a)
  BY <1>3, <1>4, <1>8 DEF IsInjective
<1>12. IsInjective(b)
  <2> SUFFICES ASSUME NEW i \in 1 .. n, NEW j \in 1 .. n, b[i] = b[j]
               PROVE  i = j
    BY <1>3 DEF IsInjective
  <2>1. i + k = j + k
    BY <1>3, <1>5, <1>8 DEF IsInjective
  <2> QED
    BY <1>7, <2>1
<1>10. \A m : m \in Range(a) => m \in Range(c) /\ m \notin Range(b)
  <2> SUFFICES ASSUME NEW i \in 1 .. k
               PROVE  a[i] \in Range(c) /\ a[i] \notin Range(b)
    BY <1>3 DEF Range
  <2>1. a[i] \in Range(c)
    BY <1>3, <1>4 DEF Range
  <2>2. ASSUME NEW j \in 1 .. n, b[j] = a[i] PROVE FALSE
    <3>1. i = j + k
      BY <1>3, <1>4, <1>5, <1>8, <2>2 DEF IsInjective
    <3> QED
      BY <1>6, <3>1
  <2> QED
    BY <1>3, <2>1, <2>2 DEF Range
<1>11. \A m : m \in Range(b) => m \in Range(c)
  BY <1>3, <1>5 DEF Range
<1> QED
  BY <1>1, <1>9, <1>10, <1>11, <1>12

\* Reading the first message of a channel takes it out of the channel.
LEMMA ChannelTail ==
    ASSUME NEW S, NEW s \in Seq(S), s # <<>>, NEW op, Once(s, op)
    PROVE  /\ Tail(s) \in Seq(S) /\ Once(Tail(s), op) /\ Head(s) \in S
           /\ Head(s).op = op => Has(s, op, Head(s).req)
           /\ \A m : Has(Tail(s), op, m) =>
                /\ Has(s, op, m)
                /\ Head(s).op = op => m # Head(s).req
<1>1. Len(s) \in Nat \ {0} /\ DOMAIN s = 1 .. Len(s) /\ Head(s) = s[1]
  BY EmptySeq, LenProperties
<1>2. /\ Tail(s) \in Seq(S) /\ Head(s) \in S
      /\ Len(Tail(s)) = Len(s) - 1
      /\ \A i \in 1 .. Len(Tail(s)) : Tail(s)[i] = s[i + 1]
  BY HeadTailProperties
<1> PICK n \in Nat, t \in Seq(S) : n = Len(s) /\ t = Tail(s)
  BY <1>1, <1>2
<1>3. /\ DOMAIN t = 1 .. n - 1 /\ DOMAIN s = 1 .. n /\ 1 \in 1 .. n
      /\ \A i \in 1 .. n - 1 : t[i] = s[i + 1]
  BY <1>1, <1>2, LenProperties
<1>4. \A i \in 1 .. n - 1 : i + 1 \in 1 .. n /\ i + 1 # 1
  BY <1>1
<1>5. Once(t, op)
  <2>1. \A i, j \in 1 .. n - 1 : i + 1 = j + 1 => i = j
    OBVIOUS
  <2> QED
    BY <1>3, <1>4, <2>1 DEF Once
<1>6. Head(s).op = op => Has(s, op, Head(s).req)
  BY <1>1, <1>3 DEF Has, Holds
<1>7. ASSUME NEW m, Has(t, op, m)
      PROVE  Has(s, op, m) /\ (Head(s).op = op => m # Head(s).req)
  <2>1. PICK i \in 1 .. n - 1 : t[i].op = op /\ t[i].req = m
    BY <1>3, <1>7 DEF Has, Holds
  <2>2. i + 1 \in DOMAIN s /\ s[i + 1].op = op /\ s[i + 1].req = m /\ i + 1 # 1
    BY <1>3, <1>4, <2>1
  <2>3. Has(s, op, m)
    BY <2>2 DEF Has, Holds
  <2> QED
    BY <1>1, <1>3, <2>2, <2>3 DEF Once
<1> QED
  BY <1>2, <1>5, <1>6, <1>7

\* A channel with two parts that hold different requests holds what they hold.
LEMMA ChannelConcat ==
    ASSUME NEW S, NEW a \in Seq(S), NEW b \in Seq(S), NEW op,
           Once(a, op), Once(b, op), \A m : ~(Has(a, op, m) /\ Has(b, op, m))
    PROVE  /\ a \o b \in Seq(S) /\ Once(a \o b, op)
           /\ \A m : Has(a \o b, op, m) <=> (Has(a, op, m) \/ Has(b, op, m))
<1>1. PICK c \in Seq(S) : c = a \o b
  BY ConcatProperties
<1>2. PICK k \in Nat, n \in Nat : k = Len(a) /\ n = Len(b)
  BY LenProperties
<1>3. /\ DOMAIN a = 1 .. k /\ DOMAIN b = 1 .. n /\ DOMAIN c = 1 .. k + n
      /\ \A i \in 1 .. k + n : c[i] = IF i <= k THEN a[i] ELSE b[i - k]
  BY <1>1, <1>2, ConcatProperties, LenProperties
<1>4. \A i \in 1 .. k : i \in 1 .. k + n /\ c[i] = a[i]
  BY <1>2, <1>3
<1>5. \A i \in 1 .. n : i + k \in 1 .. k + n /\ c[i + k] = b[i]
  <2> TAKE i \in 1 .. n
  <2>1. i + k \in 1 .. k + n /\ ~(i + k <= k) /\ i + k - k = i
    BY <1>2
  <2> QED
    BY <1>3, <2>1
<1>6. \A i \in 1 .. k + n : i \in 1 .. k \/ \E j \in 1 .. n : i = j + k
  <2> SUFFICES ASSUME NEW i \in 1 .. k + n, i \notin 1 .. k
               PROVE  \E j \in 1 .. n : i = j + k
    OBVIOUS
  <2>1. i - k \in 1 .. n /\ i = (i - k) + k
    BY <1>2
  <2> QED
    BY <2>1
<1>7. \A m : Has(c, op, m) <=> (Has(a, op, m) \/ Has(b, op, m))
  <2> TAKE m
  <2>1. Has(a, op, m) => Has(c, op, m)
    BY <1>3, <1>4 DEF Has, Holds
  <2>2. Has(b, op, m) => Has(c, op, m)
    BY <1>3, <1>5 DEF Has, Holds
  <2>3. ASSUME Has(c, op, m) PROVE Has(a, op, m) \/ Has(b, op, m)
    <3>1. PICK i \in 1 .. k + n : c[i].op = op /\ c[i].req = m
      BY <1>3, <2>3 DEF Has, Holds
    <3>2. CASE i \in 1 .. k
      BY <1>3, <1>4, <3>1, <3>2 DEF Has, Holds
    <3>3. ASSUME NEW j \in 1 .. n, i = j + k PROVE Has(b, op, m)
      BY <1>3, <1>5, <3>1, <3>3 DEF Has, Holds
    <3> QED
      BY <1>6, <3>2, <3>3
  <2> QED
    BY <2>1, <2>2, <2>3
<1>8. Once(c, op)
  <2> SUFFICES ASSUME NEW i \in 1 .. k + n, NEW j \in 1 .. k + n,
                      c[i].op = op, c[j].op = op, c[i].req = c[j].req
               PROVE  i = j
    BY <1>3 DEF Once
  <2>1. CASE i \in 1 .. k /\ j \in 1 .. k
    BY <1>3, <1>4, <2>1 DEF Once
  <2>2. CASE i \in 1 .. k /\ j \notin 1 .. k
    <3>1. PICK y \in 1 .. n : j = y + k
      BY <1>6, <2>2
    <3>2. Has(a, op, c[i].req)
      BY <1>3, <1>4, <2>2 DEF Has, Holds
    <3>3. Has(b, op, c[j].req)
      BY <1>3, <1>5, <3>1 DEF Has, Holds
    <3> QED
      BY <3>2, <3>3
  <2>3. CASE i \notin 1 .. k /\ j \in 1 .. k
    <3>1. PICK x \in 1 .. n : i = x + k
      BY <1>6, <2>3
    <3>2. Has(a, op, c[j].req)
      BY <1>3, <1>4, <2>3 DEF Has, Holds
    <3>3. Has(b, op, c[i].req)
      BY <1>3, <1>5, <3>1 DEF Has, Holds
    <3> QED
      BY <3>2, <3>3
  <2>4. CASE i \notin 1 .. k /\ j \notin 1 .. k
    <3>1. PICK x \in 1 .. n, y \in 1 .. n : i = x + k /\ j = y + k
      BY <1>6, <2>4
    <3>2. x = y
      BY <1>3, <1>5, <3>1 DEF Once
    <3> QED
      BY <3>1, <3>2
  <2> QED
    BY <2>1, <2>2, <2>3, <2>4
<1> QED
  BY <1>1, <1>7, <1>8

\* Appending a message with no request, or with a new one.
LEMMA ChannelAppend ==
    ASSUME NEW S, NEW s \in Seq(S), NEW e \in S, NEW op, Once(s, op),
           e.op = op => ~Has(s, op, e.req)
    PROVE  /\ Append(s, e) \in Seq(S) /\ Once(Append(s, e), op)
           /\ \A m : Has(Append(s, e), op, m) <=>
                       (Has(s, op, m) \/ (e.op = op /\ e.req = m))
<1>1. Append(s, e) = s \o <<e>> /\ <<e>> \in Seq(S)
  BY AppendIsConcat
<1>2. DOMAIN <<e>> = {1} /\ <<e>>[1] = e
  OBVIOUS
<1>3. \A m : Has(<<e>>, op, m) <=> (e.op = op /\ e.req = m)
  BY <1>2 DEF Has, Holds
<1>4. Once(<<e>>, op)
  BY <1>2 DEF Once
<1>5. \A m : ~(Has(s, op, m) /\ Has(<<e>>, op, m))
  BY <1>3
<1> PICK t \in Seq(S) : t = <<e>>
  BY <1>1
<1>6. /\ s \o t \in Seq(S) /\ Once(s \o t, op)
      /\ \A m : Has(s \o t, op, m) <=> (Has(s, op, m) \/ Has(t, op, m))
  BY <1>4, <1>5, ChannelConcat
<1> QED
  BY <1>1, <1>3, <1>6

\* What is left of a channel when its last messages are dropped.
LEMMA ChannelPrefix ==
    ASSUME NEW S, NEW s \in Seq(S), NEW k \in 0 .. Len(s), NEW op, Once(s, op)
    PROVE  /\ SubSeq(s, 1, k) \in Seq(S) /\ Once(SubSeq(s, 1, k), op)
           /\ \A m : Has(SubSeq(s, 1, k), op, m) => Has(s, op, m)
<1>1. PICK n \in Nat : n = Len(s) /\ DOMAIN s = 1 .. n
  BY LenProperties
<1>2. k \in 0 .. n /\ k \in Int
  BY <1>1
<1>3. \A i \in 1 .. k : s[i] \in S
  BY <1>1, <1>2, ElementOfSeq
<1>4. PICK t : t = SubSeq(s, 1, k)
  OBVIOUS
<1>5. /\ t \in Seq(S) /\ Len(t) = (IF 1 <= k THEN k - 1 + 1 ELSE 0)
      /\ \A i \in 1 .. k - 1 + 1 : t[i] = s[1 + i - 1]
  BY <1>2, <1>3, <1>4, SubSeqProperties
<1>6. DOMAIN t = 1 .. k
  BY <1>2, <1>5, LenProperties
<1>7. \A i \in 1 .. k : i \in 1 .. n /\ t[i] = s[i]
  BY <1>2, <1>5
<1>8. Once(t, op)
  BY <1>1, <1>6, <1>7 DEF Once
<1>9. \A m : Has(t, op, m) => Has(s, op, m)
  BY <1>1, <1>6, <1>7 DEF Has, Holds
<1> QED
  BY <1>4, <1>5, <1>8, <1>9

\* What travels between worker and broker.
UpMsg == {Ready, Heartbeat} \cup [op : {"REPLY"}, req : Requests, to : Clients]
DownMsg == {DisconnectMsg} \cup [op : {"REQUEST"}, req : Requests]

-----------------------------------------------------------------------------
(* The broker's side: what a handler takes from a queue is what it sends.  *)

\* A set of positions has a k-th one.
LEMMA NthExists ==
    ASSUME NEW n \in Nat, NEW P \in SUBSET (1 .. n), NEW k \in 1 .. Cardinality(P)
    PROVE  \E i \in P : Cardinality({j \in P : j <= i}) = k
<1>1. IsFiniteSet(P) /\ Cardinality(P) \in Nat
  <2>1. IsFiniteSet(1 .. n)
    BY FS_Interval
  <2> QED
    BY <2>1, FS_Subset, FS_CardinalityType
<1> PICK c \in Nat : c = Cardinality(P)
  BY <1>1
<1> DEFINE upTo(i) == {j \in P : j <= i}
           f == [i \in P |-> Cardinality(upTo(i))]
<1>2. \A i \in P : IsFiniteSet(upTo(i)) /\ Cardinality(upTo(i)) \in 1 .. c
  <2> TAKE i \in P
  <2>1. IsFiniteSet(upTo(i)) /\ Cardinality(upTo(i)) <= c
    <3>1. upTo(i) \in SUBSET P
      OBVIOUS
    <3> HIDE DEF upTo
    <3> QED
      BY <1>1, <3>1, FS_Subset
  <2>2. i \in upTo(i)
    OBVIOUS
  <2>3. Cardinality(upTo(i)) # 0 /\ Cardinality(upTo(i)) \in Nat
    <3> HIDE DEF upTo
    <3> QED
      BY <2>1, <2>2, FS_EmptySet, FS_CardinalityType
  <2> HIDE DEF upTo
  <2> QED
    BY <2>1, <2>3
<1>3. f \in [P -> 1 .. c]
  BY <1>2
<1>4. ASSUME NEW i \in P, NEW j \in P, i < j PROVE f[i] # f[j]
  <2>1. upTo(i) \in SUBSET upTo(j) /\ j \in upTo(j) /\ j \notin upTo(i)
    <3>1. \A x \in P : x <= i => x <= j
      BY <1>4
    <3>2. ~(j <= i) /\ j <= j
      BY <1>4
    <3> QED
      BY <3>1, <3>2
  <2> HIDE DEF upTo
  <2>2. Cardinality(upTo(i)) # Cardinality(upTo(j))
    BY <1>2, <2>1, FS_Subset
  <2> QED
    BY <2>2
<1> HIDE DEF f
<1>5. \A i, j \in P : f[i] = f[j] => i = j
  <2>1. \A i, j \in P : i < j \/ j < i \/ i = j
    OBVIOUS
  <2> QED
    BY <1>4, <2>1
<1>6. f \in Injection(P, 1 .. c)
  BY <1>3, <1>5 DEF Injection, IsInjective
<1>7. IsFiniteSet(1 .. c) /\ Cardinality(1 .. c) = c
  BY FS_Interval
<1>8. f \in Surjection(P, 1 .. c)
  BY <1>6, <1>7, FS_Injection
<1>9. PICK i \in P : f[i] = k
  BY <1>8 DEF Surjection
<1> QED
  BY <1>9 DEF f

\* A function on 1 .. c is a sequence.
LEMMA IsSeq == ASSUME NEW S, NEW c \in Nat, NEW f \in [1 .. c -> S]
               PROVE  f \in Seq(S)
BY SeqDef

\* The requests for a worker are some of those sent, each of them once.
LEMMA RequestsForFacts ==
    ASSUME NEW w, NEW o, o = out', NEW n \in Nat,
           o.to \in [1 .. n -> Workers], o.sent \in [1 .. n -> Requests],
           IsInjective(o.sent)
    PROVE  /\ RequestsFor(w) \in Seq(DownMsg) /\ Once(RequestsFor(w), "REQUEST")
           /\ \A m : Has(RequestsFor(w), "REQUEST", m) =>
                \E i \in 1 .. n : o.sent[i] = m /\ o.to[i] = w
<1> DEFINE mine == {i \in 1 .. n : o.to[i] = w}
           card(i) == Cardinality({j \in mine : j <= i})
           nth(k) == CHOOSE i \in mine : card(i) = k
<1>1. \A k \in 1 .. Cardinality(mine) : nth(k) \in mine /\ card(nth(k)) = k
  <2> TAKE k \in 1 .. Cardinality(mine)
  <2>1. mine \in SUBSET (1 .. n)
    OBVIOUS
  <2> HIDE DEF mine
  <2>2. \E i \in mine : card(i) = k
    BY <2>1, NthExists
  <2> HIDE DEF card
  <2> QED
    BY <2>2
<1>2. Cardinality(mine) \in Nat
  <2>1. IsFiniteSet(1 .. n)
    BY FS_Interval
  <2> QED
    BY <2>1, FS_Subset, FS_CardinalityType
<1> PICK r, c : r = RequestsFor(w) /\ c = Cardinality(mine) /\ c \in Nat
  BY <1>2
<1>3. r = [k \in 1 .. c |-> Request(o.sent[nth(k)])]
  <2>1. DOMAIN o.to = 1 .. n
    OBVIOUS
  <2> QED
    BY <2>1 DEF RequestsFor
<1> HIDE DEF nth, card
<1>4. \A k \in 1 .. c : /\ nth(k) \in 1 .. n /\ o.to[nth(k)] = w
                        /\ o.sent[nth(k)] \in Requests
  BY <1>1
<1>5. \A k \in 1 .. c : r[k].op = "REQUEST" /\ r[k].req = o.sent[nth(k)]
  BY <1>3 DEF Request
<1>6. r \in Seq(DownMsg) /\ DOMAIN r = 1 .. c
  <2>1. \A k \in 1 .. c : Request(o.sent[nth(k)]) \in DownMsg
    BY <1>4 DEF DownMsg, Request
  <2>2. r \in [1 .. c -> DownMsg]
    BY <1>3, <2>1
  <2>3. DOMAIN r = 1 .. c
    BY <1>3
  <2>4. r \in Seq(DownMsg)
    BY <2>2, IsSeq
  <2> QED
    BY <2>3, <2>4
<1>7. Once(r, "REQUEST")
  <2> SUFFICES ASSUME NEW i \in 1 .. c, NEW j \in 1 .. c, r[i].req = r[j].req
               PROVE  i = j
    BY <1>6 DEF Once
  <2>1. nth(i) = nth(j)
    BY <1>4, <1>5 DEF IsInjective
  <2>2. card(nth(i)) = card(nth(j))
    BY <2>1
  <2> QED
    BY <1>1, <2>2
<1>8. \A m : Has(r, "REQUEST", m) => \E i \in 1 .. n : o.sent[i] = m /\ o.to[i] = w
  BY <1>4, <1>5, <1>6 DEF Has, Holds
<1> QED
  BY <1>6, <1>7, <1>8

\* A worker is brought a request.
Brought(w, m) == Has(Delivered(w), "REQUEST", m)

\* The handler took requests from the queue q of service n and sent them.
TakesFrom(n, q) ==
    /\ \A k \in Names : k # n => services'[k] = services[k]
    /\ services'[n].requests \in Seq(Requests) /\ IsInjective(services'[n].requests)
    /\ \A m : m \in Range(services'[n].requests) => m \in Range(q)
    /\ \A w \in Workers : /\ Delivered(w) \in Seq(DownMsg)
                          /\ Once(Delivered(w), "REQUEST")
    /\ \A w \in Workers : \A m :
         Brought(w, m) => m \in Range(q) /\ m \notin Range(services'[n].requests)
    /\ \A w, x \in Workers : \A m : Brought(w, m) /\ Brought(x, m) => w = x

\* A handler that sends no request brings none.
LEMMA NothingBrought ==
    ASSUME NEW w \in Workers,
           out' = Silent \/ \E x \in Workers : out' = Disconnect(x)
    PROVE  /\ Delivered(w) \in Seq(DownMsg) /\ Once(Delivered(w), "REQUEST")
           /\ \A m : ~Brought(w, m)
<1>1. Delivered(w) \in {<<>>, <<DisconnectMsg>>}
  <2>1. CASE out' = Silent
    BY <2>1 DEF Delivered, Silent
  <2>2. ASSUME NEW x \in Workers, out' = Disconnect(x)
        PROVE  Delivered(w) \in {<<>>, <<DisconnectMsg>>}
    BY <2>2 DEF Delivered, Disconnect
  <2> QED
    BY <2>1, <2>2
<1>2. PICK d : d = Delivered(w)
  OBVIOUS
<1>3. d \in Seq(DownMsg) /\ \A i \in DOMAIN d : d[i].op = "DISCONNECT"
  <2>1. CASE d = <<>>
    BY <2>1
  <2>2. CASE d = <<DisconnectMsg>>
    <3>1. DisconnectMsg \in DownMsg
      BY DEF DownMsg
    <3>2. DOMAIN d = {1} /\ d[1] = DisconnectMsg
      BY <2>2
    <3> QED
      BY <2>2, <3>1, <3>2 DEF DisconnectMsg
  <2> QED
    BY <1>1, <1>2, <2>1, <2>2
<1>4. Once(d, "REQUEST") /\ \A m : ~Has(d, "REQUEST", m)
  BY <1>3 DEF Once, Has, Holds
<1> QED
  BY <1>2, <1>3, <1>4 DEF Brought

\* service_dispatch sends requests from the front of the queue, each to one worker.
LEMMA DispatchSends ==
    ASSUME TypeOK, NEW n \in Names, NEW r \in ServiceType, NEW replied,
           IsInjective(r.requests), ServiceDispatch(n, r, replied)
    PROVE  TakesFrom(n, r.requests)
<1>1. PICK v \in Kept(r.waiting, Alive') :
        IF Faulty(r, v)
        THEN services' = [services EXCEPT ![n] = r] /\ out' = Silent
        ELSE /\ services' = [services EXCEPT ![n] = Drained(r, v)]
             /\ out' = [kind |-> "request",
                        to |-> [i \in 1 .. Burst(r, v) |-> Recipient(r, v, i)],
                        sent |-> SubSeq(r.requests, 1, Burst(r, v)),
                        replied |-> replied]
  BY DEF ServiceDispatch
<1>2. r.waiting \in Seq(Workers) /\ r.requests \in Seq(Requests)
  BY DEF ServiceType
<1>3. v \in Seq(Workers)
  BY <1>1, <1>2, KeptType
<1>4. CASE Faulty(r, v)
  <2>1. out' = Silent /\ services' = [services EXCEPT ![n] = r]
    BY <1>1, <1>4
  <2>2. /\ \A k \in Names : k # n => services'[k] = services[k]
        /\ services'[n] = r
    BY <2>1 DEF TypeOK
  <2>3. \A w \in Workers : /\ Delivered(w) \in Seq(DownMsg)
                           /\ Once(Delivered(w), "REQUEST")
                           /\ \A m : ~Brought(w, m)
    BY <2>1, NothingBrought
  <2> QED
    BY <1>2, <2>2, <2>3 DEF TakesFrom
<1>5. CASE ~Faulty(r, v)
  <2> PICK d, k, s, q, o, t :
        /\ d = Drained(r, v) /\ k = Burst(r, v) /\ q = r.requests
        /\ s = SubSeq(r.requests, 1, Burst(r, v)) /\ o = out'
        /\ t = [i \in 1 .. Burst(r, v) |-> Recipient(r, v, i)]
    OBVIOUS
  <2>1. /\ d \in ServiceType /\ k \in 0 .. Len(q) /\ q = s \o d.requests
    BY <1>3, DrainedFacts
  <2>2. q \in Seq(Requests) /\ Len(q) \in Nat /\ k \in Nat /\ k <= Len(q)
    BY <1>2, <2>1, LenProperties
  <2>3. s \in Seq(Requests) /\ Len(s) = k /\ s \in [1 .. k -> Requests]
    <3>1. s = SubSeq(q, 1, k)
      OBVIOUS
    <3>2. \A i \in 1 .. k : q[i] \in Requests
      BY <2>2, ElementOfSeq
    <3>3. s \in Seq(Requests) /\ Len(s) = k
      BY <2>2, <3>1, <3>2, SubSeqProperties
    <3> QED
      BY <3>3, LenProperties
  <2>4. t \in [1 .. k -> Workers]
    <3>1. \A i \in 1 .. Burst(r, v) : Recipient(r, v, i) \in Workers
      BY <1>3, RecipientType
    <3> QED
      BY <3>1
  <2>5. o.kind = "request" /\ o.to = t /\ o.sent = s
    BY <1>1, <1>5
  <2>6. services' = [services EXCEPT ![n] = d]
    BY <1>1, <1>5
  <2>7. /\ \A x \in Names : x # n => services'[x] = services[x]
        /\ services'[n] = d
    BY <2>6 DEF TypeOK
  <2>8. d.requests \in Seq(Requests)
    BY <2>1 DEF ServiceType
  <2>9. IsInjective(q)
    OBVIOUS
  <2> PICK b \in Seq(Requests) : b = d.requests
    BY <2>8
  <2>10. IsInjective(s \o b)
    BY <2>1, <2>9
  <2>11. /\ IsInjective(s) /\ IsInjective(b)
         /\ \A m : m \in Range(s) => m \in Range(q) /\ m \notin Range(b)
         /\ \A m : m \in Range(b) => m \in Range(q)
    BY <2>1, <2>3, <2>10, PartsOnce
  <2>12. \A w : Delivered(w) = RequestsFor(w)
    BY <2>5 DEF Delivered
  <2>13. ASSUME NEW w
         PROVE  /\ RequestsFor(w) \in Seq(DownMsg) /\ Once(RequestsFor(w), "REQUEST")
                /\ \A m : Has(RequestsFor(w), "REQUEST", m) =>
                     \E i \in 1 .. k : s[i] = m /\ t[i] = w
    <3>1. o.to \in [1 .. k -> Workers] /\ o.sent \in [1 .. k -> Requests]
          /\ IsInjective(o.sent) /\ o = out'
      BY <2>3, <2>4, <2>5, <2>11
    <3>2. /\ RequestsFor(w) \in Seq(DownMsg) /\ Once(RequestsFor(w), "REQUEST")
          /\ \A m : Has(RequestsFor(w), "REQUEST", m) =>
                     \E i \in 1 .. k : o.sent[i] = m /\ o.to[i] = w
      BY <2>2, <3>1, RequestsForFacts
    <3>3. ASSUME NEW m, Has(RequestsFor(w), "REQUEST", m)
          PROVE  \E i \in 1 .. k : s[i] = m /\ t[i] = w
      <4>1. PICK i \in 1 .. k : o.sent[i] = m /\ o.to[i] = w
        BY <3>2, <3>3
      <4>2. s[i] = m /\ t[i] = w
        BY <2>5, <4>1
      <4> QED
        BY <4>2
    <3> QED
      BY <3>2, <3>3
  <2>14. \A w, m : Brought(w, m) => \E i \in 1 .. k : s[i] = m /\ t[i] = w
    BY <2>12, <2>13 DEF Brought
  <2>15. \A w, m : Brought(w, m) => m \in Range(s)
    BY <2>3, <2>14 DEF Range
  <2>16. \A w, x \in Workers : \A m : Brought(w, m) /\ Brought(x, m) => w = x
    <3> SUFFICES ASSUME NEW w \in Workers, NEW x \in Workers, NEW m,
                        Brought(w, m), Brought(x, m)
                 PROVE  w = x
      OBVIOUS
    <3>1. PICK i \in 1 .. k : s[i] = m /\ t[i] = w
      BY <2>14
    <3>2. PICK j \in 1 .. k : s[j] = m /\ t[j] = x
      BY <2>14
    <3>3. DOMAIN s = 1 .. k
      BY <2>3, Zenon
    <3>4. i = j
      BY <2>11, <3>1, <3>2, <3>3, Zenon DEF IsInjective
    <3> QED
      BY <3>1, <3>2, <3>4, Zenon
  <2> QED
    BY <2>7, <2>8, <2>11, <2>12, <2>13, <2>15, <2>16 DEF TakesFrom
<1> QED
  BY <1>4, <1>5

-----------------------------------------------------------------------------
(* The inductive invariant.                                                *)

\* What the channels and the workers' queues hold.
MdpTypes ==
    /\ up \in [Workers -> Seq(UpMsg)]
    /\ down \in [Workers -> Seq(DownMsg)]
    /\ replyTo \in [Workers -> Clients \cup {NoClient}]
    /\ inbox \in [Workers -> Seq(Requests)]
    /\ pair \in [Workers -> Seq(Requests)]
    /\ handled \in Seq(Requests)
    /\ answered \in Seq([req : Requests, to : Clients])

\* Where a request is: with the broker, on its way, with a worker, or handled.
Waits(n, m) == m \in Range(services[n].requests)
Sent(w, m) == Has(down[w], "REQUEST", m)
Posted(w, m) == m \in Range(inbox[w])
Handled(m) == m \in Range(handled)

\* Where a reply is: with the worker, on its way, or with the broker.
Given(w, m) == m \in Range(pair[w])
Returns(w, m) == Has(up[w], "REPLY", m)
Answered(m) == \E i \in DOMAIN answered : answered[i].req = m

\* A list of requests, or a channel, holds none of them twice.
ListsOnce ==
    /\ \A n \in Names : IsInjective(services[n].requests)
    /\ \A w \in Workers : Once(down[w], "REQUEST") /\ IsInjective(inbox[w])
    /\ IsInjective(handled)

\* A request is in one list only.
OnePlace ==
    \A m \in Requests :
        /\ \A n, k \in Names : Waits(n, m) /\ Waits(k, m) => n = k
        /\ \A w, x \in Workers :
              (Sent(w, m) \/ Posted(w, m)) /\ (Sent(x, m) \/ Posted(x, m)) => w = x
        /\ \A n \in Names, w \in Workers : Waits(n, m) => ~Sent(w, m) /\ ~Posted(w, m)
        /\ \A w \in Workers : Sent(w, m) => ~Posted(w, m)
        /\ Handled(m) => /\ \A n \in Names : ~Waits(n, m)
                         /\ \A w \in Workers : ~Sent(w, m) /\ ~Posted(w, m)

\* No request has a number that was not given out yet.
Numbered ==
    \A m \in Requests :
        \/ m.id <= submitted
        \/ /\ \A n \in Names : ~Waits(n, m)
           /\ \A w \in Workers : ~Sent(w, m) /\ ~Posted(w, m)
           /\ ~Handled(m)

RepliesOnce ==
    /\ \A w \in Workers : IsInjective(pair[w]) /\ Once(up[w], "REPLY")
    /\ \A i, j \in DOMAIN answered : answered[i].req = answered[j].req => i = j

\* A reply is in one place, and its request has been handled.
OneReply ==
    \A m \in Requests :
        /\ \A w, x \in Workers :
              (Given(w, m) \/ Returns(w, m)) /\ (Given(x, m) \/ Returns(x, m)) => w = x
        /\ \A w \in Workers : Given(w, m) => ~Returns(w, m)
        /\ Answered(m) => \A w \in Workers : ~Given(w, m) /\ ~Returns(w, m)
        /\ Answered(m) \/ (\E w \in Workers : Given(w, m) \/ Returns(w, m)) => Handled(m)

\* A worker with something to do knows a client to answer to.
Addressed ==
    \A w \in Workers : inbox[w] # <<>> \/ pair[w] # <<>> => replyTo[w] \in Clients

MdpInv ==
    IInv /\ MdpTypes /\ ListsOnce /\ OnePlace /\ Numbered
    /\ RepliesOnce /\ OneReply /\ Addressed

-----------------------------------------------------------------------------
(* The steps of the broker.                                                *)

\* The request gets its number in this step.
Fresh(m) == submitted < m.id /\ m.id <= submitted'

\* What a step of the broker may do with requests: a queue loses some of them or
\* gets one with a new number, and what is brought to a worker was in a queue,
\* or is new, and is in no queue any more.
BrokerMoves ==
    /\ submitted' \in Nat /\ submitted <= submitted'
    /\ \A n \in Names : /\ services'[n].requests \in Seq(Requests)
                        /\ IsInjective(services'[n].requests)
    /\ \A w \in Workers : /\ Delivered(w) \in Seq(DownMsg)
                          /\ Once(Delivered(w), "REQUEST")
    /\ \A m \in Requests, n \in Names : Waits(n, m)' => Waits(n, m) \/ Fresh(m)
    /\ \A m \in Requests, n, k \in Names : Waits(n, m)' /\ Waits(k, m)' => n = k
    /\ \A m \in Requests, w \in Workers :
         Brought(w, m) => /\ Fresh(m) \/ \E n \in Names : Waits(n, m)
                          /\ \A n \in Names : ~Waits(n, m)'
    /\ \A m \in Requests, w, x \in Workers : Brought(w, m) /\ Brought(x, m) => w = x

\* A step that sends no request and leaves the queues alone.
LEMMA QuietMoves ==
    ASSUME MdpInv, submitted' = submitted,
           \A n \in Names : services'[n].requests = services[n].requests,
           out' = Silent \/ \E x \in Workers : out' = Disconnect(x)
    PROVE  BrokerMoves
<1>1. /\ submitted \in Nat
      /\ \A n \in Names : services[n].requests \in Seq(Requests)
  BY BrokerAssumption DEF MdpInv, IInv, TypeOK, ServiceType
<1>2. \A n \in Names : IsInjective(services[n].requests)
  BY DEF MdpInv, ListsOnce
<1>3. \A w \in Workers : /\ Delivered(w) \in Seq(DownMsg)
                         /\ Once(Delivered(w), "REQUEST")
                         /\ \A m : ~Brought(w, m)
  BY NothingBrought
<1>4. \A n \in Names, m \in Requests : Waits(n, m)' <=> Waits(n, m)
  BY DEF Waits
<1>5. \A m \in Requests, n, k \in Names : Waits(n, m) /\ Waits(k, m) => n = k
  BY DEF MdpInv, OnePlace
<1> QED
  BY <1>1, <1>2, <1>3, <1>4, <1>5 DEF BrokerMoves

\* A step that sends from one queue, after it may have added a new request.
LEMMA TakesMoves ==
    ASSUME MdpInv, NEW n \in Names, NEW q, TakesFrom(n, q),
           \/ q = services[n].requests /\ submitted' = submitted
           \/ \E e \in Requests : /\ q = Append(services[n].requests, e)
                                  /\ e.id = submitted + 1 /\ submitted' = submitted + 1
    PROVE  BrokerMoves
<1>1. /\ submitted \in Nat
      /\ \A k \in Names : services[k].requests \in Seq(Requests)
  BY BrokerAssumption DEF MdpInv, IInv, TypeOK, ServiceType
<1>2. \A k \in Names : IsInjective(services[k].requests)
  BY DEF MdpInv, ListsOnce
<1>3. submitted' \in Nat /\ submitted <= submitted'
  BY <1>1
<1>4. \A m \in Requests : m \in Range(q) => Waits(n, m) \/ Fresh(m)
  <2> TAKE m \in Requests
  <2>1. CASE q = services[n].requests
    BY <2>1 DEF Waits
  <2>2. ASSUME NEW e \in Requests, q = Append(services[n].requests, e),
               e.id = submitted + 1, submitted' = submitted + 1,
               m \in Range(q)
        PROVE  Waits(n, m) \/ Fresh(m)
    <3> PICK s \in Seq(Requests) : s = services[n].requests
      BY <1>1
    <3>1. /\ DOMAIN q = 1 .. Len(s) + 1 /\ DOMAIN s = 1 .. Len(s) /\ Len(s) \in Nat
          /\ \A i \in 1 .. Len(s) : q[i] = s[i]
          /\ q[Len(s) + 1] = e
      BY <2>2, AppendProperties, LenProperties
    <3>2. PICK i \in 1 .. Len(s) + 1 : q[i] = m
      BY <2>2, <3>1 DEF Range
    <3>3. CASE i = Len(s) + 1
      <4>1. m.id = submitted + 1
        BY <2>2, <3>1, <3>2, <3>3
      <4> QED
        BY <1>1, <2>2, <4>1 DEF Fresh
    <3>4. CASE i # Len(s) + 1
      <4>1. i \in 1 .. Len(s)
        BY <3>1, <3>4
      <4>2. m \in Range(s)
        BY <3>1, <3>2, <4>1 DEF Range
      <4> QED
        BY <4>2 DEF Waits
    <3> QED
      BY <3>3, <3>4
  <2> QED
    BY <2>1, <2>2
<1>5. \A m \in Requests, k \in Names : Fresh(m) => ~Waits(k, m)
  <2> SUFFICES ASSUME NEW m \in Requests, NEW k \in Names, Fresh(m)
               PROVE  ~Waits(k, m)
    OBVIOUS
  <2>1. ~(m.id <= submitted)
    BY <1>1 DEF Fresh, Requests
  <2> QED
    BY <2>1 DEF MdpInv, Numbered
<1>6. \A m \in Requests, k, x \in Names : Waits(k, m) /\ Waits(x, m) => k = x
  BY DEF MdpInv, OnePlace
<1>7. \A k \in Names : k # n => \A m \in Requests : Waits(k, m)' <=> Waits(k, m)
  BY DEF TakesFrom, Waits
<1>8. \A m \in Requests : Waits(n, m)' => m \in Range(q)
  BY DEF TakesFrom, Waits
<1>9. \A k \in Names : /\ services'[k].requests \in Seq(Requests)
                       /\ IsInjective(services'[k].requests)
  BY <1>1, <1>2 DEF TakesFrom
<1>10. \A m \in Requests, k \in Names : Waits(k, m)' => Waits(k, m) \/ Fresh(m)
  BY <1>4, <1>7, <1>8
<1>11. \A m \in Requests, k, x \in Names : Waits(k, m)' /\ Waits(x, m)' => k = x
  <2> SUFFICES ASSUME NEW m \in Requests, NEW k \in Names, NEW x \in Names,
                      Waits(k, m)', Waits(x, m)'
               PROVE  k = x
    OBVIOUS
  <2>1. CASE Fresh(m)
    BY <1>5, <1>7, <2>1
  <2>2. CASE ~Fresh(m)
    BY <1>6, <1>10, <2>2
  <2> QED
    BY <2>1, <2>2
<1>12. ASSUME NEW m \in Requests, NEW w \in Workers, Brought(w, m)
       PROVE  /\ Fresh(m) \/ \E k \in Names : Waits(k, m)
              /\ \A k \in Names : ~Waits(k, m)'
  <2>1. m \in Range(q) /\ m \notin Range(services'[n].requests)
    BY <1>12 DEF TakesFrom
  <2>2. Waits(n, m) \/ Fresh(m)
    BY <1>4, <2>1
  <2>3. ~Waits(n, m)'
    BY <2>1 DEF Waits
  <2>4. ASSUME NEW k \in Names, k # n PROVE ~Waits(k, m)'
    BY <1>5, <1>6, <1>7, <2>2, <2>4
  <2> QED
    BY <2>2, <2>3, <2>4
<1>13. /\ \A w \in Workers : /\ Delivered(w) \in Seq(DownMsg)
                             /\ Once(Delivered(w), "REQUEST")
       /\ \A m \in Requests, w, x \in Workers : Brought(w, m) /\ Brought(x, m) => w = x
  BY DEF TakesFrom
<1> QED
  BY <1>3, <1>9, <1>10, <1>11, <1>12, <1>13 DEF BrokerMoves

\* worker_delete leaves the queues alone.
LEMMA DeleteQuiet ==
    ASSUME TypeOK, NEW w \in Workers, NEW message, WorkerDelete(w, message)
    PROVE  /\ out' = message
           /\ \A n \in Names : services'[n].requests = services[n].requests
<1>1. CASE services' = services
  BY <1>1 DEF WorkerDelete
<1>2. CASE services' # services
  <2>1. owner[w] \in Names
    BY <1>2 DEF WorkerDelete, TypeOK
  <2>2. PICK v \in Kept(services[owner[w]].waiting, Workers \ {w}) :
          services' = [services EXCEPT ![owner[w]].waiting = v]
    BY <1>2 DEF WorkerDelete
  <2>3. \A n \in Names : services'[n].requests = services[n].requests
    BY <2>2 DEF TypeOK, ServiceType
  <2> QED
    BY <2>3 DEF WorkerDelete
<1> QED
  BY <1>1, <1>2

\* broker::worker_waiting dispatches from the queue of the worker's service.
LEMMA WaitingMoves ==
    ASSUME MdpInv, submitted' = submitted, NEW w \in Workers, NEW n \in Names,
           NEW r \in ServiceType, r.requests = services[n].requests, NEW replied,
           WorkerWaiting(w, n, r, replied)
    PROVE  BrokerMoves
<1>1. TypeOK /\ IsInjective(services[n].requests)
  BY DEF MdpInv, IInv, ListsOnce
<1>2. PICK j : j = Joined(r, w)
  OBVIOUS
<1>3. j \in ServiceType /\ j.requests = services[n].requests
  BY <1>2, JoinedType
<1>4. ServiceDispatch(n, j, replied)
  BY <1>2 DEF WorkerWaiting
<1>5. TakesFrom(n, j.requests)
  BY <1>1, <1>3, <1>4, DispatchSends
<1> QED
  BY <1>3, <1>5, TakesMoves

\* A failing handler leaves the queues alone.
LEMMA CrashMoves ==
    ASSUME MdpInv, submitted' = submitted, NEW f, Crash(f)
    PROVE  BrokerMoves
BY QuietMoves DEF Crash

\* READY dispatches what its service has queued.
LEMMA ReadyMoves ==
    ASSUME MdpInv, NEW w \in Workers, NEW n \in Names, NEW t, WorkerReady(w, n, t)
    PROVE  BrokerMoves
<1>1. submitted' = submitted /\ TypeOK /\ IInv
  BY DEF WorkerReady, MdpInv, IInv
<1>2. CASE w \in Reserved
  <2>1. WorkerDelete(w, Silent)
    BY <1>2 DEF WorkerReady
  <2> QED
    BY <1>1, <2>1, DeleteQuiet, QuietMoves
<1>3. CASE w \notin Reserved /\ t \notin KnownTypes
  <2>1. Crash("null_service")
    BY <1>3 DEF WorkerReady
  <2> QED
    BY <1>1, <2>1, CrashMoves
<1>4. CASE w \notin Reserved /\ t \in KnownTypes
  <2> PICK r : r = Required(services[n], t)
    OBVIOUS
  <2>1. r \in ServiceType
    BY <1>1, <1>4, RequiredKeeps
  <2>2. r.requests = services[n].requests
    BY <1>1 DEF IInv, AbsentEmpty, Required, NewService, Service
  <2>3. WorkerWaiting(w, n, r, {})
    BY <1>4 DEF WorkerReady
  <2> QED
    BY <1>1, <2>1, <2>2, <2>3, WaitingMoves
<1> QED
  BY <1>2, <1>3, <1>4

\* HEARTBEAT dispatches for the worker's service, or answers DISCONNECT.
LEMMA HeartbeatMoves ==
    ASSUME MdpInv, NEW w \in Workers, WorkerHeartbeat(w)
    PROVE  BrokerMoves
<1>1. submitted' = submitted /\ TypeOK
  BY DEF WorkerHeartbeat, MdpInv, IInv
<1>2. CASE owner[w] = NoService
  <2>1. WorkerDelete(w, Disconnect(w))
    BY <1>2 DEF WorkerHeartbeat
  <2> QED
    BY <1>1, <2>1, DeleteQuiet, QuietMoves
<1>3. CASE owner[w] = Freed
  <2>1. Crash("dangling_service")
    BY <1>3, BrokerAssumption DEF WorkerHeartbeat
  <2> QED
    BY <1>1, <2>1, CrashMoves
<1>4. CASE owner[w] # NoService /\ owner[w] # Freed
  <2>1. owner[w] \in Names /\ services[owner[w]] \in ServiceType
    BY <1>1, <1>4 DEF TypeOK
  <2>2. WorkerWaiting(w, owner[w], services[owner[w]], {})
    BY <1>4 DEF WorkerHeartbeat
  <2> QED
    BY <1>1, <2>1, <2>2, WaitingMoves
<1> QED
  BY <1>2, <1>3, <1>4

\* REPLY answers the client and dispatches the worker's next request.
LEMMA ReplyMoves ==
    ASSUME MdpInv, NEW w \in Workers, NEW c, WorkerReply(w, c)
    PROVE  BrokerMoves
<1>1. submitted' = submitted /\ TypeOK
  BY DEF WorkerReply, MdpInv, IInv
<1>2. CASE owner[w] = NoService
  <2>1. Crash("null_service")
    BY <1>2 DEF WorkerReply
  <2> QED
    BY <1>1, <2>1, CrashMoves
<1>3. CASE owner[w] = Freed
  <2>1. Crash("dangling_service")
    BY <1>3, BrokerAssumption DEF WorkerReply
  <2> QED
    BY <1>1, <2>1, CrashMoves
<1>4. CASE owner[w] # NoService /\ owner[w] # Freed
  <2>1. owner[w] \in Names /\ services[owner[w]] \in ServiceType
    BY <1>1, <1>4 DEF TypeOK
  <2>2. WorkerWaiting(w, owner[w], services[owner[w]], {c})
    BY <1>4 DEF WorkerReply
  <2> QED
    BY <1>1, <2>1, <2>2, WaitingMoves
<1> QED
  BY <1>2, <1>3, <1>4

\* A client's request gets the next number.
LEMMA RequestMoves ==
    ASSUME MdpInv, NEW c \in Clients, NEW n \in Names, ClientRequest(c, n)
    PROVE  BrokerMoves
<1> PICK e, r, q : /\ e = [client |-> c, id |-> submitted + 1]
                   /\ r = Required(services[n], DoNotWait) /\ q = Queued(r, e)
  OBVIOUS
<1>1. /\ IInv /\ TypeOK /\ submitted \in 0 .. MaxRequests
      /\ submitted < MaxRequests /\ MaxRequests \in Nat /\ submitted' = submitted + 1
  BY BrokerAssumption DEF ClientRequest, MdpInv, IInv, TypeOK
<1>2. e \in Requests /\ e.id = submitted + 1
  BY <1>1 DEF Requests
<1>3. r \in ServiceType /\ r.requests = services[n].requests
  <2>1. r \in ServiceType
    BY <1>1, RequiredKeeps DEF KnownTypes
  <2>2. r.requests = services[n].requests
    BY <1>1 DEF IInv, AbsentEmpty, Required, NewService, Service
  <2> QED
    BY <2>1, <2>2
<1>4. q \in ServiceType /\ q.requests = Append(services[n].requests, e)
  BY <1>2, <1>3, QueuedType
<1>5. IsInjective(q.requests)
  <2> PICK s \in Seq(Requests) : s = services[n].requests
    BY <1>3 DEF ServiceType
  <2>1. IsInjective(s)
    BY DEF MdpInv, ListsOnce
  <2>2. e \notin Range(s)
    <3>1. ~(e.id <= submitted)
      BY <1>1, <1>2
    <3>2. ~Waits(n, e)
      BY <1>2, <3>1 DEF MdpInv, Numbered
    <3> QED
      BY <3>2 DEF Waits
  <2>3. IsInjective(Append(s, e))
    BY <1>2, <2>1, <2>2, AppendOnce
  <2> QED
    BY <1>4, <2>3
<1>6. ServiceDispatch(n, q, {})
  BY DEF ClientRequest
<1>7. TakesFrom(n, q.requests)
  BY <1>1, <1>4, <1>5, <1>6, DispatchSends
<1> QED
  BY <1>1, <1>2, <1>4, <1>7, TakesMoves

\* What the broker moves stays in one place.
LEMMA BrokerKeeps ==
    ASSUME MdpInv, BrokerMoves, Deliver, UNCHANGED <<inbox, handled>>
    PROVE  down' \in [Workers -> Seq(DownMsg)] /\ ListsOnce' /\ OnePlace' /\ Numbered'
<1>0. /\ down \in [Workers -> Seq(DownMsg)]
      /\ ListsOnce /\ OnePlace /\ Numbered /\ submitted \in Nat
  BY BrokerAssumption DEF MdpInv, IInv, TypeOK, MdpTypes
<1>1. \A m \in Requests : /\ \A w \in Workers : Posted(w, m)' <=> Posted(w, m)
                          /\ Handled(m)' <=> Handled(m)
  BY DEF Posted, Handled
<1>2. \A m \in Requests, n \in Names : Fresh(m) => ~Waits(n, m)
  <2> SUFFICES ASSUME NEW m \in Requests, NEW n \in Names, Fresh(m)
               PROVE  ~Waits(n, m)
    OBVIOUS
  <2>1. ~(m.id <= submitted)
    BY <1>0 DEF Fresh, Requests
  <2> QED
    BY <1>0, <2>1 DEF Numbered
<1>3. \A m \in Requests : Fresh(m) =>
        (\A w \in Workers : ~Sent(w, m) /\ ~Posted(w, m)) /\ ~Handled(m)
  <2> SUFFICES ASSUME NEW m \in Requests, Fresh(m)
               PROVE  (\A w \in Workers : ~Sent(w, m) /\ ~Posted(w, m)) /\ ~Handled(m)
    OBVIOUS
  <2>1. ~(m.id <= submitted)
    BY <1>0 DEF Fresh, Requests
  <2> QED
    BY <1>0, <2>1 DEF Numbered
\* What is brought was not with any worker and not handled.
<1>4. ASSUME NEW m \in Requests, NEW w \in Workers, Brought(w, m)
      PROVE  (\A x \in Workers : ~Sent(x, m) /\ ~Posted(x, m)) /\ ~Handled(m)
  <2>1. Fresh(m) \/ \E n \in Names : Waits(n, m)
    BY <1>4 DEF BrokerMoves
  <2>2. ASSUME NEW n \in Names, Waits(n, m)
        PROVE  (\A x \in Workers : ~Sent(x, m) /\ ~Posted(x, m)) /\ ~Handled(m)
    BY <1>0, <2>2 DEF OnePlace
  <2> QED
    BY <1>3, <2>1, <2>2
<1>5. ASSUME NEW w \in Workers
      PROVE  /\ down'[w] \in Seq(DownMsg) /\ Once(down'[w], "REQUEST")
             /\ \A m \in Requests : Sent(w, m)' <=> (Sent(w, m) \/ Brought(w, m))
  <2> PICK a, b : a = down[w] /\ b = Delivered(w)
    OBVIOUS
  <2>1. a \in Seq(DownMsg) /\ b \in Seq(DownMsg)
    BY <1>0 DEF BrokerMoves
  <2>2. Once(a, "REQUEST") /\ Once(b, "REQUEST")
    BY <1>0 DEF BrokerMoves, ListsOnce
  <2>3. \A m : Has(b, "REQUEST", m) => m \in Requests
    <3> SUFFICES ASSUME NEW i \in DOMAIN b, b[i].op = "REQUEST"
                 PROVE  b[i].req \in Requests
      BY DEF Has, Holds
    <3>1. b[i] \in DownMsg
      BY <2>1, ElementOfSeq, LenProperties
    <3> QED
      BY <3>1 DEF DownMsg, DisconnectMsg
  <2>4. \A m : ~(Has(a, "REQUEST", m) /\ Has(b, "REQUEST", m))
    BY <1>4, <2>3 DEF Brought, Sent
  <2>5. down'[w] = a \o b
    BY DEF Deliver
  <2>6. /\ a \o b \in Seq(DownMsg) /\ Once(a \o b, "REQUEST")
        /\ \A m : Has(a \o b, "REQUEST", m) <=> (Has(a, "REQUEST", m) \/ Has(b, "REQUEST", m))
    BY <2>1, <2>2, <2>4, ChannelConcat
  <2> QED
    BY <2>5, <2>6 DEF Brought, Sent
<1>6. down' \in [Workers -> Seq(DownMsg)]
  BY <1>5 DEF Deliver
<1>7. ListsOnce'
  BY <1>0, <1>5 DEF ListsOnce, BrokerMoves
<1>8. ASSUME NEW m \in Requests
      PROVE  /\ \A n, k \in Names : Waits(n, m)' /\ Waits(k, m)' => n = k
             /\ \A w \in Workers, x \in Workers :
                  Sent(w, m)' \/ Posted(w, m)' => (Sent(x, m)' \/ Posted(x, m)' => w = x)
             /\ \A n \in Names, w \in Workers : Waits(n, m)' => ~Sent(w, m)' /\ ~Posted(w, m)'
             /\ \A w \in Workers : Sent(w, m)' => ~Posted(w, m)'
             /\ Handled(m)' => /\ \A n \in Names : ~Waits(n, m)'
                               /\ \A w \in Workers : ~Sent(w, m)' /\ ~Posted(w, m)'
  <2>1. \A n, k \in Names : Waits(n, m)' /\ Waits(k, m)' => n = k
    BY DEF BrokerMoves
  <2>2. ASSUME NEW w \in Workers, NEW x \in Workers,
               Sent(w, m)' \/ Posted(w, m)', Sent(x, m)' \/ Posted(x, m)'
        PROVE  w = x
    <3>1. (Sent(w, m) \/ Posted(w, m)) \/ Brought(w, m)
      BY <1>1, <1>5, <2>2
    <3>2. (Sent(x, m) \/ Posted(x, m)) \/ Brought(x, m)
      BY <1>1, <1>5, <2>2
    <3>3. CASE Brought(w, m)
      <4>1. Brought(x, m)
        BY <1>4, <3>2, <3>3
      <4> QED
        BY <3>3, <4>1 DEF BrokerMoves
    <3>4. CASE ~Brought(w, m)
      <4>1. Sent(w, m) \/ Posted(w, m)
        BY <3>1, <3>4
      <4>2. Sent(x, m) \/ Posted(x, m)
        BY <1>4, <3>2, <4>1
      <4> QED
        BY <1>0, <4>1, <4>2 DEF OnePlace
    <3> QED
      BY <3>3, <3>4
  <2>3. ASSUME NEW n \in Names, NEW w \in Workers, Waits(n, m)'
        PROVE  ~Sent(w, m)' /\ ~Posted(w, m)'
    <3>1. ~Brought(w, m)
      BY <2>3 DEF BrokerMoves
    <3>2. Waits(n, m) \/ Fresh(m)
      BY <2>3 DEF BrokerMoves
    <3>3. ~Sent(w, m) /\ ~Posted(w, m)
      BY <1>0, <1>3, <3>2 DEF OnePlace
    <3> QED
      BY <1>1, <1>5, <3>1, <3>3
  <2>4. ASSUME NEW w \in Workers, Sent(w, m)' PROVE ~Posted(w, m)'
    <3>1. Sent(w, m) \/ Brought(w, m)
      BY <1>5, <2>4
    <3>2. ~Posted(w, m)
      BY <1>0, <1>4, <3>1 DEF OnePlace
    <3> QED
      BY <1>1, <3>2
  <2>5. ASSUME Handled(m)', NEW n \in Names PROVE ~Waits(n, m)'
    <3>1. Handled(m)
      BY <1>1, <2>5
    <3>2. ~Waits(n, m) /\ ~Fresh(m)
      BY <1>0, <1>3, <3>1 DEF OnePlace
    <3> QED
      BY <3>2 DEF BrokerMoves
  <2>6. ASSUME Handled(m)', NEW w \in Workers PROVE ~Sent(w, m)' /\ ~Posted(w, m)'
    <3>1. Handled(m)
      BY <1>1, <2>6
    <3>2. ~Sent(w, m) /\ ~Posted(w, m) /\ ~Brought(w, m)
      BY <1>0, <1>4, <3>1 DEF OnePlace
    <3> QED
      BY <1>1, <1>5, <3>2
  <2> QED
    BY <2>1, <2>2, <2>3, <2>4, <2>5, <2>6
<1>9. OnePlace'
  BY <1>8 DEF OnePlace
<1>10. Numbered'
  <2> SUFFICES ASSUME NEW m \in Requests, ~(m.id <= submitted')
               PROVE  /\ \A n \in Names : ~Waits(n, m)'
                      /\ \A w \in Workers : ~Sent(w, m)' /\ ~Posted(w, m)'
                      /\ ~Handled(m)'
    BY DEF Numbered
  <2>1. ~Fresh(m)
    BY DEF Fresh
  <2>2. ~(m.id <= submitted)
    <3>1. submitted' \in Nat /\ submitted <= submitted' /\ m.id \in Nat
      BY BrokerAssumption, <1>0 DEF BrokerMoves, Requests
    <3> QED
      BY <1>0, <3>1
  <2>3. /\ \A n \in Names : ~Waits(n, m)
        /\ \A w \in Workers : ~Sent(w, m) /\ ~Posted(w, m)
        /\ ~Handled(m)
    BY <1>0, <2>2 DEF Numbered
  <2>4. \A n \in Names : ~Waits(n, m)'
    BY <2>1, <2>3 DEF BrokerMoves
  <2>5. \A w \in Workers : ~Brought(w, m)
    BY <2>1, <2>3 DEF BrokerMoves
  <2> QED
    BY <1>1, <1>5, <2>3, <2>4, <2>5
<1> QED
  BY <1>6, <1>7, <1>9, <1>10

-----------------------------------------------------------------------------
(* Requests and replies that only disappear.                               *)

\* Requests that get lost are in no other place than before.
LEMMA PlacesShrink ==
    ASSUME MdpInv, submitted' = submitted,
           \A m \in Requests, n \in Names : Waits(n, m)' => Waits(n, m),
           \A m \in Requests, w \in Workers : Sent(w, m)' => Sent(w, m),
           \A m \in Requests, w \in Workers : Posted(w, m)' => Posted(w, m),
           \A m \in Requests : Handled(m)' => Handled(m)
    PROVE  OnePlace' /\ Numbered'
<1>1. OnePlace /\ Numbered
  BY DEF MdpInv
<1>2. ASSUME NEW m \in Requests
      PROVE  /\ \A n, k \in Names : Waits(n, m)' /\ Waits(k, m)' => n = k
             /\ \A w \in Workers, x \in Workers :
                  (Sent(w, m)' \/ Posted(w, m)') /\ (Sent(x, m)' \/ Posted(x, m)') => w = x
             /\ \A n \in Names, w \in Workers : Waits(n, m)' => ~Sent(w, m)' /\ ~Posted(w, m)'
             /\ \A w \in Workers : Sent(w, m)' => ~Posted(w, m)'
             /\ Handled(m)' => /\ \A n \in Names : ~Waits(n, m)'
                               /\ \A w \in Workers : ~Sent(w, m)' /\ ~Posted(w, m)'
  BY <1>1 DEF OnePlace
<1>3. OnePlace'
  BY <1>2 DEF OnePlace
<1>4. Numbered'
  BY <1>1 DEF Numbered
<1> QED
  BY <1>3, <1>4

\* Replies that get lost are in no other place than before.
LEMMA RepliesShrink ==
    ASSUME MdpInv,
           \A m \in Requests, w \in Workers : Given(w, m)' => Given(w, m),
           \A m \in Requests, w \in Workers : Returns(w, m)' => Returns(w, m),
           \A m \in Requests : Answered(m)' => Answered(m),
           \A m \in Requests : Handled(m) => Handled(m)'
    PROVE  OneReply'
<1>1. OneReply
  BY DEF MdpInv
<1>2. ASSUME NEW m \in Requests
      PROVE  /\ \A w \in Workers, x \in Workers :
                  (Given(w, m)' \/ Returns(w, m)') /\ (Given(x, m)' \/ Returns(x, m)') => w = x
             /\ \A w \in Workers : Given(w, m)' => ~Returns(w, m)'
             /\ Answered(m)' => \A w \in Workers : ~Given(w, m)' /\ ~Returns(w, m)'
             /\ Answered(m)' \/ (\E w \in Workers : Given(w, m)' \/ Returns(w, m)')
                  => Handled(m)'
  BY <1>1 DEF OneReply
<1> QED
  BY <1>2 DEF OneReply

\* A step that touches neither requests nor replies.
LEMMA NothingMoves ==
    ASSUME MdpInv, IInv', UNCHANGED workerVars, submitted' = submitted,
           \A n \in Names : services'[n].requests = services[n].requests
    PROVE  MdpInv'
<1>1. /\ \A m \in Requests, n \in Names : Waits(n, m)' <=> Waits(n, m)
      /\ \A m \in Requests, w \in Workers : Sent(w, m)' <=> Sent(w, m)
      /\ \A m \in Requests, w \in Workers : Posted(w, m)' <=> Posted(w, m)
      /\ \A m \in Requests : Handled(m)' <=> Handled(m)
  BY DEF workerVars, Waits, Sent, Posted, Handled
<1>2. /\ \A m \in Requests, w \in Workers : Given(w, m)' <=> Given(w, m)
      /\ \A m \in Requests, w \in Workers : Returns(w, m)' <=> Returns(w, m)
      /\ \A m \in Requests : Answered(m)' <=> Answered(m)
  BY DEF workerVars, Given, Returns, Answered
<1>3. OnePlace' /\ Numbered'
  BY <1>1, PlacesShrink
<1>4. OneReply'
  BY <1>1, <1>2, RepliesShrink
<1>5. MdpTypes'
  BY DEF MdpInv, MdpTypes, workerVars
<1>6. ListsOnce'
  BY DEF MdpInv, ListsOnce, workerVars
<1>7. RepliesOnce' /\ Addressed'
  BY DEF MdpInv, RepliesOnce, Addressed, workerVars
<1> QED
  BY <1>3, <1>4, <1>5, <1>6, <1>7 DEF MdpInv

-----------------------------------------------------------------------------
(* The steps of the composed system.                                       *)

\* At the start there are only the first READY messages.
LEMMA InitMdpInv == MdpInit => MdpInv
<1> SUFFICES ASSUME MdpInit PROVE MdpInv
  OBVIOUS
<1>1. IInv
  BY InitIInv DEF MdpInit
<1>2. /\ \A n \in Names : services[n].requests = <<>>
      /\ \A w \in Workers : /\ up[w] = <<Ready>> /\ down[w] = <<>>
                            /\ inbox[w] = <<>> /\ pair[w] = <<>>
      /\ handled = <<>> /\ answered = <<>>
  BY DEF MdpInit, Init, NewService, Service
<1>3. IsInjective(<<>>) /\ \A op : Once(<<>>, op)
  BY DEF IsInjective, Once
<1>4. \A m : ~Has(<<>>, "REQUEST", m) /\ m \notin Range(<<>>)
  BY DEF Has, Range
<1>5. \A m : ~Has(<<Ready>>, "REPLY", m) /\ Once(<<Ready>>, "REPLY")
  <2>1. DOMAIN <<Ready>> = {1} /\ <<Ready>>[1].op = "READY"
    BY DEF Ready
  <2> QED
    BY <2>1 DEF Has, Holds, Once
<1>6. MdpTypes
  <2>1. <<Ready>> \in Seq(UpMsg)
    BY DEF UpMsg
  <2>2. <<>> \in Seq(DownMsg) /\ <<>> \in Seq(Requests) /\ <<>> \in Seq([req : Requests, to : Clients])
    OBVIOUS
  <2> QED
    BY <2>1, <2>2 DEF MdpInit, MdpTypes
<1>7. ListsOnce /\ RepliesOnce
  BY <1>2, <1>3, <1>5 DEF ListsOnce, RepliesOnce
<1>8. \A m \in Requests : /\ \A n \in Names : ~Waits(n, m)
                          /\ \A w \in Workers : ~Sent(w, m) /\ ~Posted(w, m)
                          /\ ~Handled(m)
  BY <1>2, <1>4 DEF Waits, Sent, Posted, Handled
<1>9. \A m \in Requests : /\ \A w \in Workers : ~Given(w, m) /\ ~Returns(w, m)
                          /\ ~Answered(m)
  BY <1>2, <1>4, <1>5 DEF Given, Returns, Answered
<1>10. OnePlace /\ Numbered
  BY <1>8 DEF OnePlace, Numbered
<1>11. OneReply /\ Addressed
  BY <1>2, <1>9 DEF OneReply, Addressed
<1> QED
  BY <1>1, <1>6, <1>7, <1>10, <1>11 DEF MdpInv

\* A client's request goes to a queue or to a worker.
LEMMA MdpClient ==
    ASSUME MdpInv, IInv', NEW c \in Clients, NEW n \in Names, ClientSends(c, n)
    PROVE  MdpInv'
<1>1. BrokerMoves
  BY RequestMoves DEF ClientSends
<1>2. Deliver /\ UNCHANGED <<up, replyTo, inbox, pair, handled, answered>>
  BY DEF ClientSends
<1>3. down' \in [Workers -> Seq(DownMsg)] /\ ListsOnce' /\ OnePlace' /\ Numbered'
  BY <1>1, <1>2, BrokerKeeps
<1>4. /\ \A m \in Requests, w \in Workers : Given(w, m)' <=> Given(w, m)
      /\ \A m \in Requests, w \in Workers : Returns(w, m)' <=> Returns(w, m)
      /\ \A m \in Requests : Answered(m)' <=> Answered(m)
      /\ \A m \in Requests : Handled(m)' <=> Handled(m)
  BY <1>2 DEF Given, Returns, Answered, Handled
<1>5. OneReply'
  BY <1>4, RepliesShrink
<1>6. RepliesOnce' /\ Addressed'
  BY <1>2 DEF MdpInv, RepliesOnce, Addressed
<1>7. MdpTypes'
  BY <1>2, <1>3 DEF MdpInv, MdpTypes
<1> QED
  BY <1>3, <1>5, <1>6, <1>7 DEF MdpInv

\* A restarted broker knows no requests, and what it had sent is lost.
LEMMA MdpBrokerRestarts ==
    ASSUME MdpInv, IInv', BrokerRestarts
    PROVE  MdpInv'
<1>1. /\ \A n \in Names : services'[n].requests = <<>>
      /\ \A w \in Workers : down'[w] = <<>>
      /\ submitted' = submitted
      /\ UNCHANGED <<replyTo, inbox, pair, handled, answered>>
  BY DEF BrokerRestarts, Restart, FreshBroker, NewService, Service
<1>2. \A w \in Workers : up'[w] = up[w] \/ up'[w] = <<>>
  BY DEF BrokerRestarts
<1>3. IsInjective(<<>>) /\ \A op : Once(<<>>, op)
  BY DEF IsInjective, Once
<1>4. \A m, op : ~Has(<<>>, op, m) /\ m \notin Range(<<>>)
  BY DEF Has, Range
<1>5. /\ \A m \in Requests, n \in Names : ~Waits(n, m)'
      /\ \A m \in Requests, w \in Workers : ~Sent(w, m)'
      /\ \A m \in Requests, w \in Workers : Posted(w, m)' <=> Posted(w, m)
      /\ \A m \in Requests : Handled(m)' <=> Handled(m)
  BY <1>1, <1>4 DEF Waits, Sent, Posted, Handled
<1>6. /\ \A m \in Requests, w \in Workers : Given(w, m)' <=> Given(w, m)
      /\ \A m \in Requests, w \in Workers : Returns(w, m)' => Returns(w, m)
      /\ \A m \in Requests : Answered(m)' <=> Answered(m)
  BY <1>1, <1>2, <1>4 DEF Given, Returns, Answered
<1>7. OnePlace' /\ Numbered'
  BY <1>1, <1>5, PlacesShrink
<1>8. OneReply'
  BY <1>5, <1>6, RepliesShrink
<1>9. ListsOnce' /\ RepliesOnce' /\ Addressed'
  BY <1>1, <1>2, <1>3 DEF MdpInv, ListsOnce, RepliesOnce, Addressed
<1>10. MdpTypes'
  <2>1. /\ <<>> \in Seq(DownMsg) /\ <<>> \in Seq(UpMsg)
        /\ down' = [w \in Workers |-> <<>>]
        /\ up' \in {up, [w \in Workers |-> <<>>]}
    BY DEF BrokerRestarts
  <2> QED
    BY <1>1, <2>1 DEF MdpInv, MdpTypes
<1> QED
  BY <1>7, <1>8, <1>9, <1>10 DEF MdpInv

\* The list of answers stays without repetition when something new is answered.
LEMMA AnswerOnce ==
    ASSUME NEW S, NEW s \in Seq(S), NEW e \in S,
           \A i, j \in DOMAIN s : s[i].req = s[j].req => i = j,
           \A i \in DOMAIN s : s[i].req # e.req
    PROVE  /\ Append(s, e) \in Seq(S)
           /\ \A i, j \in DOMAIN Append(s, e) :
                Append(s, e)[i].req = Append(s, e)[j].req => i = j
           /\ \A m : (\E i \in DOMAIN Append(s, e) : Append(s, e)[i].req = m) <=>
                     ((\E i \in DOMAIN s : s[i].req = m) \/ e.req = m)
<1>1. /\ Len(s) \in Nat /\ DOMAIN s = 1 .. Len(s)
      /\ Append(s, e) \in Seq(S) /\ DOMAIN Append(s, e) = 1 .. Len(s) + 1
      /\ \A i \in 1 .. Len(s) : Append(s, e)[i] = s[i]
      /\ Append(s, e)[Len(s) + 1] = e
  BY AppendProperties, LenProperties
<1> DEFINE t == Append(s, e)
<1> HIDE DEF t
<1>2. PICK n \in Nat : n = Len(s)
  BY <1>1
<1>3. /\ DOMAIN s = 1 .. n /\ DOMAIN t = 1 .. n + 1 /\ t[n + 1] = e
      /\ \A i \in 1 .. n : t[i] = s[i]
  BY <1>1, <1>2 DEF t
<1>4. \A i \in 1 .. n + 1 : i \in 1 .. n \/ i = n + 1
  BY <1>2
<1>5. \A i \in 1 .. n : i \in 1 .. n + 1 /\ i # n + 1
  BY <1>2
<1>6. \A i, j \in 1 .. n + 1 : t[i].req = t[j].req => i = j
  BY <1>3, <1>4, <1>5
<1>7. \A m : (\E i \in 1 .. n + 1 : t[i].req = m) <=>
             ((\E i \in 1 .. n : s[i].req = m) \/ e.req = m)
  <2>1. n + 1 \in 1 .. n + 1
    BY <1>2
  <2> QED
    BY <1>3, <1>4, <1>5, <2>1
<1> QED
  BY <1>1, <1>3, <1>6, <1>7 DEF t

\* A message from a worker: READY, HEARTBEAT, or a reply, which is forwarded unless
\* the handler fails.
LEMMA MdpTakes ==
    ASSUME MdpInv, IInv', NEW w \in Workers, BrokerTakes(w)
    PROVE  MdpInv'
<1> PICK m : m = Head(up[w])
  OBVIOUS
<1>1. /\ up[w] # <<>> /\ up' = [up EXCEPT ![w] = Tail(@)]
      /\ Deliver /\ UNCHANGED <<replyTo, inbox, pair, handled>>
  BY DEF BrokerTakes
<1>2. \/ \E o \in Offers : o[1] = w /\ WorkerReady(w, o[2], o[3])
      \/ WorkerHeartbeat(w)
      \/ WorkerReply(w, m.to)
  BY DEF BrokerTakes
<1>3. BrokerMoves
  <2>1. ASSUME NEW o \in Offers, WorkerReady(w, o[2], o[3]) PROVE BrokerMoves
    <3>1. o[2] \in Names
      BY BrokerAssumption
    <3> QED
      BY <2>1, <3>1, ReadyMoves
  <2> QED
    BY <1>2, <2>1, HeartbeatMoves, ReplyMoves
<1>4. down' \in [Workers -> Seq(DownMsg)] /\ ListsOnce' /\ OnePlace' /\ Numbered'
  BY <1>1, <1>3, BrokerKeeps
<1>5. /\ up \in [Workers -> Seq(UpMsg)] /\ pair \in [Workers -> Seq(Requests)]
      /\ answered \in Seq([req : Requests, to : Clients])
      /\ RepliesOnce /\ OneReply
  BY DEF MdpInv, MdpTypes
<1>6. /\ up'[w] = Tail(up[w]) /\ \A x \in Workers : x # w => up'[x] = up[x]
      /\ up' = [up EXCEPT ![w] = up'[w]]
  BY <1>1, <1>5
<1>7. /\ up'[w] \in Seq(UpMsg) /\ Once(up'[w], "REPLY") /\ m \in UpMsg
      /\ m.op = "REPLY" => Has(up[w], "REPLY", m.req)
      /\ \A r : Has(up'[w], "REPLY", r) =>
           Has(up[w], "REPLY", r) /\ (m.op = "REPLY" => r # m.req)
  <2>1. up[w] \in Seq(UpMsg) /\ Once(up[w], "REPLY")
    BY <1>5 DEF RepliesOnce
  <2> QED
    BY <1>1, <1>6, <2>1, ChannelTail
<1>8. /\ \A r \in Requests, x \in Workers : Given(x, r)' <=> Given(x, r)
      /\ \A r \in Requests, x \in Workers : Returns(x, r)' => Returns(x, r)
      /\ \A r \in Requests : Handled(r)' <=> Handled(r)
  <2>1. \A x \in Workers : x = w \/ up'[x] = up[x]
    BY <1>6
  <2> QED
    BY <1>1, <1>7, <2>1 DEF Given, Returns, Handled
<1>9. Addressed'
  BY <1>1 DEF MdpInv, Addressed
<1>10. \A x \in Workers : IsInjective(pair'[x]) /\ Once(up'[x], "REPLY")
  <2>1. \A x \in Workers : x = w \/ up'[x] = up[x]
    BY <1>6
  <2> QED
    BY <1>1, <1>5, <1>7, <2>1 DEF RepliesOnce
<1>11. /\ up' \in [Workers -> Seq(UpMsg)] /\ replyTo' \in [Workers -> Clients \cup {NoClient}]
       /\ inbox' \in [Workers -> Seq(Requests)] /\ pair' \in [Workers -> Seq(Requests)]
       /\ handled' \in Seq(Requests)
  <2>1. up' \in [Workers -> Seq(UpMsg)]
    BY <1>5, <1>6, <1>7
  <2> QED
    BY <1>1, <2>1 DEF MdpInv, MdpTypes
<1>12. CASE answered' = answered
  <2>1. \A r \in Requests : Answered(r)' <=> Answered(r)
    BY <1>12 DEF Answered
  <2>2. OneReply'
    BY <1>8, <2>1, RepliesShrink
  <2>3. RepliesOnce' /\ MdpTypes'
    BY <1>4, <1>5, <1>10, <1>11, <1>12 DEF RepliesOnce, MdpTypes
  <2> QED
    BY <1>4, <1>9, <2>2, <2>3 DEF MdpInv
<1>13. CASE m.op = "REPLY" /\ answered' = Append(answered, [req |-> m.req, to |-> m.to])
  <2> PICK e, q : e = [req |-> m.req, to |-> m.to] /\ q = m.req
    OBVIOUS
  <2>1. m \in [op : {"REPLY"}, req : Requests, to : Clients]
    BY <1>7, <1>13 DEF UpMsg, Ready, Heartbeat
  <2>2. e \in [req : Requests, to : Clients] /\ e.req = q /\ q \in Requests
    BY <2>1
  <2>3. Returns(w, q)
    BY <1>7, <1>13 DEF Returns
  <2>4. /\ ~Answered(q) /\ ~Given(w, q) /\ Handled(q)
        /\ \A x \in Workers : Given(x, q) \/ Returns(x, q) => x = w
    BY <1>5, <2>2, <2>3 DEF OneReply
  <2>5. ~Returns(w, q)'
    BY <1>7, <1>13 DEF Returns
  <2>6. /\ answered' \in Seq([req : Requests, to : Clients])
        /\ \A i, j \in DOMAIN answered' : answered'[i].req = answered'[j].req => i = j
        /\ \A r : (\E i \in DOMAIN answered' : answered'[i].req = r) <=>
                  ((\E i \in DOMAIN answered : answered[i].req = r) \/ e.req = r)
    <3>1. \A i \in DOMAIN answered : answered[i].req # e.req
      BY <2>2, <2>4 DEF Answered
    <3>2. \A i, j \in DOMAIN answered : answered[i].req = answered[j].req => i = j
      BY <1>5 DEF RepliesOnce
    <3>3. PICK s, S : s = answered /\ S = [req : Requests, to : Clients]
      OBVIOUS
    <3>4. /\ s \in Seq(S) /\ e \in S
          /\ \A i \in DOMAIN s : s[i].req # e.req
          /\ \A i, j \in DOMAIN s : s[i].req = s[j].req => i = j
      BY <1>5, <2>2, <3>1, <3>2, <3>3
    <3>5. PICK t : t = Append(s, e)
      OBVIOUS
    <3>6. /\ t \in Seq(S)
          /\ \A i, j \in DOMAIN t : t[i].req = t[j].req => i = j
          /\ \A r : (\E i \in DOMAIN t : t[i].req = r) <=>
                    ((\E i \in DOMAIN s : s[i].req = r) \/ e.req = r)
      BY <3>4, <3>5, AnswerOnce
    <3>7. answered' = t
      BY <1>13, <3>3, <3>5
    <3> QED
      BY <3>3, <3>6, <3>7
  <2>7. \A r \in Requests : Answered(r)' <=> (Answered(r) \/ r = q)
    BY <2>2, <2>6 DEF Answered
  <2>8. ASSUME NEW r \in Requests
        PROVE  /\ \A y \in Workers, x \in Workers :
                    (Given(y, r)' \/ Returns(y, r)') /\ (Given(x, r)' \/ Returns(x, r)') => y = x
               /\ \A y \in Workers : Given(y, r)' => ~Returns(y, r)'
               /\ Answered(r)' => \A y \in Workers : ~Given(y, r)' /\ ~Returns(y, r)'
               /\ Answered(r)' \/ (\E y \in Workers : Given(y, r)' \/ Returns(y, r)')
                    => Handled(r)'
    <3>1. CASE r = q
      BY <1>8, <2>2, <2>4, <2>5, <3>1
    <3>2. CASE r # q
      <4>1. Answered(r)' <=> Answered(r)
        BY <2>7, <3>2
      <4> QED
        BY <1>5, <1>8, <4>1 DEF OneReply
    <3> QED
      BY <3>1, <3>2
  <2>9. OneReply'
    BY <2>8 DEF OneReply
  <2>10. RepliesOnce' /\ MdpTypes'
    BY <1>4, <1>10, <1>11, <2>6 DEF RepliesOnce, MdpTypes
  <2> QED
    BY <1>4, <1>9, <2>9, <2>10 DEF MdpInv
<1>14. \/ answered' = answered
       \/ m.op = "REPLY" /\ answered' = Append(answered, [req |-> m.req, to |-> m.to])
  BY DEF BrokerTakes
<1> QED
  BY <1>12, <1>13, <1>14

\* A new connection: what was on its way may be lost.
LEMMA Reconnected ==
    ASSUME MdpInv, NEW w \in Workers, Reconnect(w)
    PROVE  /\ up' \in [Workers -> Seq(UpMsg)] /\ down' \in [Workers -> Seq(DownMsg)]
           /\ \A x \in Workers : Once(up'[x], "REPLY") /\ Once(down'[x], "REQUEST")
           /\ \A m \in Requests, x \in Workers : Sent(x, m)' => Sent(x, m)
           /\ \A m \in Requests, x \in Workers : Returns(x, m)' => Returns(x, m)
<1>1. /\ up \in [Workers -> Seq(UpMsg)] /\ down \in [Workers -> Seq(DownMsg)]
      /\ \A x \in Workers : Once(up[x], "REPLY") /\ Once(down[x], "REQUEST")
  BY DEF MdpInv, MdpTypes, RepliesOnce, ListsOnce
<1>2. PICK k \in 0 .. Len(up[w]) :
        up' = [up EXCEPT ![w] = Append(SubSeq(@, 1, k), Ready)]
  BY DEF Reconnect
<1> PICK s, p, q : s = up[w] /\ p = SubSeq(up[w], 1, k) /\ q = Append(p, Ready)
  OBVIOUS
<1>3. s \in Seq(UpMsg) /\ Once(s, "REPLY") /\ Ready \in UpMsg
  BY <1>1 DEF UpMsg
<1>4. /\ p \in Seq(UpMsg) /\ Once(p, "REPLY")
      /\ \A m : Has(p, "REPLY", m) => Has(s, "REPLY", m)
  BY <1>3, ChannelPrefix
<1>5. Ready.op # "REPLY"
  BY DEF Ready
<1>6. /\ q \in Seq(UpMsg) /\ Once(q, "REPLY")
      /\ \A m : Has(q, "REPLY", m) => Has(p, "REPLY", m)
  BY <1>3, <1>4, <1>5, ChannelAppend
<1>7. /\ up' = [up EXCEPT ![w] = q]
      /\ down' = [down EXCEPT ![w] = <<>>]
  BY <1>2 DEF Reconnect
<1>8. up'[w] = q /\ down'[w] = <<>> /\
      \A x \in Workers : x # w => up'[x] = up[x] /\ down'[x] = down[x]
  BY <1>1, <1>7
<1>9. Once(<<>>, "REQUEST") /\ \A m : ~Has(<<>>, "REQUEST", m)
  BY DEF Once, Has
<1>10. /\ up' \in [Workers -> Seq(UpMsg)] /\ down' \in [Workers -> Seq(DownMsg)]
  BY <1>1, <1>6, <1>7
<1>11. ASSUME NEW x \in Workers
       PROVE  /\ Once(up'[x], "REPLY") /\ Once(down'[x], "REQUEST")
              /\ \A m \in Requests : Sent(x, m)' => Sent(x, m)
              /\ \A m \in Requests : Returns(x, m)' => Returns(x, m)
  <2>1. CASE x = w
    BY <1>4, <1>6, <1>8, <1>9, <2>1 DEF Sent, Returns
  <2>2. CASE x # w
    BY <1>1, <1>8, <2>2 DEF Sent, Returns
  <2> QED
    BY <2>1, <2>2
<1> QED
  BY <1>10, <1>11

\* DISCONNECT or a timeout: the worker connects again.
LEMMA MdpReconnects ==
    ASSUME MdpInv, IInv', NEW w \in Workers, Reconnect(w),
           UNCHANGED <<replyTo, inbox, pair, handled, answered, vars>>
    PROVE  MdpInv'
<1>1. /\ up' \in [Workers -> Seq(UpMsg)] /\ down' \in [Workers -> Seq(DownMsg)]
      /\ \A x \in Workers : Once(up'[x], "REPLY") /\ Once(down'[x], "REQUEST")
      /\ \A m \in Requests, x \in Workers : Sent(x, m)' => Sent(x, m)
      /\ \A m \in Requests, x \in Workers : Returns(x, m)' => Returns(x, m)
  BY Reconnected
<1>2. services' = services /\ submitted' = submitted
  BY DEF vars, history
<1>3. /\ \A m \in Requests, n \in Names : Waits(n, m)' => Waits(n, m)
      /\ \A m \in Requests, x \in Workers : Posted(x, m)' => Posted(x, m)
      /\ \A m \in Requests, x \in Workers : Given(x, m)' => Given(x, m)
      /\ \A m \in Requests : Handled(m)' <=> Handled(m)
      /\ \A m \in Requests : Answered(m)' => Answered(m)
  BY <1>2 DEF Waits, Posted, Given, Handled, Answered
<1>4. OnePlace' /\ Numbered'
  BY <1>1, <1>2, <1>3, PlacesShrink
<1>5. OneReply'
  BY <1>1, <1>3, RepliesShrink
<1>6. ListsOnce' /\ RepliesOnce' /\ Addressed'
  BY <1>1, <1>2 DEF MdpInv, ListsOnce, RepliesOnce, Addressed
<1>7. MdpTypes'
  BY <1>1 DEF MdpInv, MdpTypes
<1> QED
  BY <1>4, <1>5, <1>6, <1>7 DEF MdpInv

\* A worker process that is restarted forgets its queues.
LEMMA MdpWorkerRestart ==
    ASSUME MdpInv, IInv', NEW w \in Workers, WorkerRestart(w)
    PROVE  MdpInv'
<1>1. /\ up' \in [Workers -> Seq(UpMsg)] /\ down' \in [Workers -> Seq(DownMsg)]
      /\ \A x \in Workers : Once(up'[x], "REPLY") /\ Once(down'[x], "REQUEST")
      /\ \A m \in Requests, x \in Workers : Sent(x, m)' => Sent(x, m)
      /\ \A m \in Requests, x \in Workers : Returns(x, m)' => Returns(x, m)
  BY Reconnected DEF WorkerRestart
<1>2. services' = services /\ submitted' = submitted
      /\ handled' = handled /\ answered' = answered
  BY DEF WorkerRestart, vars, history
<1>3. MdpTypes
  BY DEF MdpInv
<1>4. /\ inbox'[w] = <<>> /\ pair'[w] = <<>>
      /\ \A x \in Workers : x # w => /\ inbox'[x] = inbox[x] /\ pair'[x] = pair[x]
                                     /\ replyTo'[x] = replyTo[x]
  BY <1>3 DEF WorkerRestart, MdpTypes
<1>5. IsInjective(<<>>) /\ \A m : m \notin Range(<<>>)
  BY DEF IsInjective, Range
<1>6. ASSUME NEW x \in Workers
      PROVE  /\ IsInjective(inbox'[x]) /\ IsInjective(pair'[x])
             /\ \A m \in Requests : Posted(x, m)' => Posted(x, m)
             /\ \A m \in Requests : Given(x, m)' => Given(x, m)
  <2>1. CASE x = w
    BY <1>4, <1>5, <2>1 DEF Posted, Given
  <2>2. CASE x # w
    BY <1>4, <2>2 DEF Posted, Given, MdpInv, ListsOnce, RepliesOnce
  <2> QED
    BY <2>1, <2>2
<1>7. /\ \A m \in Requests, n \in Names : Waits(n, m)' => Waits(n, m)
      /\ \A m \in Requests : Handled(m)' <=> Handled(m)
      /\ \A m \in Requests : Answered(m)' => Answered(m)
  BY <1>2 DEF Waits, Handled, Answered
<1>8. OnePlace' /\ Numbered'
  BY <1>1, <1>2, <1>6, <1>7, PlacesShrink
<1>9. OneReply'
  BY <1>1, <1>6, <1>7, RepliesShrink
<1>10. ListsOnce' /\ RepliesOnce'
  BY <1>1, <1>2, <1>6 DEF MdpInv, ListsOnce, RepliesOnce
<1>11. Addressed'
  BY <1>4 DEF MdpInv, Addressed
<1>12. MdpTypes'
  <2>1. <<>> \in Seq(Requests)
    OBVIOUS
  <2> QED
    BY <1>1, <1>2, <1>3, <2>1 DEF WorkerRestart, MdpTypes
<1> QED
  BY <1>8, <1>9, <1>10, <1>11, <1>12 DEF MdpInv

\* A REQUEST is posted to the main thread.
LEMMA MdpRequest ==
    ASSUME MdpInv, IInv', NEW w \in Workers, WorkerRequest(w)
    PROVE  MdpInv'
<1>1. MdpTypes /\ ListsOnce /\ OnePlace /\ Numbered
  BY DEF MdpInv
<1>2. /\ services' = services /\ submitted' = submitted
      /\ UNCHANGED <<up, pair, handled, answered>>
      /\ down[w] # <<>> /\ Head(down[w]).op = "REQUEST"
  BY DEF WorkerRequest, vars, history
<1> PICK h, q, s, b : /\ h = Head(down[w]) /\ q = Head(down[w]).req
                      /\ s = down[w] /\ b = inbox[w]
  OBVIOUS
<1>3. /\ s \in Seq(DownMsg) /\ s # <<>> /\ Once(s, "REQUEST") /\ h = Head(s)
      /\ b \in Seq(Requests) /\ IsInjective(b)
  BY <1>1, <1>2 DEF MdpTypes, ListsOnce
<1>4. /\ Tail(s) \in Seq(DownMsg) /\ Once(Tail(s), "REQUEST") /\ h \in DownMsg
      /\ Has(s, "REQUEST", q)
      /\ \A m : Has(Tail(s), "REQUEST", m) => Has(s, "REQUEST", m) /\ m # q
  BY <1>2, <1>3, ChannelTail
<1>5. q \in Requests
  BY <1>2, <1>4 DEF DownMsg, DisconnectMsg
<1>6. Sent(w, q)
  BY <1>4 DEF Sent
<1>7. /\ ~Handled(q) /\ \A n \in Names : ~Waits(n, q)
      /\ \A x \in Workers : ~Posted(x, q) /\ (Sent(x, q) => x = w)
  <2>1. ASSUME NEW x \in Workers, Posted(x, q) PROVE FALSE
    <3>1. x = w
      BY <1>1, <1>5, <1>6, <2>1 DEF OnePlace
    <3> QED
      BY <1>1, <1>5, <1>6, <2>1, <3>1 DEF OnePlace
  <2> QED
    BY <1>1, <1>5, <1>6, <2>1 DEF OnePlace
<1>8. /\ Append(b, q) \in Seq(Requests) /\ IsInjective(Append(b, q))
      /\ \A m : m \in Range(Append(b, q)) <=> (m \in Range(b) \/ m = q)
  <2>1. q \notin Range(b)
    BY <1>7 DEF Posted
  <2> QED
    BY <1>3, <1>5, <2>1, AppendOnce
<1>9. /\ down' = [down EXCEPT ![w] = Tail(s)]
      /\ inbox' = [inbox EXCEPT ![w] = Append(b, q)]
      /\ replyTo' = [replyTo EXCEPT ![w] = q.client]
  BY DEF WorkerRequest
<1>10. /\ down'[w] = Tail(s) /\ inbox'[w] = Append(b, q) /\ replyTo'[w] = q.client
       /\ \A x \in Workers : x # w => /\ down'[x] = down[x] /\ inbox'[x] = inbox[x]
                                      /\ replyTo'[x] = replyTo[x]
  BY <1>1, <1>9 DEF MdpTypes
<1>11. q.client \in Clients
  BY <1>5 DEF Requests
<1>12. MdpTypes'
  BY <1>1, <1>2, <1>4, <1>8, <1>9, <1>11 DEF MdpTypes
<1>13. ListsOnce'
  BY <1>1, <1>2, <1>4, <1>8, <1>10 DEF ListsOnce
<1>14. Addressed'
  BY <1>2, <1>10, <1>11 DEF MdpInv, Addressed
<1>15. /\ \A m \in Requests, n \in Names : Waits(n, m)' <=> Waits(n, m)
       /\ \A m \in Requests : Handled(m)' <=> Handled(m)
       /\ \A m \in Requests, x \in Workers : Given(x, m)' <=> Given(x, m)
       /\ \A m \in Requests, x \in Workers : Returns(x, m)' <=> Returns(x, m)
       /\ \A m \in Requests : Answered(m)' <=> Answered(m)
  BY <1>2 DEF Waits, Handled, Given, Returns, Answered
<1>16. /\ \A m \in Requests, x \in Workers : Sent(x, m)' => Sent(x, m) /\ m # q
       /\ \A m \in Requests, x \in Workers :
            Posted(x, m)' => Posted(x, m) \/ (m = q /\ x = w)
  <2> SUFFICES ASSUME NEW m \in Requests, NEW x \in Workers
               PROVE  /\ Sent(x, m)' => Sent(x, m) /\ m # q
                      /\ Posted(x, m)' => Posted(x, m) \/ (m = q /\ x = w)
    OBVIOUS
  <2>1. CASE x = w
    BY <1>4, <1>8, <1>10, <2>1 DEF Sent, Posted
  <2>2. CASE x # w
    <3>1. Sent(x, m)' => Sent(x, m)
      BY <1>10, <2>2 DEF Sent
    <3> QED
      BY <1>7, <1>10, <2>2, <3>1 DEF Posted
  <2> QED
    BY <2>1, <2>2
<1>17. ASSUME NEW m \in Requests
       PROVE  /\ \A n, k \in Names : Waits(n, m)' /\ Waits(k, m)' => n = k
              /\ \A y \in Workers, x \in Workers :
                  (Sent(y, m)' \/ Posted(y, m)') /\ (Sent(x, m)' \/ Posted(x, m)') => y = x
              /\ \A n \in Names, y \in Workers : Waits(n, m)' => ~Sent(y, m)' /\ ~Posted(y, m)'
              /\ \A y \in Workers : Sent(y, m)' => ~Posted(y, m)'
              /\ Handled(m)' => /\ \A n \in Names : ~Waits(n, m)'
                                /\ \A y \in Workers : ~Sent(y, m)' /\ ~Posted(y, m)'
  <2>1. CASE m = q
    <3>1. \A y \in Workers : ~Sent(y, m)' /\ (Posted(y, m)' => y = w)
      BY <1>7, <1>16, <2>1
    <3>2. ~Handled(m)' /\ \A n \in Names : ~Waits(n, m)'
      BY <1>7, <1>15, <2>1
    <3> QED
      BY <3>1, <3>2
  <2>2. CASE m # q
    <3>1. \A y \in Workers : (Sent(y, m)' => Sent(y, m)) /\ (Posted(y, m)' => Posted(y, m))
      BY <1>16, <2>2
    <3> QED
      BY <1>1, <1>15, <3>1 DEF OnePlace
  <2> QED
    BY <2>1, <2>2
<1>18. OnePlace'
  BY <1>17 DEF OnePlace
<1>19. Numbered'
  <2> SUFFICES ASSUME NEW m \in Requests, ~(m.id <= submitted')
               PROVE  /\ \A n \in Names : ~Waits(n, m)'
                      /\ \A x \in Workers : ~Sent(x, m)' /\ ~Posted(x, m)'
                      /\ ~Handled(m)'
    BY DEF Numbered
  <2>1. /\ \A n \in Names : ~Waits(n, m)
        /\ \A x \in Workers : ~Sent(x, m) /\ ~Posted(x, m)
        /\ ~Handled(m)
    BY <1>1, <1>2 DEF Numbered
  <2>2. m # q
    BY <1>6, <2>1
  <2> QED
    BY <1>15, <1>16, <2>1, <2>2
<1>20. OneReply'
  BY <1>15, RepliesShrink
<1>21. RepliesOnce'
  BY <1>2 DEF MdpInv, RepliesOnce
<1> QED
  BY <1>12, <1>13, <1>14, <1>18, <1>19, <1>20, <1>21 DEF MdpInv

\* The main thread handles a request, and may give a reply to it.
LEMMA MdpProcess ==
    ASSUME MdpInv, IInv', NEW w \in Workers, WorkerProcess(w)
    PROVE  MdpInv'
<1>1. MdpTypes /\ ListsOnce /\ OnePlace /\ Numbered /\ RepliesOnce /\ OneReply
  BY DEF MdpInv
<1>2. /\ services' = services /\ submitted' = submitted
      /\ UNCHANGED <<up, down, replyTo, answered>>
      /\ inbox[w] # <<>>
  BY DEF WorkerProcess, vars, history
<1> PICK q, s, b : q = Head(inbox[w]) /\ s = inbox[w] /\ b = pair[w]
  OBVIOUS
<1>3. s \in Seq(Requests) /\ s # <<>> /\ IsInjective(s) /\ q = Head(s)
  BY <1>1, <1>2 DEF MdpTypes, ListsOnce
<1>4. /\ Tail(s) \in Seq(Requests) /\ IsInjective(Tail(s))
      /\ q \in Range(s) /\ q \in Requests
      /\ \A m : m \in Range(Tail(s)) => m \in Range(s) /\ m # q
  BY <1>3, TailOnce
<1>5. Posted(w, q)
  BY <1>4 DEF Posted
<1>6. /\ ~Handled(q) /\ \A n \in Names : ~Waits(n, q)
      /\ \A x \in Workers : ~Sent(x, q) /\ (Posted(x, q) => x = w)
  <2>1. ASSUME NEW x \in Workers, Sent(x, q) PROVE FALSE
    <3>1. x = w
      BY <1>1, <1>4, <1>5, <2>1 DEF OnePlace
    <3> QED
      BY <1>1, <1>4, <1>5, <2>1, <3>1 DEF OnePlace
  <2> QED
    BY <1>1, <1>4, <1>5, <2>1 DEF OnePlace
\* No reply to it has been given before.
<1>7. ~Answered(q) /\ \A x \in Workers : ~Given(x, q) /\ ~Returns(x, q)
  BY <1>1, <1>4, <1>6 DEF OneReply
<1>8. /\ inbox' = [inbox EXCEPT ![w] = Tail(s)]
      /\ handled' = Append(handled, q)
      /\ pair' = pair \/ pair' = [pair EXCEPT ![w] = Append(b, q)]
  BY DEF WorkerProcess
<1>9. /\ handled' \in Seq(Requests) /\ IsInjective(handled')
      /\ \A m \in Requests : Handled(m)' <=> (Handled(m) \/ m = q)
  <2> PICK h : h = handled
    OBVIOUS
  <2>1. h \in Seq(Requests) /\ IsInjective(h) /\ q \notin Range(h)
    BY <1>1, <1>6 DEF MdpTypes, ListsOnce, Handled
  <2>2. /\ Append(h, q) \in Seq(Requests) /\ IsInjective(Append(h, q))
        /\ \A m : m \in Range(Append(h, q)) <=> (m \in Range(h) \/ m = q)
    BY <1>4, <2>1, AppendOnce
  <2> QED
    BY <1>8, <2>2 DEF Handled
<1>10. /\ inbox'[w] = Tail(s) /\ \A x \in Workers : x # w => inbox'[x] = inbox[x]
       /\ inbox' \in [Workers -> Seq(Requests)]
  BY <1>1, <1>4, <1>8 DEF MdpTypes
<1>11. /\ Append(b, q) \in Seq(Requests) /\ IsInjective(Append(b, q))
       /\ \A m : m \in Range(Append(b, q)) <=> (m \in Range(b) \/ m = q)
  <2>1. b \in Seq(Requests) /\ IsInjective(b) /\ q \notin Range(b)
    BY <1>1, <1>7 DEF MdpTypes, RepliesOnce, Given
  <2> QED
    BY <1>4, <2>1, AppendOnce
<1>12. /\ pair' \in [Workers -> Seq(Requests)]
       /\ \A x \in Workers : x # w => pair'[x] = pair[x]
       /\ pair'[w] = b \/ pair'[w] = Append(b, q)
  <2>1. CASE pair' = pair
    BY <1>1, <2>1 DEF MdpTypes
  <2>2. CASE pair' = [pair EXCEPT ![w] = Append(b, q)]
    BY <1>1, <1>11, <2>2 DEF MdpTypes
  <2> QED
    BY <1>8, <2>1, <2>2
<1>13. \A x \in Workers : IsInjective(pair'[x])
  BY <1>1, <1>11, <1>12 DEF RepliesOnce
<1>14. MdpTypes'
  BY <1>1, <1>2, <1>9, <1>10, <1>12 DEF MdpTypes
<1>15. ListsOnce'
  BY <1>1, <1>2, <1>4, <1>9, <1>10 DEF ListsOnce
<1>16. RepliesOnce'
  BY <1>1, <1>2, <1>13 DEF RepliesOnce
<1>17. Addressed'
  <2> SUFFICES ASSUME NEW x \in Workers, inbox'[x] # <<>> \/ pair'[x] # <<>>
               PROVE  replyTo'[x] \in Clients
    BY DEF Addressed
  <2>1. CASE x = w
    BY <1>2, <2>1 DEF MdpInv, Addressed
  <2>2. CASE x # w
    BY <1>2, <1>10, <1>12, <2>2 DEF MdpInv, Addressed
  <2> QED
    BY <2>1, <2>2
<1>18. /\ \A m \in Requests, n \in Names : Waits(n, m)' <=> Waits(n, m)
       /\ \A m \in Requests, x \in Workers : Sent(x, m)' <=> Sent(x, m)
       /\ \A m \in Requests, x \in Workers : Returns(x, m)' <=> Returns(x, m)
       /\ \A m \in Requests : Answered(m)' <=> Answered(m)
  BY <1>2 DEF Waits, Sent, Returns, Answered
<1>19. \A m \in Requests, x \in Workers : Posted(x, m)' => Posted(x, m) /\ m # q
  <2> SUFFICES ASSUME NEW m \in Requests, NEW x \in Workers, Posted(x, m)'
               PROVE  Posted(x, m) /\ m # q
    OBVIOUS
  <2>1. CASE x = w
    BY <1>4, <1>10, <2>1 DEF Posted
  <2>2. CASE x # w
    <3>1. Posted(x, m)
      BY <1>10, <2>2 DEF Posted
    <3> QED
      BY <1>6, <2>2, <3>1
  <2> QED
    BY <2>1, <2>2
<1>20. \A m \in Requests, x \in Workers :
         Given(x, m)' => Given(x, m) \/ (m = q /\ x = w)
  <2> SUFFICES ASSUME NEW m \in Requests, NEW x \in Workers, Given(x, m)'
               PROVE  Given(x, m) \/ (m = q /\ x = w)
    OBVIOUS
  <2>1. CASE x = w
    BY <1>11, <1>12, <2>1 DEF Given
  <2>2. CASE x # w
    BY <1>12, <2>2 DEF Given
  <2> QED
    BY <2>1, <2>2
<1>21. ASSUME NEW m \in Requests
       PROVE  /\ \A n, k \in Names : Waits(n, m)' /\ Waits(k, m)' => n = k
              /\ \A y \in Workers, x \in Workers :
                  (Sent(y, m)' \/ Posted(y, m)') /\ (Sent(x, m)' \/ Posted(x, m)') => y = x
              /\ \A n \in Names, y \in Workers : Waits(n, m)' => ~Sent(y, m)' /\ ~Posted(y, m)'
              /\ \A y \in Workers : Sent(y, m)' => ~Posted(y, m)'
              /\ Handled(m)' => /\ \A n \in Names : ~Waits(n, m)'
                                /\ \A y \in Workers : ~Sent(y, m)' /\ ~Posted(y, m)'
  <2>1. CASE m = q
    <3>1. /\ \A y \in Workers : ~Sent(y, m)' /\ ~Posted(y, m)'
          /\ \A n \in Names : ~Waits(n, m)'
      BY <1>6, <1>18, <1>19, <2>1
    <3> QED
      BY <3>1
  <2>2. CASE m # q
    <3>1. /\ \A y \in Workers : Posted(y, m)' => Posted(y, m)
          /\ Handled(m)' <=> Handled(m)
      BY <1>9, <1>19, <2>2
    <3> QED
      BY <1>1, <1>18, <3>1 DEF OnePlace
  <2> QED
    BY <2>1, <2>2
<1>22. OnePlace'
  BY <1>21 DEF OnePlace
<1>23. Numbered'
  <2> SUFFICES ASSUME NEW m \in Requests, ~(m.id <= submitted')
               PROVE  /\ \A n \in Names : ~Waits(n, m)'
                      /\ \A x \in Workers : ~Sent(x, m)' /\ ~Posted(x, m)'
                      /\ ~Handled(m)'
    BY DEF Numbered
  <2>1. /\ \A n \in Names : ~Waits(n, m)
        /\ \A x \in Workers : ~Sent(x, m) /\ ~Posted(x, m)
        /\ ~Handled(m)
    BY <1>1, <1>2 DEF Numbered
  <2>2. m # q
    BY <1>5, <2>1
  <2> QED
    BY <1>9, <1>18, <1>19, <2>1, <2>2
<1>24. ASSUME NEW m \in Requests
       PROVE  /\ \A y \in Workers, x \in Workers :
                   (Given(y, m)' \/ Returns(y, m)') /\ (Given(x, m)' \/ Returns(x, m)') => y = x
              /\ \A y \in Workers : Given(y, m)' => ~Returns(y, m)'
              /\ Answered(m)' => \A y \in Workers : ~Given(y, m)' /\ ~Returns(y, m)'
              /\ Answered(m)' \/ (\E y \in Workers : Given(y, m)' \/ Returns(y, m)')
                   => Handled(m)'
  <2>1. CASE m = q
    <3>1. /\ \A y \in Workers : ~Returns(y, m)' /\ (Given(y, m)' => y = w)
          /\ ~Answered(m)' /\ Handled(m)'
      BY <1>7, <1>9, <1>18, <1>20, <2>1
    <3> QED
      BY <3>1
  <2>2. CASE m # q
    <3>1. /\ \A y \in Workers : Given(y, m)' => Given(y, m)
          /\ Handled(m)' <=> Handled(m)
      BY <1>9, <1>20, <2>2
    <3> QED
      BY <1>1, <1>18, <3>1 DEF OneReply
  <2> QED
    BY <2>1, <2>2
<1>25. OneReply'
  BY <1>24 DEF OneReply
<1> QED
  BY <1>14, <1>15, <1>16, <1>17, <1>22, <1>23, <1>25 DEF MdpInv

\* A message to the broker that is no reply or, if the main thread gave one, is it.
LEMMA MdpSends ==
    ASSUME MdpInv, IInv', NEW w \in Workers, WorkerSends(w)
    PROVE  MdpInv'
<1>1. MdpTypes /\ RepliesOnce /\ OneReply
  BY DEF MdpInv
<1>2. /\ services' = services /\ submitted' = submitted
      /\ UNCHANGED <<down, replyTo, inbox, handled, answered>>
      /\ pair[w] # <<>>
  BY DEF WorkerSends, vars, history
<1> PICK q, s, u, e : /\ q = Head(pair[w]) /\ s = pair[w] /\ u = up[w]
                      /\ e = Reply(q, replyTo[w])
  OBVIOUS
<1>3. s \in Seq(Requests) /\ s # <<>> /\ IsInjective(s) /\ q = Head(s)
  BY <1>1, <1>2 DEF MdpTypes, RepliesOnce
<1>4. /\ Tail(s) \in Seq(Requests) /\ IsInjective(Tail(s))
      /\ q \in Range(s) /\ q \in Requests
      /\ \A m : m \in Range(Tail(s)) => m \in Range(s) /\ m # q
  BY <1>3, TailOnce
<1>5. Given(w, q)
  BY <1>4 DEF Given
<1>6. /\ ~Answered(q) /\ Handled(q)
      /\ \A x \in Workers : ~Returns(x, q) /\ (Given(x, q) => x = w)
  <2>1. ASSUME NEW x \in Workers, Returns(x, q) PROVE FALSE
    <3>1. x = w
      BY <1>1, <1>4, <1>5, <2>1 DEF OneReply
    <3> QED
      BY <1>1, <1>4, <1>5, <2>1, <3>1 DEF OneReply
  <2> QED
    BY <1>1, <1>4, <1>5, <2>1 DEF OneReply
<1>7. replyTo[w] \in Clients
  BY <1>2 DEF MdpInv, Addressed
<1>8. e \in UpMsg /\ e.op = "REPLY" /\ e.req = q
  BY <1>4, <1>7 DEF Reply, UpMsg
<1>9. /\ Append(u, e) \in Seq(UpMsg) /\ Once(Append(u, e), "REPLY")
      /\ \A m : Has(Append(u, e), "REPLY", m) <=> (Has(u, "REPLY", m) \/ q = m)
  <2>1. u \in Seq(UpMsg) /\ Once(u, "REPLY")
    BY <1>1 DEF MdpTypes, RepliesOnce
  <2>2. ~Has(u, "REPLY", e.req)
    BY <1>6, <1>8 DEF Returns
  <2> QED
    BY <1>8, <2>1, <2>2, ChannelAppend
<1>10. /\ pair' = [pair EXCEPT ![w] = Tail(s)]
       /\ up' = [up EXCEPT ![w] = Append(u, e)]
  BY DEF WorkerSends
<1>11. /\ pair'[w] = Tail(s) /\ up'[w] = Append(u, e)
       /\ \A x \in Workers : x # w => pair'[x] = pair[x] /\ up'[x] = up[x]
  BY <1>1, <1>10 DEF MdpTypes
<1>12. MdpTypes'
  BY <1>1, <1>2, <1>4, <1>9, <1>10 DEF MdpTypes
<1>13. RepliesOnce'
  BY <1>1, <1>2, <1>4, <1>9, <1>11 DEF RepliesOnce
<1>14. Addressed'
  <2> SUFFICES ASSUME NEW x \in Workers, inbox'[x] # <<>> \/ pair'[x] # <<>>
               PROVE  replyTo'[x] \in Clients
    BY DEF Addressed
  <2>1. CASE x = w
    BY <1>2, <1>7, <2>1
  <2>2. CASE x # w
    BY <1>2, <1>11, <2>2 DEF MdpInv, Addressed
  <2> QED
    BY <2>1, <2>2
<1>15. /\ \A m \in Requests, n \in Names : Waits(n, m)' <=> Waits(n, m)
       /\ \A m \in Requests, x \in Workers : Sent(x, m)' <=> Sent(x, m)
       /\ \A m \in Requests, x \in Workers : Posted(x, m)' <=> Posted(x, m)
       /\ \A m \in Requests : Handled(m)' <=> Handled(m)
       /\ \A m \in Requests : Answered(m)' <=> Answered(m)
  BY <1>2 DEF Waits, Sent, Posted, Handled, Answered
<1>16. OnePlace' /\ Numbered'
  BY <1>2, <1>15, PlacesShrink
<1>17. ListsOnce'
  BY <1>2 DEF MdpInv, ListsOnce
<1>18. /\ \A m \in Requests, x \in Workers : Given(x, m)' => Given(x, m) /\ m # q
       /\ \A m \in Requests, x \in Workers :
            Returns(x, m)' => Returns(x, m) \/ (m = q /\ x = w)
  <2> SUFFICES ASSUME NEW m \in Requests, NEW x \in Workers
               PROVE  /\ Given(x, m)' => Given(x, m) /\ m # q
                      /\ Returns(x, m)' => Returns(x, m) \/ (m = q /\ x = w)
    OBVIOUS
  <2>1. CASE x = w
    BY <1>4, <1>9, <1>11, <2>1 DEF Given, Returns
  <2>2. CASE x # w
    <3>1. Given(x, m)' => Given(x, m)
      BY <1>11, <2>2 DEF Given
    <3> QED
      BY <1>6, <1>11, <2>2, <3>1 DEF Returns
  <2> QED
    BY <2>1, <2>2
<1>19. ASSUME NEW m \in Requests
       PROVE  /\ \A y \in Workers, x \in Workers :
                   (Given(y, m)' \/ Returns(y, m)') /\ (Given(x, m)' \/ Returns(x, m)') => y = x
              /\ \A y \in Workers : Given(y, m)' => ~Returns(y, m)'
              /\ Answered(m)' => \A y \in Workers : ~Given(y, m)' /\ ~Returns(y, m)'
              /\ Answered(m)' \/ (\E y \in Workers : Given(y, m)' \/ Returns(y, m)')
                   => Handled(m)'
  <2>1. CASE m = q
    <3>1. /\ \A y \in Workers : ~Given(y, m)' /\ (Returns(y, m)' => y = w)
          /\ ~Answered(m)' /\ Handled(m)'
      BY <1>6, <1>15, <1>18, <2>1
    <3> QED
      BY <3>1
  <2>2. CASE m # q
    <3>1. \A y \in Workers : (Given(y, m)' => Given(y, m)) /\ (Returns(y, m)' => Returns(y, m))
      BY <1>18, <2>2
    <3> QED
      BY <1>1, <1>15, <3>1 DEF OneReply
  <2> QED
    BY <2>1, <2>2
<1>20. OneReply'
  BY <1>19 DEF OneReply
<1> QED
  BY <1>12, <1>13, <1>14, <1>16, <1>17, <1>20 DEF MdpInv

\* A heartbeat to the broker carries no reply.
LEMMA MdpHeartbeats ==
    ASSUME MdpInv, IInv', NEW w \in Workers, WorkerHeartbeats(w)
    PROVE  MdpInv'
<1>1. /\ services' = services /\ submitted' = submitted
      /\ UNCHANGED <<down, replyTo, inbox, pair, handled, answered>>
      /\ up' = [up EXCEPT ![w] = <<Heartbeat>>]
  BY DEF WorkerHeartbeats, vars, history
<1>2. DOMAIN <<Heartbeat>> = {1} /\ <<Heartbeat>>[1].op = "HEARTBEAT"
  BY DEF Heartbeat
<1>3. Once(<<Heartbeat>>, "REPLY") /\ \A m : ~Has(<<Heartbeat>>, "REPLY", m)
  BY <1>2 DEF Once, Has, Holds
<1>4. MdpTypes /\ RepliesOnce
  BY DEF MdpInv
<1>5. /\ up'[w] = <<Heartbeat>> /\ \A x \in Workers : x # w => up'[x] = up[x]
  BY <1>1, <1>4 DEF MdpTypes
<1>6. MdpTypes'
  <2>1. <<Heartbeat>> \in Seq(UpMsg)
    BY DEF UpMsg
  <2> QED
    BY <1>1, <1>4, <2>1 DEF MdpTypes
<1>7. /\ \A m \in Requests, n \in Names : Waits(n, m)' <=> Waits(n, m)
      /\ \A m \in Requests, x \in Workers : Sent(x, m)' <=> Sent(x, m)
      /\ \A m \in Requests, x \in Workers : Posted(x, m)' <=> Posted(x, m)
      /\ \A m \in Requests, x \in Workers : Given(x, m)' <=> Given(x, m)
      /\ \A m \in Requests : Handled(m)' <=> Handled(m)
      /\ \A m \in Requests : Answered(m)' <=> Answered(m)
  BY <1>1 DEF Waits, Sent, Posted, Given, Handled, Answered
<1>8. \A x \in Workers : /\ Once(up'[x], "REPLY")
                         /\ \A m \in Requests : Returns(x, m)' => Returns(x, m)
  <2> TAKE x \in Workers
  <2>1. CASE x = w
    BY <1>3, <1>5, <2>1 DEF Returns
  <2>2. CASE x # w
    BY <1>4, <1>5, <2>2 DEF Returns, RepliesOnce
  <2> QED
    BY <2>1, <2>2
<1>9. OnePlace' /\ Numbered'
  BY <1>1, <1>7, PlacesShrink
<1>10. OneReply'
  BY <1>7, <1>8, RepliesShrink
<1>11. ListsOnce' /\ RepliesOnce' /\ Addressed'
  BY <1>1, <1>4, <1>8 DEF MdpInv, ListsOnce, RepliesOnce, Addressed
<1> QED
  BY <1>6, <1>9, <1>10, <1>11 DEF MdpInv

\* In the composition the broker only takes steps of its own specification.
LEMMA BrokerSteps == MdpInv /\ [MdpNext]_mdpVars => [Next]_vars
<1> SUFFICES ASSUME MdpInv, [MdpNext]_mdpVars PROVE [Next]_vars
  OBVIOUS
<1>1. CASE UNCHANGED mdpVars
  BY <1>1 DEF mdpVars
<1>2. ASSUME NEW c \in Clients, NEW n \in Names, ClientSends(c, n) PROVE Next
  BY <1>2 DEF ClientSends, Next, ClientNext
<1>3. CASE BrokerRestarts
  BY <1>3 DEF BrokerRestarts, Next
<1>4. ASSUME NEW w \in Workers, BrokerTakes(w) PROVE Next
  <2> PICK m : m = Head(up[w])
    OBVIOUS
  <2>1. m \in UpMsg
    BY <1>4, HeadTailProperties DEF MdpInv, MdpTypes, BrokerTakes
  <2>2. CASE m.op = "REPLY" /\ WorkerReply(w, m.to)
    <3>1. m.to \in Clients
      BY <2>1, <2>2 DEF UpMsg, Ready, Heartbeat
    <3> QED
      BY <2>2, <3>1 DEF Next, WorkerNext
  <2>3. CASE \E o \in Offers : o[1] = w /\ WorkerReady(w, o[2], o[3])
    BY <2>3 DEF Next, WorkerNext
  <2>4. CASE WorkerHeartbeat(w)
    BY <2>4 DEF Next, WorkerNext
  <2> QED
    BY <1>4, <2>2, <2>3, <2>4 DEF BrokerTakes
<1>5. ASSUME NEW w \in Workers, Silence(w) PROVE Next
  BY <1>5 DEF Silence, Next, WorkerNext
<1>6. ASSUME NEW w \in Workers,
             \/ WorkerStep(w) \/ WorkerProcess(w) \/ WorkerHeartbeats(w)
             \/ WorkerRestart(w)
      PROVE  UNCHANGED vars
  BY <1>6 DEF WorkerStep, WorkerRequest, WorkerDisconnected, WorkerSends,
              WorkerTimesOut, WorkerProcess, WorkerHeartbeats, WorkerRestart
<1> QED
  BY <1>1, <1>2, <1>3, <1>4, <1>5, <1>6 DEF MdpNext

\* Every step of the composed system keeps a request and its reply in one place.
LEMMA StepMdpInv == MdpInv /\ [MdpNext]_mdpVars => MdpInv'
<1> SUFFICES ASSUME MdpInv, [MdpNext]_mdpVars PROVE MdpInv'
  OBVIOUS
<1>0. IInv'
  BY BrokerSteps, StepIInv DEF MdpInv
<1>1. CASE UNCHANGED mdpVars
  <2>1. services' = services /\ submitted' = submitted /\ UNCHANGED workerVars
    BY <1>1 DEF mdpVars, vars, history
  <2> QED
    BY <1>0, <2>1, NothingMoves
<1>2. ASSUME NEW c \in Clients, NEW n \in Names, ClientSends(c, n) PROVE MdpInv'
  BY <1>0, <1>2, MdpClient
<1>3. CASE BrokerRestarts
  BY <1>0, <1>3, MdpBrokerRestarts
<1>4. ASSUME NEW w \in Workers, BrokerTakes(w) PROVE MdpInv'
  BY <1>0, <1>4, MdpTakes
<1>5. ASSUME NEW w \in Workers, Silence(w) PROVE MdpInv'
  <2>1. services' = services /\ submitted' = submitted /\ UNCHANGED workerVars
    BY <1>5 DEF Silence, ClockPasses, history
  <2> QED
    BY <1>0, <2>1, NothingMoves
<1>6. ASSUME NEW w \in Workers, WorkerStep(w) PROVE MdpInv'
  <2>1. CASE WorkerRequest(w)
    BY <1>0, <2>1, MdpRequest
  <2>2. CASE WorkerDisconnected(w)
    BY <1>0, <2>2, MdpReconnects DEF WorkerDisconnected
  <2>3. CASE WorkerSends(w)
    BY <1>0, <2>3, MdpSends
  <2>4. CASE WorkerTimesOut(w)
    BY <1>0, <2>4, MdpReconnects DEF WorkerTimesOut
  <2> QED
    BY <1>6, <2>1, <2>2, <2>3, <2>4 DEF WorkerStep
<1>7. ASSUME NEW w \in Workers, WorkerProcess(w) PROVE MdpInv'
  BY <1>0, <1>7, MdpProcess
<1>8. ASSUME NEW w \in Workers, WorkerHeartbeats(w) PROVE MdpInv'
  BY <1>0, <1>8, MdpHeartbeats
<1>9. ASSUME NEW w \in Workers, WorkerRestart(w) PROVE MdpInv'
  BY <1>0, <1>9, MdpWorkerRestart
<1> QED
  BY <1>1, <1>2, <1>3, <1>4, <1>5, <1>6, <1>7, <1>8, <1>9 DEF MdpNext

\* The broker and the worker API together: whatever is lost, restarted or connected
\* again, no request is handled twice or answered twice, and none is answered before
\* it was handled.
THEOREM HandledAtMostOnce == MdpSpec => []AtMostOnce
<1>1. MdpInv => AtMostOnce
  <2> SUFFICES ASSUME MdpInv PROVE AtMostOnce
    OBVIOUS
  <2>1. /\ IsInjective(handled)
        /\ \A i, j \in DOMAIN answered : answered[i].req = answered[j].req => i = j
    BY DEF MdpInv, ListsOnce, RepliesOnce
  <2>2. ASSUME NEW i \in DOMAIN answered PROVE answered[i].req \in Range(handled)
    <3>1. answered[i].req \in Requests
      <4>1. answered[i] \in [req : Requests, to : Clients]
        BY ElementOfSeq, LenProperties DEF MdpInv, MdpTypes
      <4> QED
        BY <4>1
    <3>2. Answered(answered[i].req)
      BY DEF Answered
    <3> QED
      BY <3>1, <3>2 DEF MdpInv, OneReply, Handled
  <2> QED
    BY <2>1, <2>2 DEF AtMostOnce
<1> QED
  BY <1>1, InitMdpInv, StepMdpInv, PTL DEF MdpSpec

\* The broker of the composition implements the broker of module Broker, so what is
\* proved of every behaviour of Broker holds with workers that follow the API.
THEOREM BrokerInside == MdpSpec => Spec
<1>1. MdpInit => Init
  BY DEF MdpInit
<1> QED
  BY <1>1, InitMdpInv, StepMdpInv, BrokerSteps, PTL DEF MdpSpec, Spec

=============================================================================
