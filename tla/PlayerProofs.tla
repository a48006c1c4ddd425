---------------------------- MODULE PlayerProofs ----------------------------
(***************************************************************************)
(* What a player owns, builds, commands and trains, for any number of      *)
(* players, items, buildings, heroes, camps and soldiers: whatever is      *)
(* found, worn, sold, bought and sent back is in one place; levels are     *)
(* earned; soldiers are counted; and what the gateway and the army worker  *)
(* hold of him in memory is what redis has.                                *)
(***************************************************************************)
EXTENDS MCPlayer, FiniteSetTheorems, SequenceTheorems, WellFoundedInduction, TLAPS

Worn == Equips \cup {NoEquip}
EquipRecords == [sn : Equips, pannle : 0 .. 2, position : Nat, mail : Nat \cup {NoEquip}]
MailRecords == [id : Nat, diamond : Nat, equip : Worn]
GoodRecords == [sn : Equips, player : Players, cost : Prices]

\* The records R of player p, whose slots T are torn: one for each equip, and one for each
\* slot that is not.
RecordsOK(p, T, R) ==
    /\ R \subseteq EquipRecords
    /\ \A r, s \in R : r.sn = s.sn => r = s
    /\ \A r, s \in R : /\ r.pannle = s.pannle /\ r.pannle # 2 /\ r.position = s.position
                       /\ ~(r.pannle = 0 /\ r.position \in T)
                    => r = s
    /\ \A r \in R : /\ r.pannle = 0 => r.position \in Slots(p)
                    /\ r.pannle = 1 => r.position \in HeroSlots

\* The backpack b and the hero's slots h show what the records R say, but for what a torn
\* slot hides.
Shows(p, T, R, b, h) ==
    /\ b \in [Slots(p) -> Worn] /\ h \in [HeroSlots -> Worn]
    /\ \A e \in Equips, i \in Slots(p) :
         /\ b[i] = e => \E r \in R : r.sn = e /\ r.pannle = 0 /\ r.position = i
         /\ i \notin T => \A r \in R : r.sn = e /\ r.pannle = 0 /\ r.position = i => b[i] = e
    /\ \A e \in Equips, j \in HeroSlots :
         h[j] = e <=> \E r \in R : r.sn = e /\ r.pannle = 1 /\ r.position = j

\* The e-mails M of a player with records R, of n sent so far.
MailsOK(R, M, n) ==
    /\ M \subseteq MailRecords
    /\ \A m \in M : m.id < n
    /\ \A m, k \in M : m.id = k.id => m = k
    /\ \A r \in R : r.pannle = 2 => r.mail \in Nat /\ r.mail < n
    /\ \A m \in M, r \in R : r.pannle = 2 /\ r.mail = m.id => m.diamond = 0

\* The e-mails L that an online player is shown.
MailsShown(R, L, M) ==
    /\ L \subseteq MailRecords
    /\ \A m \in MailRecords : m.diamond > 0 => (m \in L <=> m \in M)
    /\ \A m \in L : m.diamond = 0 =>
         \E r \in R : r.pannle = 2 /\ r.sn = m.equip /\ r.mail = m.id

Has(R, e) == \E r \in R : r.sn = e
OnSale(e) == \E g \in market_records : g.sn = e

GoodsTypes ==
    /\ connected \subseteq Players /\ made \subseteq Equips /\ mails \in Nat
    /\ DOMAIN my_backpack = Players /\ my_backpack = [p \in Players |-> my_backpack[p]]
    /\ DOMAIN hero_equip = Players /\ hero_equip = [p \in Players |-> hero_equip[p]]
    /\ DOMAIN email_list = Players /\ email_list = [p \in Players |-> email_list[p]]
    /\ DOMAIN equip_records = Players /\ equip_records = [p \in Players |-> equip_records[p]]
    /\ DOMAIN mail_records = Players /\ mail_records = [p \in Players |-> mail_records[p]]
    /\ DOMAIN torn = Players /\ torn = [p \in Players |-> torn[p]]

RecordsKept == \A p \in Players : /\ RecordsOK(p, torn[p], equip_records[p])
                           /\ MailsOK(equip_records[p], mail_records[p], mails)

Shown ==
    \A p \in connected :
        /\ Shows(p, torn[p], equip_records[p], my_backpack[p], hero_equip[p])
        /\ MailsShown(equip_records[p], email_list[p], mail_records[p])

\* An equip is at one player or on the market, if it has been found and not lost, or else
\* nowhere.
OnePlace ==
    /\ \A p, q \in Players, e \in Equips :
         Has(equip_records[p], e) /\ Has(equip_records[q], e) => p = q
    /\ \A p \in Players, e \in Equips : ~(Has(equip_records[p], e) /\ OnSale(e))
    /\ lost \subseteq made
    /\ \A e \in Equips :
         e \in made \ lost <=> (OnSale(e) \/ \E p \in Players : Has(equip_records[p], e))

\* The index ix of the market s is the inverse of its serial numbers, and the records
\* are its goods.
IndexedBy(s, ix, R) ==
    /\ s \in Seq(GoodRecords)
    /\ DOMAIN ix = {g.sn : g \in R}
    /\ \A e \in DOMAIN ix : ix[e] \in 1 .. Len(s) /\ s[ix[e]].sn = e
    /\ \A i \in 1 .. Len(s) : s[i] \in R /\ ix[s[i].sn] = i
    /\ \A g \in R : \E i \in 1 .. Len(s) : s[i] = g

Indexed == IndexedBy(market, market_index, market_records)

GoodsInv == GoodsTypes /\ RecordsKept /\ Shown /\ OnePlace /\ Indexed

-----------------------------------------------------------------------------
\* A set of naturals that is not empty has a least element.
LEMMA LeastOf ==
    ASSUME NEW T \in SUBSET Nat, T # {}
    PROVE  Smallest(T) \in T /\ \A y \in T : Smallest(T) <= y
<1> DEFINE F == {0 .. n : n \in T}
<1>1. F # {} /\ F \subseteq FiniteSubsetsOf(Nat)
  <2>1. \A n \in T : IsFiniteSet(0 .. n) /\ 0 .. n \in SUBSET Nat
    <3> TAKE n \in T
    <3>1. n \in Int /\ 0 \in Int
      OBVIOUS
    <3>2. IsFiniteSet(0 .. n)
      BY <3>1, FS_Interval
    <3> QED
      BY <3>2
  <2> QED
    BY <2>1 DEF FiniteSubsetsOf
<1>2. \E x \in F : \A y \in F : ~(<<y, x>> \in StrictSubsetOrdering(Nat))
  BY <1>1, FS_StrictSubsetOrderingWellFounded, WFMin
<1>3. PICK x \in T : \A y \in T : ~(<<0 .. y, 0 .. x>> \in StrictSubsetOrdering(Nat))
  BY <1>2
<1>4. ASSUME NEW y \in T, y < x PROVE FALSE
  <2>1. 0 .. y \in SUBSET Nat /\ 0 .. x \in SUBSET Nat /\ 0 .. y \subseteq 0 .. x
    BY <1>4
  <2>2. x \in 0 .. x /\ x \notin 0 .. y
    BY <1>4
  <2> QED
    BY <1>3, <2>1, <2>2 DEF StrictSubsetOrdering
<1>5. \A y \in T : x <= y
  BY <1>4
<1> QED
  BY <1>5 DEF Smallest

\* The slot that GetBackpack finds is free.
LEMMA FoundSlot ==
    ASSUME GoodsAssumption, NEW p \in Players, Free(p) # {}
    PROVE  Smallest(Free(p)) \in Slots(p) /\ my_backpack[p][Smallest(Free(p))] = NoEquip
<1>1. BackpackNum[p] \in Nat
  BY DEF GoodsAssumption
<1>2. Free(p) \in SUBSET Nat
  BY <1>1 DEF Free, Slots
<1>3. Smallest(Free(p)) \in Free(p)
  BY <1>2, LeastOf
<1> QED
  BY <1>3 DEF Free

\* A record that replaces the one of its equip.
LEMMA With ==
    ASSUME NEW R, NEW r
    PROVE  \A x : x \in WithEquip(R, r) <=> x = r \/ (x \in R /\ x.sn # r.sn)
BY DEF WithEquip

\* An equip that no slot shows is put in a free slot of the backpack.
LEMMA PutInBackpack ==
    ASSUME GoodsAssumption, NEW p \in Players, NEW T, NEW R, NEW b, NEW h, RecordsOK(p, T, R),
           Shows(p, T, R, b, h), NEW i \in Slots(p), b[i] = NoEquip, NEW e \in Equips,
           \A r \in R : r.sn = e => r.pannle = 2,
           NEW S, S = WithEquip(R, EquipRecord(e, 0, i, NoEquip)),
           NEW c, c = [b EXCEPT ![i] = e]
    PROVE  /\ RecordsOK(p, T, S) /\ Shows(p, T, S, c, h)
           /\ \A x : Has(S, x) <=> Has(R, x) \/ x = e
           /\ \A r \in S : r.pannle = 2 => r \in R
           /\ \A r \in R : r.sn # e => r \in S
<1> PICK r : r = EquipRecord(e, 0, i, NoEquip)
  OBVIOUS
<1>1. r \in EquipRecords /\ r.sn = e /\ r.pannle = 0 /\ r.position = i
  BY DEF EquipRecord, EquipRecords, GoodsAssumption, Slots
<1>2. \A x : x \in S <=> x = r \/ (x \in R /\ x.sn # e)
  BY <1>1, With
<1>3. i \notin T => \A x \in R : ~(x.pannle = 0 /\ x.position = i)
  <2> SUFFICES ASSUME i \notin T, NEW x \in R, x.pannle = 0, x.position = i PROVE FALSE
    OBVIOUS
  <2>1. x.sn \in Equips
    BY DEF RecordsOK, EquipRecords
  <2>2. b[i] = x.sn
    BY <2>1 DEF Shows
  <2> QED
    BY <2>1, <2>2 DEF GoodsAssumption
<1>4. RecordsOK(p, T, S)
  <2>1. S \subseteq EquipRecords
    BY <1>1, <1>2 DEF RecordsOK
  <2>2. \A x, y \in S : x.sn = y.sn => x = y
    BY <1>1, <1>2 DEF RecordsOK
  <2>3. \A x, y \in S : /\ x.pannle = y.pannle /\ x.pannle # 2 /\ x.position = y.position
                        /\ ~(x.pannle = 0 /\ x.position \in T)
                     => x = y
    BY <1>1, <1>2, <1>3 DEF RecordsOK
  <2>4. \A x \in S : /\ x.pannle = 0 => x.position \in Slots(p)
                     /\ x.pannle = 1 => x.position \in HeroSlots
    BY <1>1, <1>2 DEF RecordsOK
  <2> QED
    BY <2>1, <2>2, <2>3, <2>4 DEF RecordsOK
<1>5. Shows(p, T, S, c, h)
  <2>1. c \in [Slots(p) -> Worn] /\ h \in [HeroSlots -> Worn]
    BY DEF Shows, Worn
  <2>2. ASSUME NEW x \in Equips, NEW k \in Slots(p)
        PROVE  /\ c[k] = x => \E y \in S : y.sn = x /\ y.pannle = 0 /\ y.position = k
               /\ k \notin T => \A y \in S : y.sn = x /\ y.pannle = 0 /\ y.position = k => c[k] = x
    <3>1. /\ b[k] = x => \E y \in R : y.sn = x /\ y.pannle = 0 /\ y.position = k
          /\ k \notin T => \A y \in R : y.sn = x /\ y.pannle = 0 /\ y.position = k => b[k] = x
      BY DEF Shows
    <3>2. CASE k = i
      <4>1. c[k] = e
        BY <3>2 DEF Shows
      <4>2. k \notin T => \A y \in S : y.pannle = 0 /\ y.position = k => y = r
        BY <1>2, <1>3, <3>2
      <4> QED
        BY <4>1, <4>2, <1>1, <1>2, <3>2
    <3>3. CASE k # i
      <4>1. c[k] = b[k]
        BY <3>3 DEF Shows
      <4>2. \A y : y \in S /\ y.pannle = 0 /\ y.position = k <=> y \in R /\ y.pannle = 0 /\ y.position = k
        BY <1>1, <1>2, <3>3
      <4> QED
        BY <4>1, <4>2, <3>1
    <3> QED
      BY <3>2, <3>3
  <2>3. ASSUME NEW x \in Equips, NEW k \in HeroSlots
        PROVE  h[k] = x <=> \E y \in S : y.sn = x /\ y.pannle = 1 /\ y.position = k
    <3>1. h[k] = x <=> \E y \in R : y.sn = x /\ y.pannle = 1 /\ y.position = k
      BY DEF Shows
    <3>2. \A y : y \in S /\ y.pannle = 1 <=> y \in R /\ y.pannle = 1
      BY <1>1, <1>2
    <3> QED
      BY <3>1, <3>2
  <2> QED
    BY <2>1, <2>2, <2>3 DEF Shows
<1> QED
  BY <1>1, <1>2, <1>4, <1>5 DEF Has

\* What a slot shows has one record, that of the slot.
LEMMA InSlot ==
    ASSUME GoodsAssumption, NEW p \in Players, NEW T, NEW R, NEW b, NEW h, RecordsOK(p, T, R),
           Shows(p, T, R, b, h)
    PROVE  /\ \A i \in Slots(p) : b[i] # NoEquip =>
                /\ b[i] \in Equips
                /\ \E r \in R : /\ r.sn = b[i] /\ r.pannle = 0 /\ r.position = i
                                /\ \A x \in R : x.sn = b[i] => x = r
           /\ \A j \in HeroSlots : h[j] # NoEquip =>
                /\ h[j] \in Equips
                /\ \E r \in R : /\ r.sn = h[j] /\ r.pannle = 1 /\ r.position = j
                                /\ \A x \in R : x.sn = h[j] => x = r
           /\ \A i \in Slots(p) : b[i] = NoEquip /\ i \notin T => \A x \in R : ~(x.pannle = 0 /\ x.position = i)
           /\ \A j \in HeroSlots : h[j] = NoEquip => \A x \in R : ~(x.pannle = 1 /\ x.position = j)
<1>1. ASSUME NEW i \in Slots(p), b[i] # NoEquip
      PROVE  /\ b[i] \in Equips
             /\ \E r \in R : /\ r.sn = b[i] /\ r.pannle = 0 /\ r.position = i
                             /\ \A x \in R : x.sn = b[i] => x = r
  <2>1. b[i] \in Equips
    BY <1>1 DEF Shows, Worn
  <2>2. PICK r \in R : r.sn = b[i] /\ r.pannle = 0 /\ r.position = i
    BY <2>1 DEF Shows
  <2>3. \A x \in R : x.sn = b[i] => x = r
    BY <2>2 DEF RecordsOK
  <2> QED
    BY <2>1, <2>2, <2>3
<1>2. ASSUME NEW i \in HeroSlots, h[i] # NoEquip
      PROVE  /\ h[i] \in Equips
             /\ \E r \in R : /\ r.sn = h[i] /\ r.pannle = 1 /\ r.position = i
                             /\ \A x \in R : x.sn = h[i] => x = r
  <2>1. h[i] \in Equips
    BY <1>2 DEF Shows, Worn
  <2>2. PICK r \in R : r.sn = h[i] /\ r.pannle = 1 /\ r.position = i
    BY <2>1 DEF Shows
  <2>3. \A x \in R : x.sn = h[i] => x = r
    BY <2>2 DEF RecordsOK
  <2> QED
    BY <2>1, <2>2, <2>3
<1>3. ASSUME NEW i \in Slots(p), b[i] = NoEquip, i \notin T, NEW x \in R, x.pannle = 0, x.position = i
      PROVE  FALSE
  <2>1. x.sn \in Equips
    BY DEF RecordsOK, EquipRecords
  <2>2. b[i] = x.sn
    BY <1>3, <2>1 DEF Shows
  <2> QED
    BY <1>3, <2>1, <2>2 DEF GoodsAssumption
<1>4. ASSUME NEW i \in HeroSlots, h[i] = NoEquip, NEW x \in R, x.pannle = 1, x.position = i
      PROVE  FALSE
  <2>1. x.sn \in Equips
    BY DEF RecordsOK, EquipRecords
  <2>2. h[i] = x.sn
    BY <1>4, <2>1 DEF Shows
  <2> QED
    BY <1>4, <2>1, <2>2 DEF GoodsAssumption
<1> QED
  BY <1>1, <1>2, <1>3, <1>4

\* UnloadEquip moves what slot j of the hero holds to the free slot i.
LEMMA TakenOff ==
    ASSUME GoodsAssumption, NEW p \in Players, NEW T, NEW R, NEW b, NEW h, RecordsOK(p, T, R),
           Shows(p, T, R, b, h), NEW i \in Slots(p), b[i] = NoEquip,
           NEW j \in HeroSlots, h[j] # NoEquip,
           NEW S, S = WithEquip(R, EquipRecord(h[j], 0, i, NoEquip)),
           NEW c, c = [b EXCEPT ![i] = h[j]], NEW d, d = [h EXCEPT ![j] = NoEquip]
    PROVE  /\ RecordsOK(p, T, S) /\ Shows(p, T, S, c, d)
           /\ \A x : Has(S, x) <=> Has(R, x)
           /\ \A r : r.pannle = 2 => (r \in S <=> r \in R)
<1> PICK e, r : e = h[j] /\ r = EquipRecord(e, 0, i, NoEquip)
  OBVIOUS
<1>0. PICK s \in R : s.sn = e /\ s.pannle = 1 /\ s.position = j /\ \A x \in R : x.sn = e => x = s
  BY InSlot
<1>1. /\ e \in Equips /\ r \in EquipRecords /\ r.sn = e /\ r.pannle = 0 /\ r.position = i
  BY InSlot DEF EquipRecord, EquipRecords, GoodsAssumption, Slots
<1>2. \A x : x \in S <=> x = r \/ (x \in R /\ x.sn # e)
  BY <1>1, With
<1>3. i \notin T => \A x \in R : ~(x.pannle = 0 /\ x.position = i)
  BY InSlot
<1>4. RecordsOK(p, T, S)
  <2>1. S \subseteq EquipRecords
    BY <1>1, <1>2 DEF RecordsOK
  <2>2. \A x, y \in S : x.sn = y.sn => x = y
    BY <1>1, <1>2 DEF RecordsOK
  <2>3. \A x, y \in S : /\ x.pannle = y.pannle /\ x.pannle # 2 /\ x.position = y.position
                        /\ ~(x.pannle = 0 /\ x.position \in T)
                     => x = y
    BY <1>1, <1>2, <1>3 DEF RecordsOK
  <2>4. \A x \in S : /\ x.pannle = 0 => x.position \in Slots(p)
                     /\ x.pannle = 1 => x.position \in HeroSlots
    BY <1>1, <1>2 DEF RecordsOK
  <2> QED
    BY <2>1, <2>2, <2>3, <2>4 DEF RecordsOK
<1>5. Shows(p, T, S, c, d)
  <2>1. c \in [Slots(p) -> Worn] /\ d \in [HeroSlots -> Worn]
    BY <1>1 DEF Shows, Worn
  <2>2. ASSUME NEW x \in Equips, NEW k \in Slots(p)
        PROVE  /\ c[k] = x => \E y \in S : y.sn = x /\ y.pannle = 0 /\ y.position = k
               /\ k \notin T => \A y \in S : y.sn = x /\ y.pannle = 0 /\ y.position = k => c[k] = x
    <3>1. /\ b[k] = x => \E y \in R : y.sn = x /\ y.pannle = 0 /\ y.position = k
          /\ k \notin T => \A y \in R : y.sn = x /\ y.pannle = 0 /\ y.position = k => b[k] = x
      BY DEF Shows
    <3>2. CASE k = i
      <4>1. c[k] = e
        BY <3>2 DEF Shows
      <4>2. k \notin T => \A y \in S : y.pannle = 0 /\ y.position = k => y = r
        BY <1>2, <1>3, <3>2
      <4> QED
        BY <4>1, <4>2, <1>1, <1>2, <3>2
    <3>3. CASE k # i
      <4>1. c[k] = b[k]
        BY <3>3 DEF Shows
      <4>2. \A y : y \in S /\ y.pannle = 0 /\ y.position = k <=> y \in R /\ y.pannle = 0 /\ y.position = k
        BY <1>0, <1>1, <1>2, <3>3
      <4> QED
        BY <4>1, <4>2, <3>1
    <3> QED
      BY <3>2, <3>3
  <2>3. ASSUME NEW x \in Equips, NEW k \in HeroSlots
        PROVE  d[k] = x <=> \E y \in S : y.sn = x /\ y.pannle = 1 /\ y.position = k
    <3>1. h[k] = x <=> \E y \in R : y.sn = x /\ y.pannle = 1 /\ y.position = k
      BY DEF Shows
    <3>2. CASE k = j
      <4>1. d[k] = NoEquip
        BY <3>2 DEF Shows
      <4>2. \A y \in S : ~(y.pannle = 1 /\ y.position = k)
        BY <1>0, <1>1, <1>2, <3>2 DEF RecordsOK
      <4> QED
        BY <4>1, <4>2 DEF GoodsAssumption
    <3>3. CASE k # j
      <4>1. d[k] = h[k]
        BY <3>3 DEF Shows
      <4>2. \A y : y \in S /\ y.pannle = 1 /\ y.position = k <=> y \in R /\ y.pannle = 1 /\ y.position = k
        BY <1>0, <1>1, <1>2, <3>3
      <4> QED
        BY <4>1, <4>2, <3>1
    <3> QED
      BY <3>2, <3>3
  <2> QED
    BY <2>1, <2>2, <2>3 DEF Shows
<1> QED
  BY <1>0, <1>1, <1>2, <1>4, <1>5 DEF Has

\* DressEquip exchanges what slot i of the backpack and slot j of the hero hold.
LEMMA PutOn ==
    ASSUME GoodsAssumption, NEW p \in Players, NEW T, NEW R, NEW b, NEW h, RecordsOK(p, T, R),
           Shows(p, T, R, b, h), NEW i \in Slots(p), b[i] # NoEquip, NEW j \in HeroSlots,
           NEW S, S = Exchanged(R, EquipRecord(b[i], 1, j, NoEquip), EquipRecord(h[j], 0, i, NoEquip)),
           NEW c, c = [b EXCEPT ![i] = h[j]], NEW d, d = [h EXCEPT ![j] = b[i]]
    PROVE  /\ RecordsOK(p, T, S) /\ Shows(p, T, S, c, d)
           /\ \A x : Has(S, x) <=> Has(R, x)
           /\ \A r : r.pannle = 2 => (r \in S <=> r \in R)
<1> PICK e, w, r, s : /\ e = b[i] /\ w = h[j]
                      /\ r = EquipRecord(e, 1, j, NoEquip) /\ s = EquipRecord(w, 0, i, NoEquip)
  OBVIOUS
<1>0. PICK q \in R : q.sn = e /\ q.pannle = 0 /\ q.position = i /\ \A x \in R : x.sn = e => x = q
  BY InSlot
<1>1. /\ e \in Equips /\ r \in EquipRecords /\ r.sn = e /\ r.pannle = 1 /\ r.position = j
  <2>1. e \in Equips
    BY InSlot
  <2>2. j \in Nat /\ 1 \in 0 .. 2
    BY DEF GoodsAssumption
  <2> QED
    BY <2>1, <2>2 DEF EquipRecord, EquipRecords
<1>2. CASE w = NoEquip
  <2>1. S = WithEquip(R, r)
    BY <1>2 DEF Exchanged, EquipRecord
  <2>2. \A x : x \in S <=> x = r \/ (x \in R /\ x.sn # e)
    BY <2>1, <1>1, With
  <2>3. \A x \in R : ~(x.pannle = 1 /\ x.position = j)
    <3>1. h[j] = NoEquip
      BY <1>2
    <3> QED
      BY InSlot, <3>1
  <2>4. RecordsOK(p, T, S)
    <3>1. S \subseteq EquipRecords
      BY <1>1, <2>2 DEF RecordsOK
    <3>2. \A x, y \in S : x.sn = y.sn => x = y
      BY <1>1, <2>2 DEF RecordsOK
    <3>3. \A x, y \in S : /\ x.pannle = y.pannle /\ x.pannle # 2 /\ x.position = y.position
                          /\ ~(x.pannle = 0 /\ x.position \in T)
                       => x = y
      BY <1>1, <2>2, <2>3 DEF RecordsOK
    <3>4. \A x \in S : /\ x.pannle = 0 => x.position \in Slots(p)
                       /\ x.pannle = 1 => x.position \in HeroSlots
      BY <1>1, <2>2 DEF RecordsOK
    <3> QED
      BY <3>1, <3>2, <3>3, <3>4 DEF RecordsOK
  <2>5. Shows(p, T, S, c, d)
    <3>1. c \in [Slots(p) -> Worn] /\ d \in [HeroSlots -> Worn]
      BY <1>1, <1>2 DEF Shows, Worn
    <3>2. ASSUME NEW x \in Equips, NEW k \in Slots(p)
          PROVE  /\ c[k] = x => \E y \in S : y.sn = x /\ y.pannle = 0 /\ y.position = k
                 /\ k \notin T => \A y \in S : y.sn = x /\ y.pannle = 0 /\ y.position = k => c[k] = x
      <4>1. /\ b[k] = x => \E y \in R : y.sn = x /\ y.pannle = 0 /\ y.position = k
            /\ k \notin T => \A y \in R : y.sn = x /\ y.pannle = 0 /\ y.position = k => b[k] = x
        BY DEF Shows
      <4>2. CASE k = i
        <5>1. c[k] = NoEquip
          BY <1>2, <4>2 DEF Shows
        <5>2. k \notin T => \A y \in S : ~(y.pannle = 0 /\ y.position = k)
          BY <1>0, <1>1, <2>2, <4>2 DEF RecordsOK
        <5> QED
          BY <5>1, <5>2 DEF GoodsAssumption
      <4>3. CASE k # i
        <5>1. c[k] = b[k]
          BY <4>3 DEF Shows
        <5>2. \A y : y \in S /\ y.pannle = 0 /\ y.position = k <=> y \in R /\ y.pannle = 0 /\ y.position = k
          BY <1>0, <1>1, <2>2, <4>3
        <5> QED
          BY <5>1, <5>2, <4>1
      <4> QED
        BY <4>2, <4>3
    <3>3. ASSUME NEW x \in Equips, NEW k \in HeroSlots
          PROVE  d[k] = x <=> \E y \in S : y.sn = x /\ y.pannle = 1 /\ y.position = k
      <4>1. h[k] = x <=> \E y \in R : y.sn = x /\ y.pannle = 1 /\ y.position = k
        BY DEF Shows
      <4>2. CASE k = j
        <5>1. d[k] = e
          BY <4>2 DEF Shows
        <5>2. \A y \in S : y.pannle = 1 /\ y.position = k => y = r
          BY <2>2, <2>3, <4>2
        <5> QED
          BY <5>1, <5>2, <1>1, <2>2, <4>2
      <4>3. CASE k # j
        <5>1. d[k] = h[k]
          BY <4>3 DEF Shows
        <5>2. \A y : y \in S /\ y.pannle = 1 /\ y.position = k <=> y \in R /\ y.pannle = 1 /\ y.position = k
          BY <1>0, <1>1, <2>2, <4>3
        <5> QED
          BY <5>1, <5>2, <4>1
      <4> QED
        BY <4>2, <4>3
    <3> QED
      BY <3>1, <3>2, <3>3 DEF Shows
  <2> QED
    BY <1>0, <1>1, <2>2, <2>4, <2>5 DEF Has
<1>3. CASE w # NoEquip
  <2>0. PICK z \in R : z.sn = w /\ z.pannle = 1 /\ z.position = j /\ \A x \in R : x.sn = w => x = z
    BY <1>3, InSlot
  <2>1. w \in Equips /\ w # e /\ s \in EquipRecords /\ s.sn = w /\ s.pannle = 0 /\ s.position = i
    <3>1. w \in Equips
      BY <1>3, InSlot
    <3>2. w # e
      BY <1>0, <2>0
    <3> QED
      BY <3>1, <3>2 DEF EquipRecord, EquipRecords, GoodsAssumption, Slots
  <2>2. \A x : x \in S <=> x = r \/ x = s \/ (x \in R /\ x.sn # e /\ x.sn # w)
    <3>1. S = WithEquip(WithEquip(R, s), r)
      BY <1>3 DEF Exchanged, EquipRecord
    <3>2. \A x : x \in WithEquip(R, s) <=> x = s \/ (x \in R /\ x.sn # w)
      BY <2>1, With
    <3>3. \A x : x \in S <=> x = r \/ (x \in WithEquip(R, s) /\ x.sn # e)
      BY <3>1, <1>1, With
    <3> QED
      BY <3>2, <3>3, <2>1
  <2>4. RecordsOK(p, T, S)
    <3>1. S \subseteq EquipRecords
      BY <1>1, <2>1, <2>2 DEF RecordsOK
    <3>2. \A x, y \in S : x.sn = y.sn => x = y
      BY <1>1, <2>1, <2>2 DEF RecordsOK
    <3>3. \A x, y \in S : /\ x.pannle = y.pannle /\ x.pannle # 2 /\ x.position = y.position
                          /\ ~(x.pannle = 0 /\ x.position \in T)
                       => x = y
      BY <1>0, <1>1, <2>0, <2>1, <2>2 DEF RecordsOK
    <3>4. \A x \in S : /\ x.pannle = 0 => x.position \in Slots(p)
                       /\ x.pannle = 1 => x.position \in HeroSlots
      BY <1>1, <2>1, <2>2 DEF RecordsOK
    <3> QED
      BY <3>1, <3>2, <3>3, <3>4 DEF RecordsOK
  <2>5. Shows(p, T, S, c, d)
    <3>1. c \in [Slots(p) -> Worn] /\ d \in [HeroSlots -> Worn]
      BY <1>1, <2>1 DEF Shows, Worn
    <3>2. ASSUME NEW x \in Equips, NEW k \in Slots(p)
          PROVE  /\ c[k] = x => \E y \in S : y.sn = x /\ y.pannle = 0 /\ y.position = k
                 /\ k \notin T => \A y \in S : y.sn = x /\ y.pannle = 0 /\ y.position = k => c[k] = x
      <4>1. /\ b[k] = x => \E y \in R : y.sn = x /\ y.pannle = 0 /\ y.position = k
            /\ k \notin T => \A y \in R : y.sn = x /\ y.pannle = 0 /\ y.position = k => b[k] = x
        BY DEF Shows
      <4>2. CASE k = i
        <5>1. c[k] = w
          BY <4>2 DEF Shows
        <5>2. k \notin T => \A y \in S : y.pannle = 0 /\ y.position = k => y = s
          BY <1>0, <1>1, <2>2, <4>2 DEF RecordsOK
        <5> QED
          BY <5>1, <5>2, <2>1, <2>2, <4>2
      <4>3. CASE k # i
        <5>1. c[k] = b[k]
          BY <4>3 DEF Shows
        <5>2. \A y : y \in S /\ y.pannle = 0 /\ y.position = k <=> y \in R /\ y.pannle = 0 /\ y.position = k
          BY <1>0, <1>1, <2>0, <2>1, <2>2, <4>3
        <5> QED
          BY <5>1, <5>2, <4>1
      <4> QED
        BY <4>2, <4>3
    <3>3. ASSUME NEW x \in Equips, NEW k \in HeroSlots
          PROVE  d[k] = x <=> \E y \in S : y.sn = x /\ y.pannle = 1 /\ y.position = k
      <4>1. h[k] = x <=> \E y \in R : y.sn = x /\ y.pannle = 1 /\ y.position = k
        BY DEF Shows
      <4>2. CASE k = j
        <5>1. d[k] = e
          BY <4>2 DEF Shows
        <5>2. \A y \in S : y.pannle = 1 /\ y.position = k => y = r
          BY <2>0, <2>1, <2>2, <4>2 DEF RecordsOK
        <5> QED
          BY <5>1, <5>2, <1>1, <2>2, <4>2
      <4>3. CASE k # j
        <5>1. d[k] = h[k]
          BY <4>3 DEF Shows
        <5>2. \A y : y \in S /\ y.pannle = 1 /\ y.position = k <=> y \in R /\ y.pannle = 1 /\ y.position = k
          BY <1>0, <1>1, <2>0, <2>1, <2>2, <4>3
        <5> QED
          BY <5>1, <5>2, <4>1
      <4> QED
        BY <4>2, <4>3
    <3>4. Shows(p, T, S, c, d)
      BY <3>1, <3>2, <3>3 DEF Shows
    <3> QED
      BY <3>4
  <2> QED
    BY <1>0, <1>1, <2>0, <2>1, <2>2, <2>4, <2>5 DEF Has
<1> QED
  BY <1>2, <1>3

\* SaleGoods takes what slot i of the backpack holds out of the records.
LEMMA TakenOut ==
    ASSUME GoodsAssumption, NEW p \in Players, NEW T, NEW R, NEW b, NEW h, RecordsOK(p, T, R),
           Shows(p, T, R, b, h), NEW i \in Slots(p), b[i] # NoEquip,
           NEW S, S = DelEquip(R, b[i]),
           NEW c, c = [b EXCEPT ![i] = NoEquip]
    PROVE  /\ RecordsOK(p, T, S) /\ Shows(p, T, S, c, h)
           /\ \A x : Has(S, x) <=> Has(R, x) /\ x # b[i]
           /\ \A r : r.pannle = 2 => (r \in S <=> r \in R)
<1> PICK e : e = b[i]
  OBVIOUS
<1>0. PICK q \in R : q.sn = e /\ q.pannle = 0 /\ q.position = i /\ \A x \in R : x.sn = e => x = q
  BY InSlot
<1>1. e \in Equips
  BY InSlot
<1>2. \A x : x \in S <=> x \in R /\ x.sn # e
  BY DEF DelEquip, WithoutEquip
<1>4. RecordsOK(p, T, S)
  BY <1>2 DEF RecordsOK
<1>5. Shows(p, T, S, c, h)
  <2>1. c \in [Slots(p) -> Worn] /\ h \in [HeroSlots -> Worn]
    BY DEF Shows, Worn
  <2>2. ASSUME NEW x \in Equips, NEW k \in Slots(p)
        PROVE  /\ c[k] = x => \E y \in S : y.sn = x /\ y.pannle = 0 /\ y.position = k
               /\ k \notin T => \A y \in S : y.sn = x /\ y.pannle = 0 /\ y.position = k => c[k] = x
    <3>1. /\ b[k] = x => \E y \in R : y.sn = x /\ y.pannle = 0 /\ y.position = k
          /\ k \notin T => \A y \in R : y.sn = x /\ y.pannle = 0 /\ y.position = k => b[k] = x
      BY DEF Shows
    <3>2. CASE k = i
      <4>1. c[k] = NoEquip
        BY <3>2 DEF Shows
      <4>2. k \notin T => \A y \in S : ~(y.pannle = 0 /\ y.position = k)
        BY <1>0, <1>2, <3>2 DEF RecordsOK
      <4> QED
        BY <4>1, <4>2 DEF GoodsAssumption
    <3>3. CASE k # i
      <4>1. c[k] = b[k]
        BY <3>3 DEF Shows
      <4>2. \A y : y \in S /\ y.pannle = 0 /\ y.position = k <=> y \in R /\ y.pannle = 0 /\ y.position = k
        BY <1>0, <1>2, <3>3
      <4> QED
        BY <4>1, <4>2, <3>1
    <3> QED
      BY <3>2, <3>3
  <2>3. ASSUME NEW x \in Equips, NEW k \in HeroSlots
        PROVE  h[k] = x <=> \E y \in S : y.sn = x /\ y.pannle = 1 /\ y.position = k
    <3>1. h[k] = x <=> \E y \in R : y.sn = x /\ y.pannle = 1 /\ y.position = k
      BY DEF Shows
    <3>2. \A y : y \in S /\ y.pannle = 1 <=> y \in R /\ y.pannle = 1
      BY <1>0, <1>2
    <3> QED
      BY <3>1, <3>2
  <2> QED
    BY <2>1, <2>2, <2>3 DEF Shows
<1> QED
  BY <1>0, <1>2, <1>4, <1>5 DEF Has

-----------------------------------------------------------------------------
\* SetMarket appends a good that is not listed yet.
LEMMA Listed ==
    ASSUME NEW s, NEW ix, NEW R, IndexedBy(s, ix, R), NEW g \in GoodRecords,
           \A x \in R : x.sn # g.sn,
           NEW t, t = Append(s, g), NEW Q, Q = R \cup {g},
           NEW jx, DOMAIN jx = DOMAIN ix \cup {g.sn}, jx[g.sn] = Len(s) + 1,
           \A e \in DOMAIN ix \ {g.sn} : jx[e] = ix[e]
    PROVE  IndexedBy(t, jx, Q)
<1> PICK n : n = Len(s)
  OBVIOUS
<1>1. s \in Seq(GoodRecords) /\ n \in Nat
  BY LenProperties DEF IndexedBy
<1>2. t \in Seq(GoodRecords) /\ Len(t) = n + 1 /\ t[n + 1] = g
  BY <1>1, AppendProperties
<1>3. \A i \in 1 .. n : t[i] = s[i]
  BY <1>1, AppendProperties
<1>4. g.sn \notin DOMAIN ix
  BY DEF IndexedBy
<1>5. DOMAIN jx = {x.sn : x \in R \cup {g}}
  BY DEF IndexedBy
<1>6. ASSUME NEW e \in DOMAIN jx PROVE jx[e] \in 1 .. Len(t) /\ t[jx[e]].sn = e
  <2>1. CASE e = g.sn
    BY <2>1, <1>1, <1>2
  <2>2. CASE e # g.sn
    <3>1. e \in DOMAIN ix /\ jx[e] = ix[e]
      BY <2>2
    <3>2. ix[e] \in 1 .. n /\ s[ix[e]].sn = e
      BY <3>1 DEF IndexedBy
    <3> QED
      BY <3>1, <3>2, <1>1, <1>2, <1>3
  <2> QED
    BY <2>1, <2>2
<1>7. ASSUME NEW i \in 1 .. Len(t) PROVE t[i] \in R \cup {g} /\ jx[t[i].sn] = i
  <2>1. CASE i = n + 1
    BY <2>1, <1>2
  <2>2. CASE i # n + 1
    <3>1. i \in 1 .. n /\ t[i] = s[i]
      BY <2>2, <1>1, <1>2, <1>3
    <3>2. s[i] \in R /\ ix[s[i].sn] = i
      BY <3>1 DEF IndexedBy
    <3>3. s[i].sn \in DOMAIN ix /\ s[i].sn # g.sn
      BY <3>2 DEF IndexedBy
    <3> QED
      BY <3>1, <3>2, <3>3
  <2> QED
    BY <2>1, <2>2
<1>8. ASSUME NEW x \in R \cup {g} PROVE \E i \in 1 .. Len(t) : t[i] = x
  <2>1. CASE x = g
    BY <2>1, <1>1, <1>2
  <2>2. CASE x # g
    <3>1. PICK i \in 1 .. n : s[i] = x
      BY <2>2 DEF IndexedBy
    <3> QED
      BY <3>1, <1>1, <1>2, <1>3
  <2> QED
    BY <2>1, <2>2
<1> QED
  BY <1>2, <1>5, <1>6, <1>7, <1>8 DEF IndexedBy

\* DelMarket: the last good takes the place of the one that goes.
LEMMA Delisted ==
    ASSUME NEW s, NEW ix, NEW R, IndexedBy(s, ix, R), NEW e \in DOMAIN ix,
           NEW v, v = Front([s EXCEPT ![ix[e]] = Last(s)]), NEW P, P = {g \in R : g.sn # e},
           NEW jx, jx = [x \in DOMAIN ix \ {e} |-> IF x = Last(s).sn THEN ix[e] ELSE ix[x]]
    PROVE  IndexedBy(v, jx, P)
<1> PICK n, k, last, u, t, Q :
        /\ n = Len(s) /\ k = ix[e] /\ last = s[n]
        /\ u = [s EXCEPT ![k] = last] /\ t = SubSeq(u, 1, n - 1) /\ Q = {g \in R : g.sn # e}
  OBVIOUS
<1>1. s \in Seq(GoodRecords) /\ n \in Nat /\ k \in 1 .. n /\ s[k].sn = e
  BY LenProperties DEF IndexedBy
<1>2. n >= 1 /\ last \in GoodRecords /\ last \in R /\ ix[last.sn] = n
  <2>1. n >= 1 /\ n \in 1 .. n
    BY <1>1
  <2> QED
    BY <2>1, <1>1, ElementOfSeq DEF IndexedBy
<1>3. /\ u \in Seq(GoodRecords) /\ Len(u) = n /\ u[k] = last
      /\ \A i \in 1 .. n : i # k => u[i] = s[i]
  BY <1>1, <1>2
<1>4. t \in Seq(GoodRecords) /\ Len(t) = n - 1
  BY <1>1, <1>2, <1>3, SubSeqProperties
<1>5. \A i \in 1 .. n - 1 : t[i] = u[i]
  BY <1>1, <1>2, <1>3, SubSeqProperties
<1>6. t = Front([s EXCEPT ![ix[e]] = Last(s)])
  BY <1>1, <1>3 DEF Front, Last
<1>7. jx = [x \in DOMAIN ix \ {e} |-> IF x = last.sn THEN k ELSE ix[x]]
  BY DEF Last
<1>8. DOMAIN jx = {g.sn : g \in Q}
  BY <1>7 DEF IndexedBy
<1>9. k = n <=> last.sn = e
  BY <1>1, <1>2
<1>10. ASSUME NEW x \in DOMAIN jx PROVE jx[x] \in 1 .. Len(t) /\ t[jx[x]].sn = x
  <2>1. x \in DOMAIN ix /\ x # e
    BY <1>7
  <2>2. ix[x] \in 1 .. n /\ s[ix[x]].sn = x
    BY <2>1 DEF IndexedBy
  <2>3. CASE x = last.sn
    <3>1. jx[x] = k /\ k # n
      BY <2>1, <2>3, <1>7, <1>9
    <3>2. k \in 1 .. n - 1 /\ t[k] = last
      BY <3>1, <1>1, <1>3, <1>5
    <3> QED
      BY <3>1, <3>2, <2>3, <1>4
  <2>4. CASE x # last.sn
    <3>1. jx[x] = ix[x] /\ ix[x] # n /\ ix[x] # k
      BY <2>1, <2>2, <2>4, <1>1, <1>7
    <3>2. ix[x] \in 1 .. n - 1
      BY <3>1, <2>2, <1>1
    <3> QED
      BY <3>1, <3>2, <2>2, <1>3, <1>4, <1>5
  <2> QED
    BY <2>3, <2>4
<1>11. ASSUME NEW i \in 1 .. Len(t) PROVE t[i] \in Q /\ jx[t[i].sn] = i
  <2>1. i \in 1 .. n - 1 /\ i \in 1 .. n /\ i # n /\ t[i] = u[i]
    BY <1>1, <1>2, <1>4, <1>5
  <2>2. CASE i = k
    <3>1. t[i] = last /\ last.sn # e
      BY <2>1, <2>2, <1>3, <1>9
    <3>2. last.sn \in DOMAIN ix
      BY <1>2 DEF IndexedBy
    <3> QED
      BY <3>1, <3>2, <2>2, <1>2, <1>7
  <2>3. CASE i # k
    <3>1. t[i] = s[i] /\ s[i] \in R /\ ix[s[i].sn] = i
      BY <2>1, <2>3, <1>3 DEF IndexedBy
    <3>2. s[i].sn # e /\ s[i].sn # last.sn
      BY <3>1, <2>1, <2>3, <1>2
    <3>3. s[i].sn \in DOMAIN ix
      BY <3>1 DEF IndexedBy
    <3> QED
      BY <3>1, <3>2, <3>3, <1>7
  <2> QED
    BY <2>2, <2>3
<1>12. ASSUME NEW g \in Q PROVE \E i \in 1 .. Len(t) : t[i] = g
  <2>1. g \in R /\ g.sn # e
    OBVIOUS
  <2>2. PICK i \in 1 .. n : s[i] = g
    BY <2>1 DEF IndexedBy
  <2>3. i # k
    BY <2>1, <2>2, <1>1
  <2>4. CASE i = n
    <3>1. k \in 1 .. n - 1 /\ t[k] = g
      BY <2>2, <2>3, <2>4, <1>1, <1>3, <1>5
    <3> QED
      BY <3>1, <1>4
  <2>5. CASE i # n
    <3>1. i \in 1 .. n - 1 /\ t[i] = g
      BY <2>2, <2>3, <2>5, <1>1, <1>3, <1>5
    <3> QED
      BY <3>1, <1>4
  <2> QED
    BY <2>4, <2>5
<1>13. IndexedBy(t, jx, Q)
  BY <1>4, <1>8, <1>10, <1>11, <1>12 DEF IndexedBy
<1> QED
  BY <1>6, <1>13

\* A gateway that starts again lists the records in any order.
LEMMA Relisted ==
    ASSUME NEW s, NEW ix, NEW R, IndexedBy(s, ix, R), NEW t \in SetToSeqs(R),
           NEW jx, jx = [e \in {g.sn : g \in R} |-> CHOOSE i \in DOMAIN t : t[i].sn = e]
    PROVE  IndexedBy(t, jx, R)
<1> PICK n, c : n = Len(s) /\ c = Cardinality(R)
  OBVIOUS
<1>1. n \in Nat /\ s \in [1 .. n -> R] /\ R \subseteq GoodRecords
  <2>1. s \in Seq(GoodRecords) /\ DOMAIN s = 1 .. n /\ n \in Nat
    BY LenProperties DEF IndexedBy
  <2>2. \A i \in 1 .. n : s[i] \in R
    BY DEF IndexedBy
  <2>3. s \in [1 .. n -> R]
    BY <2>1, <2>2
  <2>4. \A i \in 1 .. n : s[i] \in GoodRecords
    BY <2>1, ElementOfSeq
  <2> QED
    BY <2>1, <2>3, <2>4 DEF IndexedBy
<1>2. IsFiniteSet(R) /\ c \in Nat
  <2>1. s \in Surjection(1 .. n, R)
    BY <1>1 DEF Surjection, IndexedBy
  <2>2. IsFiniteSet(1 .. n)
    BY <1>1, FS_Interval
  <2>3. IsFiniteSet(R)
    BY <2>1, <2>2, FS_Surjection
  <2> QED
    BY <2>3, FS_CardinalityType
<1>3. t \in [1 .. c -> R] /\ \A i, j \in 1 .. c : t[i] = t[j] => i = j
  BY DEF SetToSeqs
<1>4. \A g \in R : \E i \in 1 .. c : t[i] = g
  <2>1. t \in Injection(1 .. c, R)
    BY <1>3 DEF Injection, IsInjective
  <2>2. Cardinality(1 .. c) = c
    BY <1>2, FS_Interval
  <2>3. t \in Surjection(1 .. c, R)
    BY <2>1, <2>2, <1>2, FS_Injection
  <2> QED
    BY <2>3 DEF Surjection
<1>5. t \in Seq(GoodRecords) /\ Len(t) = c /\ DOMAIN t = 1 .. c
  <2>1. t \in [1 .. c -> GoodRecords]
    BY <1>1, <1>3
  <2> QED
    BY <2>1, <1>2, SeqDef
<1>6. \A g, h \in R : g.sn = h.sn => g = h
  <2> SUFFICES ASSUME NEW g \in R, NEW h \in R, g.sn = h.sn PROVE g = h
    OBVIOUS
  <2>1. PICK i \in 1 .. n : s[i] = g
    BY DEF IndexedBy
  <2>2. PICK j \in 1 .. n : s[j] = h
    BY DEF IndexedBy
  <2>3. ix[g.sn] = i /\ ix[h.sn] = j
    BY <2>1, <2>2 DEF IndexedBy
  <2> QED
    BY <2>1, <2>2, <2>3
<1>7. ASSUME NEW e \in DOMAIN jx
      PROVE  /\ jx[e] \in 1 .. c /\ t[jx[e]].sn = e
             /\ \A i \in 1 .. c : t[i].sn = e => i = jx[e]
  <2>1. PICK g \in R : g.sn = e
    OBVIOUS
  <2>2. PICK i \in 1 .. c : t[i] = g
    BY <1>4
  <2>3. jx[e] \in 1 .. c /\ t[jx[e]].sn = e
    BY <2>1, <2>2, <1>5
  <2>4. ASSUME NEW j \in 1 .. c, t[j].sn = e PROVE j = jx[e]
    <3>1. t[j] \in R /\ t[jx[e]] \in R
      BY <2>3, <1>3
    <3> QED
      BY <3>1, <2>3, <2>4, <1>3, <1>6
  <2> QED
    BY <2>3, <2>4
<1>8. ASSUME NEW i \in 1 .. c PROVE t[i] \in R /\ jx[t[i].sn] = i
  <2>1. t[i] \in R
    BY <1>3
  <2>2. t[i].sn \in DOMAIN jx
    BY <2>1
  <2> QED
    BY <2>1, <2>2, <1>7
<1> QED
  BY <1>4, <1>5, <1>7, <1>8 DEF IndexedBy

-----------------------------------------------------------------------------
\* With the e-mail m, number n, the records R become S: those of e-mails stay, and if m
\* brings an equip there is a record that says so.
Carried(R, S, m, n) ==
    /\ \A r \in S : r.pannle = 2 => r \in R \/ (r.mail = n /\ m.diamond = 0)
    /\ \A r \in R : r.pannle = 2 => r \in S
    /\ m.diamond = 0 => \E r \in S : r.pannle = 2 /\ r.sn = m.equip /\ r.mail = n

\* An e-mail m is sent: to say what a good brought, or to bring an equip back.
LEMMA MailSent ==
    ASSUME NEW R, NEW M, NEW n \in Nat, MailsOK(R, M, n), NEW S, NEW m \in MailRecords, m.id = n,
           Carried(R, S, m, n),
           NEW N, N = M \cup {m}, NEW L, NEW K, K = L \cup {m}, NEW k, k = n + 1
    PROVE  MailsOK(S, N, k) /\ (MailsShown(R, L, M) => MailsShown(S, K, N))
<1>0. /\ \A r \in S : r.pannle = 2 => r \in R \/ (r.mail = n /\ m.diamond = 0)
      /\ \A r \in R : r.pannle = 2 => r \in S
      /\ m.diamond = 0 => \E r \in S : r.pannle = 2 /\ r.sn = m.equip /\ r.mail = n
  BY DEF Carried
<1>1. N \subseteq MailRecords
  BY DEF MailsOK
<1>2. ASSUME NEW x \in N PROVE x.id < k
  <2>1. x.id \in Nat
    BY <1>1 DEF MailRecords
  <2>2. x = m \/ x.id < n
    BY DEF MailsOK
  <2> QED
    BY <2>1, <2>2
<1>3. ASSUME NEW x \in M PROVE x.id # n
  <2>1. x.id \in Nat /\ x.id < n
    BY DEF MailsOK, MailRecords
  <2> QED
    BY <2>1
<1>4. \A x, y \in N : x.id = y.id => x = y
  BY <1>3 DEF MailsOK
<1>5. ASSUME NEW r \in S, r.pannle = 2
      PROVE  r.mail \in Nat /\ r.mail < k /\ \A x \in N : r.mail = x.id => x.diamond = 0
  <2>1. CASE r \in R
    <3>1. r.mail \in Nat /\ r.mail < n
      BY <2>1, <1>5 DEF MailsOK
    <3>2. \A x \in M : r.mail = x.id => x.diamond = 0
      BY <2>1, <1>5 DEF MailsOK
    <3> QED
      BY <3>1, <3>2
  <2>2. CASE r \notin R
    <3>1. r.mail = n /\ m.diamond = 0
      BY <2>2, <1>0, <1>5
    <3> QED
      BY <3>1, <1>3
  <2> QED
    BY <2>1, <2>2
<1>6. MailsOK(S, N, k)
  BY <1>1, <1>2, <1>4, <1>5 DEF MailsOK
<1>7. ASSUME MailsShown(R, L, M) PROVE MailsShown(S, K, N)
  <2>1. K \subseteq MailRecords
    BY <1>7 DEF MailsShown
  <2>2. \A x \in MailRecords : x.diamond > 0 => (x \in K <=> x \in N)
    BY <1>7 DEF MailsShown
  <2>3. ASSUME NEW x \in K, x.diamond = 0
        PROVE  \E r \in S : r.pannle = 2 /\ r.sn = x.equip /\ r.mail = x.id
    BY <1>0, <1>7, <2>3 DEF MailsShown
  <2> QED
    BY <2>1, <2>2, <2>3 DEF MailsShown
<1> QED
  BY <1>6, <1>7

\* An e-mail m is taken: the equip it brings moves, or stays to be brought again.
LEMMA MailTaken ==
    ASSUME NEW p, NEW T, NEW R, NEW M, NEW L, NEW n \in Nat, RecordsOK(p, T, R), MailsOK(R, M, n),
           MailsShown(R, L, M), NEW m \in L, NEW S,
           \A r \in S : r.pannle = 2 => r \in R,
           \/ S = R
           \/ m.diamond = 0 /\ \A r \in R : r.sn # m.equip => r \in S
    PROVE  MailsOK(S, MailDropped(M, m), n) /\ MailsShown(S, L \ {m}, MailDropped(M, m))
<1> PICK N : N = MailDropped(M, m)
  OBVIOUS
<1>1. \A k : k \in N <=> k \in M /\ k.id # m.id
  BY DEF MailDropped
<1>2. MailsOK(S, N, n)
  BY <1>1 DEF MailsOK
<1>3. m \in MailRecords /\ m.diamond \in Nat
  BY DEF MailsShown, MailRecords
<1>4. \A k \in MailRecords : k.diamond > 0 => (k \in L \ {m} <=> k \in N)
  <2> SUFFICES ASSUME NEW k \in MailRecords, k.diamond > 0 PROVE k \in L \ {m} <=> k \in N
    OBVIOUS
  <2>1. k \in L <=> k \in M
    BY DEF MailsShown
  <2>2. CASE m.diamond > 0
    <3>1. m \in M
      BY <2>2, <1>3 DEF MailsShown
    <3> QED
      BY <3>1, <2>1, <1>1 DEF MailsOK
  <2>3. CASE m.diamond = 0
    <3>1. PICK r \in R : r.pannle = 2 /\ r.mail = m.id
      BY <2>3 DEF MailsShown
    <3>2. k \in M => k.id # m.id
      BY <3>1 DEF MailsOK
    <3> QED
      BY <3>2, <2>1, <2>3, <1>1
  <2> QED
    BY <2>2, <2>3, <1>3
<1>5. ASSUME NEW k \in L \ {m}, k.diamond = 0
      PROVE  \E r \in S : r.pannle = 2 /\ r.sn = k.equip /\ r.mail = k.id
  <2>1. PICK r \in R : r.pannle = 2 /\ r.sn = k.equip /\ r.mail = k.id
    BY <1>5 DEF MailsShown
  <2>2. CASE S = R
    BY <2>1, <2>2
  <2>3. CASE S # R
    <3>1. m.diamond = 0 /\ \A x \in R : x.sn # m.equip => x \in S
      BY <2>3
    <3>2. PICK q \in R : q.pannle = 2 /\ q.sn = m.equip /\ q.mail = m.id
      BY <3>1 DEF MailsShown
    <3>3. k.equip # m.equip
      <4> SUFFICES ASSUME k.equip = m.equip PROVE FALSE
        OBVIOUS
      <4>1. q = r
        BY <2>1, <3>2 DEF RecordsOK
      <4>2. k \in MailRecords /\ k.id = m.id /\ k.diamond = m.diamond
        BY <4>1, <2>1, <3>1, <3>2, <1>5 DEF MailsShown
      <4> QED
        BY <4>2, <1>3 DEF MailRecords
    <3> QED
      BY <3>1, <3>3, <2>1
  <2> QED
    BY <2>2, <2>3
<1>6. MailsShown(S, L \ {m}, N)
  BY <1>4, <1>5 DEF MailsShown
<1> QED
  BY <1>2, <1>6

\* What a player has in memory and in redis does not change.
Same(q) ==
    /\ my_backpack'[q] = my_backpack[q] /\ hero_equip'[q] = hero_equip[q]
    /\ email_list'[q] = email_list[q] /\ mail_records'[q] = mail_records[q]
    /\ equip_records'[q] = equip_records[q] /\ torn'[q] = torn[q]

\* What RecordsKept and Shown say of one player.
KeptOf(q) ==
    /\ RecordsOK(q, torn[q], equip_records[q]) /\ MailsOK(equip_records[q], mail_records[q], mails)
ShownOf(q) ==
    /\ Shows(q, torn[q], equip_records[q], my_backpack[q], hero_equip[q])
    /\ MailsShown(equip_records[q], email_list[q], mail_records[q])

\* E-mails that are sent later have larger ids.
LEMMA Later ==
    ASSUME NEW R, NEW M, NEW n \in Nat, NEW k \in Nat, n <= k, MailsOK(R, M, n)
    PROVE  MailsOK(R, M, k)
<1>1. \A m \in M : m.id \in Nat /\ m.id < k
  BY DEF MailsOK, MailRecords
<1>2. \A r \in R : r.pannle = 2 => r.mail \in Nat /\ r.mail < k
  BY DEF MailsOK
<1> QED
  BY <1>1, <1>2 DEF MailsOK

\* A player whose goods a step leaves alone.
LEMMA Unmoved ==
    ASSUME GoodsInv, NEW q \in Players, Same(q), mails' \in Nat, mails <= mails'
    PROVE  KeptOf(q)' /\ (q \in connected => ShownOf(q)')
<1> PICK T, R, M, n, k : /\ R = equip_records[q] /\ M = mail_records[q] /\ n = mails /\ k = mails'
                         /\ T = torn[q] /\ T = torn'[q]
                         /\ R = equip_records'[q] /\ M = mail_records'[q]
  BY DEF Same
<1>1. RecordsOK(q, T, R) /\ MailsOK(R, M, n) /\ n \in Nat /\ k \in Nat /\ n <= k
  BY DEF GoodsInv, RecordsKept, GoodsTypes
<1>2. MailsOK(R, M, k)
  BY <1>1, Later
<1>3. KeptOf(q)'
  BY <1>1, <1>2 DEF KeptOf
<1>4. ASSUME q \in connected PROVE ShownOf(q)'
  <2>1. ShownOf(q)
    BY <1>4 DEF GoodsInv, Shown, ShownOf
  <2> QED
    BY <2>1 DEF ShownOf, Same
<1> QED
  BY <1>3, <1>4

\* The parts of the invariant, player by player.
LEMMA ByPlayer ==
    /\ RecordsKept' <=> \A q \in Players : KeptOf(q)'
    /\ Shown' <=> \A q \in connected' : ShownOf(q)'
    /\ RecordsKept <=> \A q \in Players : KeptOf(q)
    /\ Shown <=> \A q \in connected : ShownOf(q)
BY DEF RecordsKept, Shown, KeptOf, ShownOf

\* No equip changes hands.
LEMMA SamePlaces ==
    ASSUME OnePlace, \A q \in Players : \A e : Has(equip_records'[q], e) <=> Has(equip_records[q], e),
           market_records' = market_records, made' = made, lost' = lost
    PROVE  OnePlace'
<1>1. \A e : OnSale(e)' <=> OnSale(e)
  BY DEF OnSale
<1> QED
  BY <1>1 DEF OnePlace

SameShop == shop' = shop

\* A step that leaves the market alone.
LEMMA ShopStays == ASSUME Indexed, SameShop PROVE Indexed' /\ market_records' = market_records
BY DEF Indexed, IndexedBy, SameShop, shop

\* Between the handlers nothing is out of place at the start.
LEMMA InitGoods == GoodsAssumption /\ GoodsInit => GoodsInv
<1> SUFFICES ASSUME GoodsAssumption, GoodsInit PROVE GoodsInv
  OBVIOUS
<1>1. GoodsTypes
  BY DEF GoodsInit, GoodsTypes
<1>2. RecordsKept
  BY DEF GoodsInit, RecordsKept, RecordsOK, MailsOK
<1>3. Shown
  BY DEF GoodsInit, Shown
<1>4. OnePlace
  BY DEF GoodsInit, OnePlace, Has, OnSale
<1>5. Indexed
  BY DEF GoodsInit, Indexed, IndexedBy
<1> QED
  BY <1>1, <1>2, <1>3, <1>4, <1>5 DEF GoodsInv

\* The slots f show what the records R say of slots D of backpack or hero, but for the
\* torn slots T of the backpack.
FillOK(f, n, D, T, R) ==
    /\ f \in [D -> Worn]
    /\ \A e \in Equips, i \in D :
         /\ f[i] = e => \E r \in R : r.sn = e /\ r.pannle = n /\ r.position = i
         /\ ~(n = 0 /\ i \in T) =>
               \A r \in R : r.sn = e /\ r.pannle = n /\ r.position = i => f[i] = e

\* A login fills every slot with an equip that has it in the records, if there is one.
LEMMA FilledFrom ==
    ASSUME GoodsAssumption, NEW p \in Players, NEW T, NEW R, R = equip_records[p],
           RecordsOK(p, T, R), NEW n \in 0 .. 1, NEW D, NEW f \in Filled(p, n, D)
    PROVE  FillOK(f, n, D, T, R)
<1>1. f \in [D -> Worn]
  BY DEF Filled, Worn
<1>2. ASSUME NEW e \in Equips, NEW i \in D, f[i] = e
      PROVE  \E r \in R : r.sn = e /\ r.pannle = n /\ r.position = i
  <2>1. At(p, n, i) # {} /\ f[i] \in At(p, n, i)
    BY <1>2 DEF Filled, GoodsAssumption
  <2> QED
    BY <1>2, <2>1 DEF At
<1>3. ASSUME NEW e \in Equips, NEW i \in D, ~(n = 0 /\ i \in T), NEW r \in R, r.sn = e,
             r.pannle = n, r.position = i
      PROVE  f[i] = e
  <2>1. e \in At(p, n, i)
    BY <1>3 DEF At
  <2>2. f[i] \in At(p, n, i)
    BY <2>1 DEF Filled
  <2>3. PICK x \in R : x.sn = f[i] /\ x.pannle = n /\ x.position = i
    BY <2>2 DEF At
  <2>4. n # 2
    OBVIOUS
  <2>5. x = r
    BY <1>3, <2>3, <2>4 DEF RecordsOK
  <2> QED
    BY <1>3, <2>3, <2>5
<1> QED
  BY <1>1, <1>2, <1>3 DEF FillOK

\* The login reads every slot from the records, and every e-mail from one of the two
\* kinds of records.
LEMMA LoginKeeps ==
    ASSUME GoodsAssumption, GoodsInv, NEW p \in Players, GoodsLogin(p)
    PROVE  GoodsInv'
<1> PICK T, R, M : /\ T = torn[p] /\ R = equip_records[p] /\ M = mail_records[p]
  OBVIOUS
<1>0. /\ GoodsTypes /\ OnePlace /\ Indexed /\ RecordsOK(p, T, R) /\ MailsOK(R, M, mails)
      /\ equip_records' = equip_records /\ mail_records' = mail_records /\ mails' = mails
      /\ connected' = connected \cup {p} /\ made' = made /\ shop' = shop /\ lost' = lost /\ torn' = torn
  BY DEF GoodsInv, RecordsKept, GoodsLogin
<1>1. GoodsTypes'
  BY <1>0 DEF GoodsTypes, GoodsLogin
<1>2. PICK b \in Filled(p, 0, Slots(p)), h \in Filled(p, 1, HeroSlots) :
        /\ my_backpack' = [my_backpack EXCEPT ![p] = b]
        /\ hero_equip' = [hero_equip EXCEPT ![p] = h]
  BY DEF GoodsLogin
<1>3. KeptOf(p)' /\ ShownOf(p)'
  <2> PICK L : L = MailsOf(p)
    OBVIOUS
  <2>1. Shows(p, T, R, b, h)
    <3>0. 0 \in 0 .. 1 /\ 1 \in 0 .. 1
      OBVIOUS
    <3>3. FillOK(b, 0, Slots(p), T, R)
      BY <1>0, <3>0, FilledFrom
    <3>4. FillOK(h, 1, HeroSlots, T, R)
      BY <1>0, <3>0, FilledFrom
    <3>1. /\ b \in [Slots(p) -> Worn]
          /\ \A e \in Equips, i \in Slots(p) :
               /\ b[i] = e => \E r \in R : r.sn = e /\ r.pannle = 0 /\ r.position = i
               /\ i \notin T => \A r \in R : r.sn = e /\ r.pannle = 0 /\ r.position = i => b[i] = e
      BY <3>3 DEF FillOK
    <3>2. /\ h \in [HeroSlots -> Worn]
          /\ \A e \in Equips, i \in HeroSlots :
               /\ h[i] = e => \E r \in R : r.sn = e /\ r.pannle = 1 /\ r.position = i
               /\ \A r \in R : r.sn = e /\ r.pannle = 1 /\ r.position = i => h[i] = e
      BY <3>4 DEF FillOK
    <3> QED
      BY <3>1, <3>2 DEF Shows
  <2>2. MailsShown(R, L, M)
    <3>0. L = {m \in M : m.diamond > 0} \cup {Mail(r.mail, 0, r.sn) : r \in {x \in R : x.pannle = 2}}
      BY DEF MailsOf
    <3>1. ASSUME NEW r \in R, r.pannle = 2
          PROVE  Mail(r.mail, 0, r.sn) \in MailRecords
      BY <3>1, <1>0 DEF RecordsOK, MailsOK, EquipRecords, Mail, MailRecords, Worn
    <3>2. M \subseteq MailRecords
      BY <1>0 DEF MailsOK
    <3>3. L \subseteq MailRecords
      BY <3>0, <3>1, <3>2
    <3>4. \A m \in MailRecords : m.diamond > 0 => (m \in L <=> m \in M)
      BY <3>0 DEF Mail
    <3>5. ASSUME NEW m \in L, m.diamond = 0
          PROVE  \E r \in R : r.pannle = 2 /\ r.sn = m.equip /\ r.mail = m.id
      BY <3>0, <3>5 DEF Mail
    <3> QED
      BY <3>3, <3>4, <3>5 DEF MailsShown
  <2>3. my_backpack'[p] = b /\ hero_equip'[p] = h /\ email_list'[p] = L
    BY <1>0, <1>2 DEF GoodsLogin, GoodsTypes
  <2> QED
    BY <2>1, <2>2, <2>3, <1>0 DEF KeptOf, ShownOf
<1>4. ASSUME NEW q \in Players, q # p PROVE KeptOf(q)' /\ (q \in connected => ShownOf(q)')
  <2>1. Same(q)
    BY <1>0, <1>4 DEF Same, GoodsLogin, GoodsTypes
  <2> QED
    BY <2>1, <1>0, Unmoved DEF GoodsTypes
<1>5. RecordsKept' /\ Shown'
  BY <1>0, <1>3, <1>4, ByPlayer DEF GoodsTypes
<1>6. OnePlace'
  BY <1>0, SamePlaces DEF shop
<1> QED
  BY <1>0, <1>1, <1>5, <1>6, ShopStays DEF GoodsInv, SameShop

\* A connection that closes takes its memory with it.
LEMMA CloseKeeps ==
    ASSUME GoodsInv, NEW p \in Players, GoodsClose(p)
    PROVE  GoodsInv'
<1>0. /\ GoodsTypes /\ OnePlace /\ Indexed
      /\ equip_records' = equip_records /\ mail_records' = mail_records /\ mails' = mails
      /\ connected' = connected \ {p} /\ made' = made /\ shop' = shop /\ lost' = lost /\ torn' = torn
  BY DEF GoodsInv, GoodsClose
<1>1. GoodsTypes'
  BY <1>0 DEF GoodsTypes, GoodsClose
<1>2. RecordsKept'
  BY <1>0 DEF GoodsInv, RecordsKept
<1>3. ASSUME NEW q \in connected' PROVE ShownOf(q)'
  <2>1. Same(q) /\ q \in connected /\ q \in Players
    BY <1>0 DEF Same, GoodsClose, GoodsTypes
  <2> QED
    BY <2>1, <1>0, Unmoved DEF GoodsTypes
<1>4. OnePlace'
  BY <1>0, SamePlaces DEF shop
<1> QED
  BY <1>0, <1>1, <1>2, <1>3, <1>4, ShopStays, ByPlayer DEF GoodsInv, SameShop

\* What the records of the players are functions of.
RecordTypes ==
    /\ DOMAIN equip_records = Players /\ equip_records = [p \in Players |-> equip_records[p]]
    /\ DOMAIN mail_records = Players /\ mail_records = [p \in Players |-> mail_records[p]]
    /\ DOMAIN torn = Players /\ torn = [p \in Players |-> torn[p]]

\* A gateway that starts again, with all goods of the market or all but one, has what the
\* records say and nobody who is connected.
LEMMA RestartKeeps ==
    ASSUME GoodsInv, NEW Q, Restart(Q),
           \/ Q = market_records
           \/ \E e \in DOMAIN market_index : Q = {g \in market_records : g.sn # e},
           made' = made, mails' = mails, RecordTypes', RecordsKept', OnePlace'
    PROVE  GoodsInv'
<1>0. /\ GoodsTypes /\ Indexed /\ connected' = {} /\ market_records' = Q
      /\ my_backpack' = [p \in Players |-> Empty(Slots(p))]
      /\ hero_equip' = [p \in Players |-> Empty(HeroSlots)]
      /\ email_list' = [p \in Players |-> {}]
  BY DEF GoodsInv, Restart
<1>1. GoodsTypes'
  <2>1. /\ DOMAIN my_backpack' = Players /\ my_backpack' = [q \in Players |-> my_backpack'[q]]
        /\ DOMAIN hero_equip' = Players /\ hero_equip' = [q \in Players |-> hero_equip'[q]]
        /\ DOMAIN email_list' = Players /\ email_list' = [q \in Players |-> email_list'[q]]
    BY <1>0
  <2> QED
    BY <1>0, <2>1 DEF GoodsTypes, RecordTypes
<1>2. Shown'
  BY <1>0 DEF Shown
<1>3. \E s, ix : IndexedBy(s, ix, Q)
  <2>1. CASE Q = market_records
    BY <1>0, <2>1 DEF Indexed
  <2>2. ASSUME NEW e \in DOMAIN market_index, Q = {g \in market_records : g.sn # e}
        PROVE  \E s, ix : IndexedBy(s, ix, Q)
    <3> PICK s, ix, R : s = market /\ ix = market_index /\ R = market_records
      OBVIOUS
    <3>1. IndexedBy(s, ix, R) /\ e \in DOMAIN ix /\ Q = {g \in R : g.sn # e}
      BY <1>0, <2>2 DEF Indexed
    <3>2. PICK v, jx : /\ v = Front([s EXCEPT ![ix[e]] = Last(s)])
                       /\ jx = [x \in DOMAIN ix \ {e} |-> IF x = Last(s).sn THEN ix[e] ELSE ix[x]]
      OBVIOUS
    <3>3. IndexedBy(v, jx, Q)
      BY <3>1, <3>2, Delisted
    <3> QED
      BY <3>3
  <2> QED
    BY <2>1, <2>2
<1>4. Indexed'
  <2>1. PICK t \in SetToSeqs(Q) :
          /\ market' = t
          /\ market_index' = [e \in {g.sn : g \in Q} |-> CHOOSE i \in DOMAIN t : t[i].sn = e]
    BY DEF Restart
  <2>2. IndexedBy(market', market_index', Q)
    BY <2>1, <1>3, Relisted
  <2> QED
    BY <2>2, <1>0 DEF Indexed
<1> QED
  BY <1>1, <1>2, <1>4 DEF GoodsInv

\* The gateway ends, and no record of a player has changed: the good whose record is
\* deleted is lost.
LEMMA CutKeeps ==
    ASSUME GoodsInv, NEW Q, Restart(Q), NEW D,
           \/ D = {} /\ Q = market_records
           \/ \E e \in DOMAIN market_index : D = {e} /\ Q = {g \in market_records : g.sn # e},
           lost' = lost \cup D, UNCHANGED << equip_records, mail_records, made, mails, torn >>
    PROVE  GoodsInv'
<1>0. /\ GoodsTypes /\ OnePlace /\ Indexed /\ market_records' = Q
      /\ equip_records' = equip_records /\ mail_records' = mail_records /\ mails' = mails
      /\ made' = made /\ torn' = torn
  BY DEF GoodsInv, Restart
<1>1. RecordTypes' /\ RecordsKept'
  BY <1>0 DEF GoodsInv, GoodsTypes, RecordTypes, RecordsKept
<1>2. D \subseteq {g.sn : g \in market_records}
  BY <1>0 DEF Indexed, IndexedBy
<1>3. \A x : OnSale(x)' <=> OnSale(x) /\ x \notin D
  BY <1>0 DEF OnSale
<1>4. \A x \in D : OnSale(x)
  BY <1>2 DEF OnSale
<1>5. OnePlace'
  <2>1. lost' \subseteq made'
    <3>1. \A x \in D : x \in Equips
      <4>1. \A g \in market_records : g \in GoodRecords
        <5>1. market \in Seq(GoodRecords) /\ \A g \in market_records : \E i \in 1 .. Len(market) : market[i] = g
          BY <1>0 DEF Indexed, IndexedBy
        <5> QED
          BY <5>1, ElementOfSeq
      <4> QED
        BY <1>2, <4>1 DEF GoodRecords
    <3> QED
      BY <1>0, <1>4, <3>1 DEF OnePlace
  <2>2. \A p \in Players, x \in Equips : ~(Has(equip_records[p], x) /\ OnSale(x))
    BY <1>0 DEF OnePlace
  <2>3. \A x \in Equips :
          x \in made' \ lost' <=> (OnSale(x)' \/ \E p \in Players : Has(equip_records'[p], x))
    <3> TAKE x \in Equips
    <3>1. x \in made \ lost <=> (OnSale(x) \/ \E p \in Players : Has(equip_records[p], x))
      BY <1>0 DEF OnePlace
    <3>2. CASE x \in D
      BY <3>2, <1>0, <1>3, <1>4, <2>2
    <3>3. CASE x \notin D
      BY <3>1, <3>3, <1>0, <1>3
    <3> QED
      BY <3>2, <3>3
  <2> QED
    BY <1>0, <1>3, <2>1, <2>3 DEF OnePlace
<1> QED
  BY <1>0, <1>1, <1>5, RestartKeeps

\* The facts about player p that every handler starts from.
LEMMA OnlinePlayer ==
    ASSUME GoodsInv, NEW p \in connected
    PROVE  /\ p \in Players
           /\ RecordsOK(p, torn[p], equip_records[p]) /\ MailsOK(equip_records[p], mail_records[p], mails)
           /\ Shows(p, torn[p], equip_records[p], my_backpack[p], hero_equip[p])
           /\ MailsShown(equip_records[p], email_list[p], mail_records[p])
BY DEF GoodsInv, GoodsTypes, RecordsKept, Shown

\* Records that keep the e-mails that bring an equip back keep the e-mails in order.
LEMMA MailsStay ==
    ASSUME NEW R, NEW S, NEW M, NEW L, NEW n, MailsOK(R, M, n), MailsShown(R, L, M),
           \A r \in S : r.pannle = 2 => r \in R, \A r \in R : r.pannle = 2 => r \in S
    PROVE  MailsOK(S, M, n) /\ MailsShown(S, L, M)
BY DEF MailsOK, MailsShown

\* An equip that was not found before is at nobody.
LEMMA OpenBoxKeeps ==
    ASSUME GoodsAssumption, GoodsInv, NEW p \in Players, OpenBox(p)
    PROVE  GoodsInv'
<1> PICK T, R, b, h, i : /\ T = torn[p] /\ R = equip_records[p] /\ b = my_backpack[p] /\ h = hero_equip[p] /\ i = Smallest(Free(p))
  OBVIOUS
<1> PICK e \in Equips \ made :
        /\ made' = made \cup {e}
        /\ my_backpack' = [my_backpack EXCEPT ![p][i] = e]
        /\ equip_records' = [equip_records EXCEPT ![p] = WithEquip(R, EquipRecord(e, 0, i, NoEquip))]
  BY DEF OpenBox
<1> PICK S, c : S = WithEquip(R, EquipRecord(e, 0, i, NoEquip)) /\ c = [b EXCEPT ![i] = e]
  OBVIOUS
<1>0. /\ GoodsTypes /\ OnePlace /\ Indexed /\ p \in connected
      /\ connected' = connected /\ shop' = shop /\ mails' = mails /\ lost' = lost /\ torn' = torn
      /\ hero_equip' = hero_equip /\ email_list' = email_list /\ mail_records' = mail_records
      /\ market_records' = market_records
  BY DEF GoodsInv, OpenBox, shop
<1>1. i \in Slots(p) /\ b[i] = NoEquip
  BY FoundSlot DEF OpenBox
<1>2. RecordsOK(p, T, R) /\ Shows(p, T, R, b, h) /\ MailsOK(R, mail_records[p], mails)
        /\ MailsShown(R, email_list[p], mail_records[p])
  BY <1>0, OnlinePlayer
<1>3. \A q \in Players : ~Has(equip_records[q], e)
  BY <1>0 DEF OnePlace
<1>4. ~OnSale(e)
  BY <1>0 DEF OnePlace
<1>5. \A r \in R : r.sn # e
  BY <1>3 DEF Has
<1>6. /\ RecordsOK(p, T, S) /\ Shows(p, T, S, c, h)
      /\ \A x : Has(S, x) <=> Has(R, x) \/ x = e
      /\ \A r \in S : r.pannle = 2 => r \in R
      /\ \A r \in R : r.sn # e => r \in S
  BY <1>1, <1>2, <1>5, PutInBackpack
<1>7. MailsOK(S, mail_records[p], mails) /\ MailsShown(S, email_list[p], mail_records[p])
  BY <1>2, <1>5, <1>6, MailsStay
<1>8. GoodsTypes'
  BY <1>0 DEF GoodsTypes
<1>9. my_backpack'[p] = c /\ equip_records'[p] = S
  BY <1>0 DEF GoodsTypes
<1>10. KeptOf(p)' /\ ShownOf(p)'
  BY <1>0, <1>6, <1>7, <1>9 DEF KeptOf, ShownOf
<1>11. ASSUME NEW q \in Players, q # p PROVE KeptOf(q)' /\ (q \in connected => ShownOf(q)')
  <2>1. Same(q)
    BY <1>0, <1>11 DEF Same, GoodsTypes
  <2> QED
    BY <2>1, <1>0, Unmoved DEF GoodsTypes
<1>12. RecordsKept' /\ Shown'
  BY <1>0, <1>10, <1>11, ByPlayer DEF GoodsTypes
<1>13. OnePlace'
  <2>1. \A q \in Players : \A x : Has(equip_records'[q], x) <=> Has(equip_records[q], x) \/ (q = p /\ x = e)
    BY <1>0, <1>6, <1>9 DEF GoodsTypes
  <2>2. \A x : OnSale(x)' <=> OnSale(x)
    BY <1>0 DEF OnSale
  <2> QED
    BY <1>0, <1>3, <1>4, <2>1, <2>2 DEF OnePlace
<1> QED
  BY <1>0, <1>8, <1>12, <1>13, ShopStays DEF GoodsInv, SameShop

\* What is exchanged between backpack and hero stays at the player.
LEMMA DressKeeps ==
    ASSUME GoodsAssumption, GoodsInv, NEW p \in Players, NEW i \in Slots(p), NEW j \in HeroSlots,
           DressEquip(p, i, j)
    PROVE  GoodsInv'
<1> PICK T, R, b, h, S, c, d :
        /\ T = torn[p] /\ R = equip_records[p] /\ b = my_backpack[p] /\ h = hero_equip[p]
        /\ S = Exchanged(R, EquipRecord(b[i], 1, j, NoEquip), EquipRecord(h[j], 0, i, NoEquip))
        /\ c = [b EXCEPT ![i] = h[j]] /\ d = [h EXCEPT ![j] = b[i]]
  OBVIOUS
<1>0. /\ GoodsTypes /\ OnePlace /\ Indexed /\ p \in connected /\ b[i] # NoEquip
      /\ connected' = connected /\ shop' = shop /\ mails' = mails /\ made' = made
      /\ lost' = lost /\ torn' = torn
      /\ email_list' = email_list /\ mail_records' = mail_records
      /\ market_records' = market_records
      /\ my_backpack' = [my_backpack EXCEPT ![p][i] = h[j]]
      /\ hero_equip' = [hero_equip EXCEPT ![p][j] = b[i]]
      /\ equip_records' = [equip_records EXCEPT ![p] = S]
  BY DEF GoodsInv, DressEquip, shop
<1>2. RecordsOK(p, T, R) /\ Shows(p, T, R, b, h) /\ MailsOK(R, mail_records[p], mails)
        /\ MailsShown(R, email_list[p], mail_records[p])
  BY <1>0, OnlinePlayer
<1>6. /\ RecordsOK(p, T, S) /\ Shows(p, T, S, c, d)
      /\ \A x : Has(S, x) <=> Has(R, x)
      /\ \A r : r.pannle = 2 => (r \in S <=> r \in R)
  BY <1>0, <1>2, PutOn
<1>7. MailsOK(S, mail_records[p], mails) /\ MailsShown(S, email_list[p], mail_records[p])
  BY <1>2, <1>6, MailsStay
<1>8. GoodsTypes'
  BY <1>0 DEF GoodsTypes
<1>9. my_backpack'[p] = c /\ hero_equip'[p] = d /\ equip_records'[p] = S
  BY <1>0 DEF GoodsTypes
<1>10. KeptOf(p)' /\ ShownOf(p)'
  BY <1>0, <1>6, <1>7, <1>9 DEF KeptOf, ShownOf
<1>11. ASSUME NEW q \in Players, q # p PROVE KeptOf(q)' /\ (q \in connected => ShownOf(q)')
  <2>1. Same(q)
    BY <1>0, <1>11 DEF Same, GoodsTypes
  <2> QED
    BY <2>1, <1>0, Unmoved DEF GoodsTypes
<1>12. RecordsKept' /\ Shown'
  BY <1>0, <1>10, <1>11, ByPlayer DEF GoodsTypes
<1>13. OnePlace'
  <2>1. \A q \in Players : \A x : Has(equip_records'[q], x) <=> Has(equip_records[q], x)
    BY <1>0, <1>6, <1>9 DEF GoodsTypes
  <2> QED
    BY <1>0, <2>1, SamePlaces
<1> QED
  BY <1>0, <1>8, <1>12, <1>13, ShopStays DEF GoodsInv, SameShop

\* What the hero takes off goes to a free slot.
LEMMA UnloadKeeps ==
    ASSUME GoodsAssumption, GoodsInv, NEW p \in Players, NEW j \in HeroSlots, UnloadEquip(p, j)
    PROVE  GoodsInv'
<1> PICK T, R, b, h, i, S, c, d :
        /\ T = torn[p] /\ R = equip_records[p] /\ b = my_backpack[p] /\ h = hero_equip[p] /\ i = Smallest(Free(p))
        /\ S = WithEquip(R, EquipRecord(h[j], 0, i, NoEquip))
        /\ c = [b EXCEPT ![i] = h[j]] /\ d = [h EXCEPT ![j] = NoEquip]
  OBVIOUS
<1>0. /\ GoodsTypes /\ OnePlace /\ Indexed /\ p \in connected /\ h[j] # NoEquip
      /\ connected' = connected /\ shop' = shop /\ mails' = mails /\ made' = made
      /\ lost' = lost /\ torn' = torn
      /\ email_list' = email_list /\ mail_records' = mail_records
      /\ market_records' = market_records
      /\ my_backpack' = [my_backpack EXCEPT ![p][i] = h[j]]
      /\ hero_equip' = [hero_equip EXCEPT ![p][j] = NoEquip]
      /\ equip_records' = [equip_records EXCEPT ![p] = S]
  BY DEF GoodsInv, UnloadEquip, shop
<1>1. i \in Slots(p) /\ b[i] = NoEquip
  BY FoundSlot DEF UnloadEquip
<1>2. RecordsOK(p, T, R) /\ Shows(p, T, R, b, h) /\ MailsOK(R, mail_records[p], mails)
        /\ MailsShown(R, email_list[p], mail_records[p])
  BY <1>0, OnlinePlayer
<1>6. /\ RecordsOK(p, T, S) /\ Shows(p, T, S, c, d)
      /\ \A x : Has(S, x) <=> Has(R, x)
      /\ \A r : r.pannle = 2 => (r \in S <=> r \in R)
  BY <1>0, <1>1, <1>2, TakenOff
<1>7. MailsOK(S, mail_records[p], mails) /\ MailsShown(S, email_list[p], mail_records[p])
  BY <1>2, <1>6, MailsStay
<1>8. GoodsTypes'
  BY <1>0 DEF GoodsTypes
<1>9. my_backpack'[p] = c /\ hero_equip'[p] = d /\ equip_records'[p] = S
  BY <1>0 DEF GoodsTypes
<1>10. KeptOf(p)' /\ ShownOf(p)'
  BY <1>0, <1>6, <1>7, <1>9 DEF KeptOf, ShownOf
<1>11. ASSUME NEW q \in Players, q # p PROVE KeptOf(q)' /\ (q \in connected => ShownOf(q)')
  <2>1. Same(q)
    BY <1>0, <1>11 DEF Same, GoodsTypes
  <2> QED
    BY <2>1, <1>0, Unmoved DEF GoodsTypes
<1>12. RecordsKept' /\ Shown'
  BY <1>0, <1>10, <1>11, ByPlayer DEF GoodsTypes
<1>13. OnePlace'
  <2>1. \A q \in Players : \A x : Has(equip_records'[q], x) <=> Has(equip_records[q], x)
    BY <1>0, <1>6, <1>9 DEF GoodsTypes
  <2> QED
    BY <1>0, <2>1, SamePlaces
<1> QED
  BY <1>0, <1>8, <1>12, <1>13, ShopStays DEF GoodsInv, SameShop

\* SetMarket lists a good.
LEMMA ToMarket ==
    ASSUME Indexed, NEW g \in GoodRecords, \A x \in market_records : x.sn # g.sn, SetMarket(g)
    PROVE  Indexed' /\ \A x : OnSale(x)' <=> OnSale(x) \/ x = g.sn
<1>1. /\ market' = Append(market, g) /\ market_records' = market_records \cup {g}
      /\ market_index' = [x \in DOMAIN market_index \cup {g.sn} |->
                            IF x = g.sn THEN Len(market) + 1 ELSE market_index[x]]
  BY DEF SetMarket
<1>2. IndexedBy(market, market_index, market_records)
  BY DEF Indexed
<1>3. IndexedBy(market', market_index', market_records')
  <2>1. /\ DOMAIN market_index' = DOMAIN market_index \cup {g.sn}
        /\ market_index'[g.sn] = Len(market) + 1
        /\ \A e \in DOMAIN market_index \ {g.sn} : market_index'[e] = market_index[e]
    BY <1>1
  <2> QED
    BY <2>1, <1>1, <1>2, Listed
<1>4. \A x : OnSale(x)' <=> OnSale(x) \/ x = g.sn
  BY <1>1 DEF OnSale
<1> QED
  BY <1>3, <1>4 DEF Indexed

\* A sold equip leaves the player's records for those of the market.
LEMMA SaleKeeps ==
    ASSUME GoodsAssumption, GoodsInv, NEW p \in Players, NEW i \in Slots(p), NEW cost \in Prices,
           SaleGoods(p, i, cost)
    PROVE  GoodsInv'
<1> PICK T, R, b, h, e, S, c, g :
        /\ T = torn[p] /\ R = equip_records[p] /\ b = my_backpack[p] /\ h = hero_equip[p] /\ e = b[i]
        /\ S = DelEquip(R, b[i]) /\ c = [b EXCEPT ![i] = NoEquip] /\ g = Good(e, p, cost)
  OBVIOUS
<1>0. /\ GoodsTypes /\ OnePlace /\ Indexed /\ p \in connected /\ b[i] # NoEquip
      /\ connected' = connected /\ mails' = mails /\ made' = made
      /\ lost' = lost /\ torn' = torn
      /\ email_list' = email_list /\ mail_records' = mail_records /\ hero_equip' = hero_equip
      /\ SetMarket(g)
      /\ my_backpack' = [my_backpack EXCEPT ![p][i] = NoEquip]
      /\ equip_records' = [equip_records EXCEPT ![p] = S]
  BY DEF GoodsInv, SaleGoods
<1>2. RecordsOK(p, T, R) /\ Shows(p, T, R, b, h) /\ MailsOK(R, mail_records[p], mails)
        /\ MailsShown(R, email_list[p], mail_records[p])
  BY <1>0, OnlinePlayer
<1>3. e \in Equips /\ Has(R, e)
  BY <1>0, <1>2, InSlot DEF Has
<1>4. \A x \in market_records : x.sn # e
  BY <1>0, <1>3 DEF OnePlace, OnSale
<1>5. \A q \in Players : q # p => ~Has(equip_records[q], e)
  BY <1>0, <1>3 DEF OnePlace
<1>6. /\ RecordsOK(p, T, S) /\ Shows(p, T, S, c, h)
      /\ \A x : Has(S, x) <=> Has(R, x) /\ x # e
      /\ \A r : r.pannle = 2 => (r \in S <=> r \in R)
  BY <1>0, <1>2, TakenOut
<1>7. MailsOK(S, mail_records[p], mails) /\ MailsShown(S, email_list[p], mail_records[p])
  BY <1>2, <1>6, MailsStay
<1>8. GoodsTypes'
  BY <1>0 DEF GoodsTypes
<1>9. my_backpack'[p] = c /\ equip_records'[p] = S
  BY <1>0 DEF GoodsTypes
<1>10. KeptOf(p)' /\ ShownOf(p)'
  BY <1>0, <1>6, <1>7, <1>9 DEF KeptOf, ShownOf
<1>11. ASSUME NEW q \in Players, q # p PROVE KeptOf(q)' /\ (q \in connected => ShownOf(q)')
  <2>1. Same(q)
    BY <1>0, <1>11 DEF Same, GoodsTypes
  <2> QED
    BY <2>1, <1>0, Unmoved DEF GoodsTypes
<1>12. RecordsKept' /\ Shown'
  BY <1>0, <1>10, <1>11, ByPlayer DEF GoodsTypes
<1>13. g \in GoodRecords /\ g.sn = e
  BY <1>3 DEF Good, GoodRecords
<1>14. OnePlace'
  <2>1. \A q \in Players : \A x : Has(equip_records'[q], x) <=> Has(equip_records[q], x) /\ x # e
    BY <1>0, <1>5, <1>6, <1>9 DEF GoodsTypes
  <2>2. \A x : OnSale(x)' <=> OnSale(x) \/ x = e
    BY <1>0, <1>13 DEF OnSale, SetMarket
  <2>3. e \in made /\ e \notin lost
    BY <1>0, <1>3 DEF OnePlace
  <2> QED
    BY <1>0, <2>1, <2>2, <2>3 DEF OnePlace
<1>15. Indexed'
  BY <1>0, <1>4, <1>13, ToMarket
<1> QED
  BY <1>8, <1>12, <1>14, <1>15 DEF GoodsInv

\* DelMarket takes equip e off the market.
LEMMA OffMarket ==
    ASSUME Indexed, NEW e \in DOMAIN market_index, DelMarket(e)
    PROVE  Indexed' /\ \A x : OnSale(x)' <=> OnSale(x) /\ x # e
<1>1. /\ market' = Front([market EXCEPT ![market_index[e]] = Last(market)])
      /\ market_index' = [x \in DOMAIN market_index \ {e} |->
                             IF x = Last(market).sn THEN market_index[e] ELSE market_index[x]]
      /\ market_records' = {g \in market_records : g.sn # e}
  BY DEF DelMarket, Reindex
<1>2. IndexedBy(market, market_index, market_records)
  BY DEF Indexed
<1>3. IndexedBy(market', market_index', market_records')
  BY <1>1, <1>2, Delisted
<1>4. \A x : OnSale(x)' <=> OnSale(x) /\ x # e
  BY <1>1 DEF OnSale
<1> QED
  BY <1>3, <1>4 DEF Indexed

\* A listed equip is on sale by the player its good names, and at nobody.
LEMMA OnMarket ==
    ASSUME GoodsAssumption, GoodsInv, NEW e \in DOMAIN market_index
    PROVE  /\ e \in Equips /\ OnSale(e) /\ e \in made /\ e \notin lost
           /\ Addressee(market[market_index[e]].player) \subseteq Players \cup {Nobody}
           /\ Last(market).cost \in Nat /\ Last(market).cost > 0
           /\ \A q \in Players : ~Has(equip_records[q], e)
<1>1. /\ IndexedBy(market, market_index, market_records) /\ OnePlace
  BY DEF GoodsInv, Indexed
<1>2. market \in Seq(GoodRecords) /\ Len(market) \in Nat
  BY <1>1, LenProperties DEF IndexedBy
<1>3. market_index[e] \in 1 .. Len(market) /\ market[market_index[e]].sn = e
  BY <1>1 DEF IndexedBy
<1>4. market[market_index[e]] \in GoodRecords /\ market[market_index[e]] \in market_records
  BY <1>1, <1>2, <1>3, ElementOfSeq DEF IndexedBy
<1>5. Last(market) \in GoodRecords
  <2>1. Len(market) \in 1 .. Len(market)
    BY <1>2, <1>3
  <2> QED
    BY <2>1, <1>2, ElementOfSeq DEF Last
<1>6. e \in Equips /\ OnSale(e) /\ market[market_index[e]].player \in Players
  BY <1>3, <1>4 DEF GoodRecords, OnSale
<1>7. Last(market).cost \in Nat /\ Last(market).cost > 0
  <2> PICK x : x = Last(market).cost
    OBVIOUS
  <2>1. x \in Prices
    BY <1>5 DEF GoodRecords
  <2>2. x \in Nat /\ x # 0
    BY <2>1 DEF GoodsAssumption
  <2>3. x > 0
    BY <2>2
  <2> QED
    BY <2>2, <2>3
<1> QED
  BY <1>1, <1>6, <1>7 DEF OnePlace, Addressee

\* What an e-mail m to z, who may be nobody, changes.
LEMMA Sent ==
    ASSUME GoodsAssumption, GoodsTypes, NEW z \in Players \cup {Nobody}, NEW m, Send(z, m)
    PROVE  /\ mails' = mails + 1 /\ mails \in Nat /\ mails' \in Nat
           /\ DOMAIN email_list' = Players /\ email_list' = [q \in Players |-> email_list'[q]]
           /\ DOMAIN mail_records' = Players /\ mail_records' = [q \in Players |-> mail_records'[q]]
           /\ \A q \in Players : q # z => /\ mail_records'[q] = mail_records[q]
                                          /\ email_list'[q] = email_list[q]
           /\ z \in Players => /\ mail_records'[z] = mail_records[z] \cup {m}
                               /\ z \in connected => email_list'[z] = email_list[z] \cup {m}
<1>1. mails' = mails + 1 /\ mails \in Nat /\ mails' \in Nat
  BY DEF Send, GoodsTypes
<1>2. CASE z = Nobody
  <2>1. mail_records' = mail_records /\ email_list' = email_list /\ z \notin Players
    BY <1>2 DEF Send, GoodsAssumption
  <2> QED
    BY <1>1, <2>1 DEF GoodsTypes
<1>3. CASE z # Nobody
  <2>1. /\ mail_records' = [mail_records EXCEPT ![z] = @ \cup {m}]
        /\ email_list' = [email_list EXCEPT ![z] = IF z \in connected THEN @ \cup {m} ELSE @]
    BY <1>3 DEF Send
  <2> QED
    BY <1>1, <1>3, <2>1 DEF GoodsTypes
<1> QED
  BY <1>2, <1>3

\* Of the e-mails of player q, whose records become T, after m is sent to z.
LEMMA AfterSend ==
    ASSUME GoodsAssumption, GoodsTypes, NEW z \in Players \cup {Nobody}, NEW m \in MailRecords,
           m.id = mails, Send(z, m), NEW q \in Players, KeptOf(q), NEW T,
           q = z => Carried(equip_records[q], T, m, mails),
           q # z => \A r : r.pannle = 2 => (r \in T <=> r \in equip_records[q])
    PROVE  /\ MailsOK(T, mail_records'[q], mails')
           /\ q \in connected /\ ShownOf(q) => MailsShown(T, email_list'[q], mail_records'[q])
<1>1. mails \in Nat /\ mails' \in Nat /\ mails' = mails + 1 /\ mails <= mails'
  BY Sent
<1>2. MailsOK(equip_records[q], mail_records[q], mails)
  BY DEF KeptOf
<1>3. CASE q = z
  <2>1. /\ mail_records'[q] = mail_records[q] \cup {m}
        /\ q \in connected => email_list'[q] = email_list[q] \cup {m}
    BY <1>3, Sent
  <2>2. /\ MailsOK(T, mail_records'[q], mails')
        /\ MailsShown(equip_records[q], email_list[q], mail_records[q])
             => MailsShown(T, email_list[q] \cup {m}, mail_records'[q])
    <3> PICK R, M, L, N, K : /\ R = equip_records[q] /\ M = mail_records[q] /\ L = email_list[q]
                             /\ N = M \cup {m} /\ K = L \cup {m}
      OBVIOUS
    <3>1. Carried(R, T, m, mails) /\ MailsOK(R, M, mails)
      BY <1>2, <1>3
    <3>2. MailsOK(T, N, mails') /\ (MailsShown(R, L, M) => MailsShown(T, K, N))
      BY <3>1, <1>1, MailSent
    <3> QED
      BY <2>1, <3>2
  <2> QED
    BY <2>1, <2>2 DEF ShownOf
<1>4. CASE q # z
  <2>1. mail_records'[q] = mail_records[q] /\ email_list'[q] = email_list[q]
    BY <1>4, Sent
  <2>2. MailsOK(equip_records[q], mail_records[q], mails')
    BY <1>1, <1>2, Later
  <2>3. MailsOK(T, mail_records[q], mails')
    BY <2>2, <1>4 DEF MailsOK
  <2>4. MailsShown(equip_records[q], email_list[q], mail_records[q])
          => MailsShown(T, email_list[q], mail_records[q])
    BY <1>4 DEF MailsShown
  <2> QED
    BY <2>1, <2>3, <2>4 DEF ShownOf
<1> QED
  BY <1>3, <1>4

\* The bought equip leaves the market for the buyer's records; the seller, who may be
\* the buyer, gets an e-mail.
LEMMA BuyKeeps ==
    ASSUME GoodsAssumption, GoodsInv, NEW p \in Players, NEW e \in DOMAIN market_index,
           BuyMarketGoods(p, e)
    PROVE  GoodsInv'
<1> PICK T, R, b, h, i, m :
        /\ T = torn[p] /\ R = equip_records[p] /\ b = my_backpack[p] /\ h = hero_equip[p] /\ i = Smallest(Free(p))
        /\ m = Mail(mails, PriceLeft(e), NoEquip)
  OBVIOUS
<1> PICK z \in Addressee(market[market_index[e]].player) : Send(z, m)
  BY DEF BuyMarketGoods
<1> PICK S, c : S = WithEquip(R, EquipRecord(e, 0, i, NoEquip)) /\ c = [b EXCEPT ![i] = e]
  OBVIOUS
<1>0. /\ GoodsTypes /\ OnePlace /\ Indexed /\ p \in connected
      /\ connected' = connected /\ made' = made /\ hero_equip' = hero_equip
      /\ torn' = torn /\ lost' = lost
      /\ DelMarket(e)
      /\ my_backpack' = [my_backpack EXCEPT ![p][i] = e]
      /\ equip_records' = [equip_records EXCEPT ![p] = S]
  BY DEF GoodsInv, BuyMarketGoods, MayBuy, Bought
<1>1. i \in Slots(p) /\ b[i] = NoEquip
  BY FoundSlot DEF BuyMarketGoods, MayBuy
<1>2. RecordsOK(p, T, R) /\ Shows(p, T, R, b, h) /\ MailsOK(R, mail_records[p], mails)
        /\ MailsShown(R, email_list[p], mail_records[p])
  BY <1>0, OnlinePlayer
<1>3. /\ e \in Equips /\ OnSale(e) /\ e \in made /\ e \notin lost /\ z \in Players \cup {Nobody}
      /\ PriceLeft(e) \in Nat /\ PriceLeft(e) > 0
      /\ \A q \in Players : ~Has(equip_records[q], e)
  BY OnMarket DEF PriceLeft
<1>4. m \in MailRecords /\ m.id = mails /\ m.diamond > 0 /\ mails \in Nat
  BY <1>0, <1>3 DEF Mail, MailRecords, GoodsTypes, Worn
<1>5. \A r \in R : r.sn # e
  BY <1>3 DEF Has
<1>6. /\ RecordsOK(p, T, S) /\ Shows(p, T, S, c, h)
      /\ \A x : Has(S, x) <=> Has(R, x) \/ x = e
      /\ \A r \in S : r.pannle = 2 => r \in R
      /\ \A r \in R : r.sn # e => r \in S
  BY <1>1, <1>2, <1>3, <1>5, PutInBackpack
<1>7. /\ mails' \in Nat
      /\ DOMAIN email_list' = Players /\ email_list' = [q \in Players |-> email_list'[q]]
      /\ DOMAIN mail_records' = Players /\ mail_records' = [q \in Players |-> mail_records'[q]]
  BY <1>0, <1>3, Sent
<1>8. GoodsTypes'
  <2>1. connected' \subseteq Players /\ made' \subseteq Equips /\ mails' \in Nat
    BY <1>0, <1>4, <1>7 DEF GoodsTypes
  <2>3. /\ DOMAIN my_backpack' = Players /\ my_backpack' = [q \in Players |-> my_backpack'[q]]
        /\ DOMAIN hero_equip' = Players /\ hero_equip' = [q \in Players |-> hero_equip'[q]]
        /\ DOMAIN equip_records' = Players /\ equip_records' = [q \in Players |-> equip_records'[q]]
    BY <1>0 DEF GoodsTypes
  <2> QED
    BY <1>0, <1>7, <2>1, <2>3 DEF GoodsTypes
<1>9. my_backpack'[p] = c /\ equip_records'[p] = S
  BY <1>0 DEF GoodsTypes
<1>10. KeptOf(p) /\ ShownOf(p)
  BY <1>2 DEF KeptOf, ShownOf
<1>11. KeptOf(p)' /\ ShownOf(p)'
  <2>1. MailsOK(S, mail_records'[p], mails') /\ MailsShown(S, email_list'[p], mail_records'[p])
    <3>1. \A r : r.pannle = 2 => (r \in S <=> r \in R)
      BY <1>5, <1>6
    <3>2. Carried(R, S, m, mails)
      BY <3>1, <1>4 DEF Carried
    <3> QED
      BY <3>1, <3>2, <1>0, <1>3, <1>4, <1>10, AfterSend
  <2> QED
    BY <2>1, <1>0, <1>6, <1>9 DEF KeptOf, ShownOf
<1>12. ASSUME NEW q \in Players, q # p PROVE KeptOf(q)' /\ (q \in connected => ShownOf(q)')
  <2>1. /\ my_backpack'[q] = my_backpack[q] /\ hero_equip'[q] = hero_equip[q]
        /\ equip_records'[q] = equip_records[q] /\ torn'[q] = torn[q]
    BY <1>0, <1>12 DEF GoodsTypes
  <2>2. KeptOf(q) /\ (q \in connected => ShownOf(q))
    BY ByPlayer DEF GoodsInv
  <2>3. /\ MailsOK(equip_records[q], mail_records'[q], mails')
        /\ q \in connected => MailsShown(equip_records[q], email_list'[q], mail_records'[q])
    <3> PICK Q : Q = equip_records[q]
      OBVIOUS
    <3>1. Carried(equip_records[q], Q, m, mails)
      BY <1>4 DEF Carried
    <3>2. \A r : r.pannle = 2 => (r \in Q <=> r \in equip_records[q])
      OBVIOUS
    <3>3. KeptOf(q) /\ GoodsTypes /\ z \in Players \cup {Nobody}
      BY <1>0, <1>3, <2>2
    <3>4. /\ MailsOK(Q, mail_records'[q], mails')
          /\ q \in connected /\ ShownOf(q) => MailsShown(Q, email_list'[q], mail_records'[q])
      <4>1. CASE q = z
        BY <4>1, <3>1, <3>3, <1>4, AfterSend
      <4>2. CASE q # z
        <5>1. mail_records'[q] = mail_records[q] /\ email_list'[q] = email_list[q]
          BY <4>2, <3>3, Sent
        <5>2. mails' \in Nat /\ mails <= mails' /\ mails \in Nat
          BY <3>3, Sent
        <5>3. MailsOK(Q, mail_records[q], mails')
          BY <5>2, <3>3, Later DEF KeptOf
        <5> QED
          BY <5>1, <5>3 DEF ShownOf
      <4> QED
        BY <4>1, <4>2
    <3> QED
      BY <3>4, <2>2
  <2>4. KeptOf(q)'
    BY <2>1, <2>2, <2>3 DEF KeptOf
  <2> QED
    BY <2>1, <2>2, <2>3, <2>4 DEF ShownOf
<1>13. RecordsKept' /\ Shown'
  BY <1>0, <1>11, <1>12, ByPlayer DEF GoodsTypes
<1>14. Indexed' /\ \A x : OnSale(x)' <=> OnSale(x) /\ x # e
  BY <1>0, OffMarket
<1>15. OnePlace'
  <2>1. \A q \in Players : \A x : Has(equip_records'[q], x) <=> Has(equip_records[q], x) \/ (q = p /\ x = e)
    BY <1>0, <1>6, <1>9 DEF GoodsTypes
  <2>2. \A q, r \in Players, x \in Equips :
          Has(equip_records'[q], x) /\ Has(equip_records'[r], x) => q = r
    BY <1>0, <1>3, <2>1 DEF OnePlace
  <2>3. \A q \in Players, x \in Equips : ~(Has(equip_records'[q], x) /\ OnSale(x)')
    BY <1>0, <1>3, <1>14, <2>1 DEF OnePlace
  <2>4. \A x \in Equips :
          x \in made' \ lost' <=> (OnSale(x)' \/ \E q \in Players : Has(equip_records'[q], x))
    <3> TAKE x \in Equips
    <3>1. CASE x = e
      BY <3>1, <1>0, <1>3, <2>1 DEF GoodsTypes
    <3>2. CASE x # e
      BY <3>2, <1>0, <1>14, <2>1 DEF OnePlace
    <3> QED
      BY <3>1, <3>2
  <2> QED
    BY <1>0, <2>2, <2>3, <2>4 DEF OnePlace
<1> QED
  BY <1>8, <1>13, <1>14, <1>15 DEF GoodsInv

\* A good whose time is over goes back by e-mail to the player z whom its name leads to.
LEMMA BackTo ==
    ASSUME GoodsAssumption, GoodsInv, NEW e \in DOMAIN market_index, NEW z \in Players,
           Send(z, Mail(mails, 0, e)), DelMarket(e), lost' = lost,
           equip_records' = [equip_records EXCEPT ![z] = WithEquip(@, EquipRecord(e, 2, 0, mails))],
           UNCHANGED << connected, my_backpack, hero_equip, made, torn >>
    PROVE  GoodsInv'
<1> PICK m, r : m = Mail(mails, 0, e) /\ r = EquipRecord(e, 2, 0, mails)
  OBVIOUS
<1> PICK T, R, S : T = torn[z] /\ R = equip_records[z] /\ S = WithEquip(R, r)
  OBVIOUS
<1>0. /\ GoodsTypes /\ OnePlace /\ Indexed
      /\ connected' = connected /\ made' = made /\ hero_equip' = hero_equip
      /\ torn' = torn /\ lost' = lost /\ z \in Players \cup {Nobody}
      /\ my_backpack' = my_backpack
      /\ DelMarket(e) /\ Send(z, m)
      /\ equip_records' = [equip_records EXCEPT ![z] = S]
  BY DEF GoodsInv
<1>3. /\ e \in Equips /\ OnSale(e) /\ e \in made /\ e \notin lost
      /\ \A q \in Players : ~Has(equip_records[q], e)
  BY OnMarket
<1>4. /\ m \in MailRecords /\ m.id = mails /\ m.diamond = 0 /\ m.equip = e /\ mails \in Nat
      /\ r \in EquipRecords /\ r.sn = e /\ r.pannle = 2 /\ r.mail = mails
  <2>1. mails \in Nat /\ 2 \in 0 .. 2
    BY <1>0 DEF GoodsTypes
  <2> QED
    BY <2>1, <1>3 DEF Mail, MailRecords, Worn, EquipRecord, EquipRecords
<1>5. \A x \in R : x.sn # e
  BY <1>3 DEF Has
<1>6. \A x : x \in S <=> x = r \/ x \in R
  BY <1>4, <1>5, With
<1>7. /\ mails' \in Nat
      /\ DOMAIN email_list' = Players /\ email_list' = [q \in Players |-> email_list'[q]]
      /\ DOMAIN mail_records' = Players /\ mail_records' = [q \in Players |-> mail_records'[q]]
  BY <1>0, Sent
<1>8. GoodsTypes'
  <2>1. connected' \subseteq Players /\ made' \subseteq Equips /\ mails' \in Nat
    BY <1>0, <1>4, <1>7 DEF GoodsTypes
  <2>3. /\ DOMAIN my_backpack' = Players /\ my_backpack' = [q \in Players |-> my_backpack'[q]]
        /\ DOMAIN hero_equip' = Players /\ hero_equip' = [q \in Players |-> hero_equip'[q]]
        /\ DOMAIN equip_records' = Players /\ equip_records' = [q \in Players |-> equip_records'[q]]
    BY <1>0 DEF GoodsTypes
  <2> QED
    BY <1>0, <1>7, <2>1, <2>3 DEF GoodsTypes
<1>9. equip_records'[z] = S
  BY <1>0, <1>3 DEF GoodsTypes
<1>10. \A q \in Players : KeptOf(q) /\ (q \in connected => ShownOf(q))
  BY ByPlayer DEF GoodsInv
<1>11. KeptOf(z)' /\ (z \in connected => ShownOf(z)')
  <2>1. KeptOf(z) /\ RecordsOK(z, T, R)
    BY <1>3, <1>10 DEF KeptOf
  <2>2. Carried(R, S, m, mails)
    BY <1>4, <1>6 DEF Carried
  <2>3. /\ MailsOK(S, mail_records'[z], mails')
        /\ z \in connected /\ ShownOf(z) => MailsShown(S, email_list'[z], mail_records'[z])
    BY <2>1, <2>2, <1>0, <1>3, <1>4, AfterSend
  <2>4. RecordsOK(z, T, S)
    <3>1. S \subseteq EquipRecords
      BY <2>1, <1>4, <1>6 DEF RecordsOK
    <3>2. \A x, y \in S : x.sn = y.sn => x = y
      BY <2>1, <1>4, <1>5, <1>6 DEF RecordsOK
    <3>3. \A x, y \in S : /\ x.pannle = y.pannle /\ x.pannle # 2 /\ x.position = y.position
                          /\ ~(x.pannle = 0 /\ x.position \in T)
                       => x = y
      BY <2>1, <1>4, <1>6 DEF RecordsOK
    <3>4. \A x \in S : /\ x.pannle = 0 => x.position \in Slots(z)
                       /\ x.pannle = 1 => x.position \in HeroSlots
      BY <2>1, <1>4, <1>6 DEF RecordsOK
    <3> QED
      BY <3>1, <3>2, <3>3, <3>4 DEF RecordsOK
  <2>5. ASSUME z \in connected PROVE ShownOf(z)'
    <3>1. ShownOf(z) /\ Shows(z, T, R, my_backpack[z], hero_equip[z])
      BY <2>5, <1>3, <1>10 DEF ShownOf
    <3>2. \A x : x.pannle # 2 => (x \in S <=> x \in R)
      BY <1>4, <1>6
    <3>3. \A k, x : (\E y \in S : y.sn = x /\ y.pannle = 0 /\ y.position = k)
                 <=> (\E y \in R : y.sn = x /\ y.pannle = 0 /\ y.position = k)
      BY <3>2
    <3>4. \A k, x : (\E y \in S : y.sn = x /\ y.pannle = 1 /\ y.position = k)
                 <=> (\E y \in R : y.sn = x /\ y.pannle = 1 /\ y.position = k)
      BY <3>2
    <3>5. \A x \in Equips, k \in Slots(z) :
            /\ my_backpack[z][k] = x => \E y \in S : y.sn = x /\ y.pannle = 0 /\ y.position = k
            /\ k \notin T => \A y \in S : y.sn = x /\ y.pannle = 0 /\ y.position = k => my_backpack[z][k] = x
      <4>1. \A x \in Equips, k \in Slots(z) :
              /\ my_backpack[z][k] = x => \E y \in R : y.sn = x /\ y.pannle = 0 /\ y.position = k
              /\ k \notin T => \A y \in R : y.sn = x /\ y.pannle = 0 /\ y.position = k => my_backpack[z][k] = x
        BY <3>1 DEF Shows
      <4> QED
        BY <3>3, <4>1
    <3>6. \A x \in Equips, k \in HeroSlots :
            hero_equip[z][k] = x <=> \E y \in S : y.sn = x /\ y.pannle = 1 /\ y.position = k
      <4>1. \A x \in Equips, k \in HeroSlots :
              hero_equip[z][k] = x <=> \E y \in R : y.sn = x /\ y.pannle = 1 /\ y.position = k
        BY <3>1 DEF Shows
      <4> QED
        BY <3>4, <4>1
    <3>7. Shows(z, T, S, my_backpack[z], hero_equip[z])
      BY <3>1, <3>5, <3>6 DEF Shows
    <3> QED
      BY <2>3, <2>5, <3>1, <3>7, <1>0, <1>9 DEF ShownOf
  <2> QED
    BY <2>3, <2>4, <2>5, <1>9 DEF KeptOf
<1>12. ASSUME NEW q \in Players, q # z PROVE KeptOf(q)' /\ (q \in connected => ShownOf(q)')
  <2>1. /\ my_backpack'[q] = my_backpack[q] /\ hero_equip'[q] = hero_equip[q]
        /\ equip_records'[q] = equip_records[q]
    BY <1>0, <1>12 DEF GoodsTypes
  <2>2. KeptOf(q) /\ (q \in connected => ShownOf(q))
    BY <1>10
  <2>3. /\ MailsOK(equip_records[q], mail_records'[q], mails')
        /\ q \in connected => MailsShown(equip_records[q], email_list'[q], mail_records'[q])
    BY <1>0, <1>3, <1>4, <1>12, <2>2, AfterSend
  <2> QED
    BY <2>1, <2>2, <2>3 DEF KeptOf, ShownOf
<1>13. RecordsKept' /\ Shown'
  BY <1>0, <1>11, <1>12, ByPlayer DEF GoodsTypes
<1>14. Indexed' /\ \A x : OnSale(x)' <=> OnSale(x) /\ x # e
  BY <1>0, OffMarket
<1>15. OnePlace'
  <2>1. \A q \in Players : \A x : Has(equip_records'[q], x) <=> Has(equip_records[q], x) \/ (q = z /\ x = e)
    <3> TAKE q \in Players
    <3>1. \A x : Has(S, x) <=> Has(R, x) \/ x = e
      BY <1>4, <1>6 DEF Has
    <3>2. CASE q = z
      BY <3>1, <3>2, <1>9
    <3>3. CASE q # z
      BY <3>3, <1>0 DEF GoodsTypes
    <3> QED
      BY <3>2, <3>3
  <2>2. \A q, x \in Players, y \in Equips :
          Has(equip_records'[q], y) /\ Has(equip_records'[x], y) => q = x
    BY <1>0, <1>3, <2>1 DEF OnePlace
  <2>3. \A q \in Players, x \in Equips : ~(Has(equip_records'[q], x) /\ OnSale(x)')
    BY <1>0, <1>3, <1>14, <2>1 DEF OnePlace
  <2>4. \A x \in Equips :
          x \in made' \ lost' <=> (OnSale(x)' \/ \E q \in Players : Has(equip_records'[q], x))
    <3> TAKE x \in Equips
    <3>1. CASE x = e
      BY <3>1, <1>0, <1>3, <2>1 DEF GoodsTypes
    <3>2. CASE x # e
      BY <3>2, <1>0, <1>14, <2>1 DEF OnePlace
    <3> QED
      BY <3>1, <3>2
  <2> QED
    BY <1>0, <2>2, <2>3, <2>4 DEF OnePlace
<1> QED
  BY <1>8, <1>13, <1>14, <1>15 DEF GoodsInv

\* Without a player to go back to, the equip is lost.
LEMMA BackToNobody ==
    ASSUME GoodsAssumption, GoodsInv, NEW e \in DOMAIN market_index,
           Send(Nobody, Mail(mails, 0, e)), DelMarket(e), lost' = lost \cup {e},
           UNCHANGED << connected, equip_records, my_backpack, hero_equip, made, torn >>
    PROVE  GoodsInv'
<1>0. /\ GoodsTypes /\ OnePlace /\ Indexed /\ lost' = lost \cup {e}
      /\ connected' = connected /\ made' = made /\ hero_equip' = hero_equip
      /\ my_backpack' = my_backpack /\ equip_records' = equip_records /\ torn' = torn
      /\ mail_records' = mail_records /\ email_list' = email_list
      /\ mails \in Nat /\ mails' \in Nat /\ mails <= mails'
  BY DEF GoodsInv, GoodsTypes, Send
<1>1. GoodsTypes'
  BY <1>0 DEF GoodsTypes
<1>2. ASSUME NEW q \in Players PROVE KeptOf(q)' /\ (q \in connected => ShownOf(q)')
  <2>1. Same(q)
    BY <1>0 DEF Same
  <2> QED
    BY <2>1, <1>0, Unmoved
<1>3. RecordsKept' /\ Shown'
  BY <1>0, <1>2, ByPlayer DEF GoodsTypes
<1>4. Indexed' /\ \A x : OnSale(x)' <=> OnSale(x) /\ x # e
  BY <1>0, OffMarket
<1>5. e \in Equips /\ e \in made /\ \A q \in Players : ~Has(equip_records[q], e)
  BY OnMarket
<1>6. OnePlace'
  BY <1>0, <1>4, <1>5 DEF OnePlace
<1> QED
  BY <1>1, <1>3, <1>4, <1>6 DEF GoodsInv

\* A good whose time is over leaves the market.
LEMMA NotifyKeeps ==
    ASSUME GoodsAssumption, GoodsInv, NEW e \in DOMAIN market_index, PushNotify(e)
    PROVE  GoodsInv'
<1>1. PICK z \in Addressee(market[market_index[e]].player) :
        /\ IF z = Nobody
           THEN lost' = lost \cup {e} /\ UNCHANGED equip_records
           ELSE /\ equip_records' = [equip_records EXCEPT ![z] =
                       WithEquip(@, EquipRecord(e, 2, 0, mails))]
                /\ UNCHANGED lost
        /\ Send(z, Mail(mails, 0, e))
  BY DEF PushNotify
<1>2. DelMarket(e) /\ UNCHANGED << connected, my_backpack, hero_equip, made, torn >>
  BY DEF PushNotify
<1>3. z \in Players \cup {Nobody}
  BY OnMarket
<1>4. CASE z = Nobody
  BY <1>1, <1>2, <1>4, BackToNobody
<1>5. CASE z # Nobody
  BY <1>1, <1>2, <1>3, <1>5, BackTo
<1> QED
  BY <1>4, <1>5

\* Taking an e-mail moves its equip to a free slot, if there is one.
LEMMA TakeKeeps ==
    ASSUME GoodsAssumption, GoodsInv, NEW p \in Players, NEW m \in email_list[p],
           GetEmailGoods(p, m)
    PROVE  GoodsInv'
<1> PICK T, R, b, h, i, e, L, M :
        /\ T = torn[p] /\ R = equip_records[p] /\ b = my_backpack[p] /\ h = hero_equip[p] /\ i = Smallest(Free(p))
        /\ e = m.equip /\ L = email_list[p] /\ M = mail_records[p]
  OBVIOUS
<1>0. /\ GoodsTypes /\ OnePlace /\ Indexed /\ p \in connected
      /\ connected' = connected /\ made' = made /\ hero_equip' = hero_equip /\ shop' = shop
      /\ lost' = lost /\ torn' = torn
      /\ mails' = mails /\ market_records' = market_records
      /\ mail_records' = [mail_records EXCEPT ![p] = MailDropped(M, m)]
      /\ email_list' = [email_list EXCEPT ![p] = L \ {m}]
  BY DEF GoodsInv, GetEmailGoods, shop
<1>2. RecordsOK(p, T, R) /\ Shows(p, T, R, b, h) /\ MailsOK(R, M, mails) /\ MailsShown(R, L, M)
  BY <1>0, OnlinePlayer
<1>3. PICK S, c :
        /\ my_backpack' = [my_backpack EXCEPT ![p] = c]
        /\ equip_records' = [equip_records EXCEPT ![p] = S]
        /\ RecordsOK(p, T, S) /\ Shows(p, T, S, c, h)
        /\ \A x : Has(S, x) <=> Has(R, x)
        /\ \A r \in S : r.pannle = 2 => r \in R
        /\ S = R \/ (m.diamond = 0 /\ \A r \in R : r.sn # e => r \in S)
  <2>1. CASE m.diamond <= 0 /\ Free(p) # {}
    <3> PICK S, c : S = WithEquip(R, EquipRecord(e, 0, i, NoEquip)) /\ c = [b EXCEPT ![i] = e]
      OBVIOUS
    <3>1. i \in Slots(p) /\ b[i] = NoEquip
      BY <2>1, FoundSlot
    <3>2. m \in MailRecords /\ m.diamond = 0
      BY <2>1, <1>2 DEF MailsShown, MailRecords
    <3>3. PICK q \in R : q.pannle = 2 /\ q.sn = e /\ q.mail = m.id
      BY <3>2, <1>2 DEF MailsShown
    <3>4. e \in Equips /\ \A r \in R : r.sn = e => r.pannle = 2
      BY <3>3, <1>2 DEF RecordsOK, EquipRecords
    <3>5. /\ RecordsOK(p, T, S) /\ Shows(p, T, S, c, h)
          /\ \A x : Has(S, x) <=> Has(R, x) \/ x = e
          /\ \A r \in S : r.pannle = 2 => r \in R
          /\ \A r \in R : r.sn # e => r \in S
      BY <1>2, <3>1, <3>4, PutInBackpack
    <3>6. \A x : Has(S, x) <=> Has(R, x)
      BY <3>3, <3>5 DEF Has
    <3>7. /\ my_backpack' = [my_backpack EXCEPT ![p] = c]
          /\ equip_records' = [equip_records EXCEPT ![p] = S]
      BY <2>1 DEF GetEmailGoods
    <3> QED
      BY <3>2, <3>5, <3>6, <3>7
  <2>2. CASE ~(m.diamond <= 0 /\ Free(p) # {})
    <3>1. my_backpack' = my_backpack /\ equip_records' = equip_records
      BY <2>2 DEF GetEmailGoods
    <3>2. /\ my_backpack' = [my_backpack EXCEPT ![p] = b]
          /\ equip_records' = [equip_records EXCEPT ![p] = R]
      BY <3>1, <1>0 DEF GoodsTypes
    <3> QED
      BY <3>2, <1>2
  <2> QED
    BY <2>1, <2>2
<1>7. MailsOK(S, MailDropped(M, m), mails) /\ MailsShown(S, L \ {m}, MailDropped(M, m))
  BY <1>0, <1>2, <1>3, MailTaken DEF GoodsTypes
<1>8. GoodsTypes'
  BY <1>0, <1>3 DEF GoodsTypes
<1>9. /\ my_backpack'[p] = c /\ equip_records'[p] = S
      /\ mail_records'[p] = MailDropped(M, m) /\ email_list'[p] = L \ {m}
  BY <1>0, <1>3 DEF GoodsTypes
<1>10. KeptOf(p)' /\ ShownOf(p)'
  BY <1>0, <1>3, <1>7, <1>9 DEF KeptOf, ShownOf
<1>11. ASSUME NEW q \in Players, q # p PROVE KeptOf(q)' /\ (q \in connected => ShownOf(q)')
  <2>1. Same(q)
    BY <1>0, <1>3, <1>11 DEF Same, GoodsTypes
  <2> QED
    BY <2>1, <1>0, Unmoved DEF GoodsTypes
<1>12. RecordsKept' /\ Shown'
  BY <1>0, <1>10, <1>11, ByPlayer DEF GoodsTypes
<1>13. OnePlace'
  <2>1. \A q \in Players : \A x : Has(equip_records'[q], x) <=> Has(equip_records[q], x)
    BY <1>0, <1>3, <1>9 DEF GoodsTypes
  <2> QED
    BY <1>0, <2>1, SamePlaces
<1> QED
  BY <1>0, <1>8, <1>12, <1>13, ShopStays DEF GoodsInv, SameShop

\* The records of player p become S, and no other record of a player changes.
LEMMA OneChanged ==
    ASSUME GoodsInv, NEW p \in Players, NEW S, NEW U,
           equip_records' = [equip_records EXCEPT ![p] = S], torn' = [torn EXCEPT ![p] = U],
           mail_records' = mail_records, mails' = mails,
           RecordsOK(p, U, S), MailsOK(S, mail_records[p], mails)
    PROVE  /\ RecordTypes' /\ RecordsKept' /\ equip_records'[p] = S
           /\ \A q \in Players \ {p} : equip_records'[q] = equip_records[q]
<1>1. GoodsTypes /\ RecordsKept
  BY DEF GoodsInv
<1>2. RecordTypes'
  BY <1>1 DEF GoodsTypes, RecordTypes
<1>3. /\ equip_records'[p] = S /\ torn'[p] = U
      /\ \A q \in Players \ {p} : equip_records'[q] = equip_records[q] /\ torn'[q] = torn[q]
  BY <1>1 DEF GoodsTypes
<1>4. \A q \in Players : RecordsOK(q, torn'[q], equip_records'[q])
                         /\ MailsOK(equip_records'[q], mail_records'[q], mails')
  BY <1>1, <1>3 DEF RecordsKept
<1> QED
  BY <1>2, <1>3, <1>4 DEF RecordsKept

\* Of two exchanged equips the one that is taken off is recorded in the slot that the
\* other one still has: the slot is torn.
LEMMA DressCutKeeps ==
    ASSUME GoodsAssumption, GoodsInv, NEW p \in Players, NEW i \in Slots(p), NEW j \in HeroSlots,
           DressCut(p, i, j)
    PROVE  GoodsInv'
<1> PICK T, R, b, h, w, r, S, U :
        /\ T = torn[p] /\ R = equip_records[p] /\ b = my_backpack[p] /\ h = hero_equip[p]
        /\ w = h[j] /\ r = EquipRecord(w, 0, i, NoEquip) /\ S = WithEquip(R, r) /\ U = T \cup {i}
  OBVIOUS
<1>0. /\ GoodsTypes /\ OnePlace /\ p \in connected /\ w # NoEquip
      /\ Restart(market_records) /\ market_records' = market_records
      /\ equip_records' = [equip_records EXCEPT ![p] = S] /\ torn' = [torn EXCEPT ![p] = U]
      /\ mail_records' = mail_records /\ made' = made /\ mails' = mails /\ lost' = lost
  BY DEF GoodsInv, GoodsTypes, DressCut, Restart
<1>1. RecordsOK(p, T, R) /\ Shows(p, T, R, b, h) /\ MailsOK(R, mail_records[p], mails)
        /\ MailsShown(R, email_list[p], mail_records[p])
  BY <1>0, OnlinePlayer
<1>2. w \in Equips /\ \E x \in R : x.sn = w /\ x.pannle = 1 /\ \A y \in R : y.sn = w => y = x
  BY <1>0, <1>1, InSlot
<1>3. PICK x \in R : x.sn = w /\ x.pannle = 1 /\ \A y \in R : y.sn = w => y = x
  BY <1>2
<1>4. r \in EquipRecords /\ r.sn = w /\ r.pannle = 0 /\ r.position = i
  BY <1>2 DEF EquipRecord, EquipRecords, GoodsAssumption, Slots
<1>5. \A y : y \in S <=> y = r \/ (y \in R /\ y.sn # w)
  BY <1>4, With
<1>6. RecordsOK(p, U, S)
  <2>1. S \subseteq EquipRecords
    BY <1>1, <1>4, <1>5 DEF RecordsOK
  <2>2. \A y, z \in S : y.sn = z.sn => y = z
    BY <1>1, <1>4, <1>5 DEF RecordsOK
  <2>3. \A y, z \in S : /\ y.pannle = z.pannle /\ y.pannle # 2 /\ y.position = z.position
                        /\ ~(y.pannle = 0 /\ y.position \in U)
                     => y = z
    <3> SUFFICES ASSUME NEW y \in S, NEW z \in S,
                        y.pannle = z.pannle, y.pannle # 2, y.position = z.position,
                        ~(y.pannle = 0 /\ y.position \in U)
                 PROVE  y = z
      OBVIOUS
    <3>1. y # r /\ z # r
      BY <1>4
    <3>2. y \in R /\ z \in R /\ ~(y.pannle = 0 /\ y.position \in T)
      BY <3>1, <1>5
    <3> QED
      BY <3>2, <1>1 DEF RecordsOK
  <2>4. \A y \in S : /\ y.pannle = 0 => y.position \in Slots(p)
                     /\ y.pannle = 1 => y.position \in HeroSlots
    BY <1>1, <1>4, <1>5 DEF RecordsOK
  <2> QED
    BY <2>1, <2>2, <2>3, <2>4 DEF RecordsOK
<1>7. \A y : y.pannle = 2 => (y \in S <=> y \in R)
  BY <1>3, <1>4, <1>5
<1>8. MailsOK(S, mail_records[p], mails)
  BY <1>1, <1>7, MailsStay
<1>9. /\ RecordTypes' /\ RecordsKept' /\ equip_records'[p] = S
      /\ \A q \in Players \ {p} : equip_records'[q] = equip_records[q]
  BY <1>0, <1>6, <1>8, OneChanged
<1>10. \A q \in Players : \A y : Has(equip_records'[q], y) <=> Has(equip_records[q], y)
  <2>1. \A y : Has(S, y) <=> Has(R, y)
    BY <1>3, <1>4, <1>5 DEF Has
  <2> QED
    BY <1>9, <2>1
<1>11. OnePlace'
  BY <1>0, <1>10, SamePlaces
<1> QED
  BY <1>0, <1>9, <1>11, RestartKeeps

\* The record of the equip is deleted and no good is recorded: the equip is lost.
LEMMA SaleCutKeeps ==
    ASSUME GoodsAssumption, GoodsInv, NEW p \in Players, NEW i \in Slots(p), SaleCut(p, i)
    PROVE  GoodsInv'
<1> PICK T, R, b, h, e, S, c :
        /\ T = torn[p] /\ R = equip_records[p] /\ b = my_backpack[p] /\ h = hero_equip[p]
        /\ e = b[i] /\ S = DelEquip(R, b[i]) /\ c = [b EXCEPT ![i] = NoEquip]
  OBVIOUS
<1>0. /\ GoodsTypes /\ OnePlace /\ p \in connected /\ e # NoEquip
      /\ Restart(market_records) /\ market_records' = market_records
      /\ equip_records' = [equip_records EXCEPT ![p] = S] /\ torn' = torn
      /\ mail_records' = mail_records /\ made' = made /\ mails' = mails
      /\ lost' = lost \cup {e}
  BY DEF GoodsInv, SaleCut, Restart
<1>1. RecordsOK(p, T, R) /\ Shows(p, T, R, b, h) /\ MailsOK(R, mail_records[p], mails)
        /\ MailsShown(R, email_list[p], mail_records[p])
  BY <1>0, OnlinePlayer
<1>2. e \in Equips /\ Has(R, e)
  BY <1>0, <1>1, InSlot DEF Has
<1>3. /\ RecordsOK(p, T, S)
      /\ \A x : Has(S, x) <=> Has(R, x) /\ x # e
      /\ \A r : r.pannle = 2 => (r \in S <=> r \in R)
  BY <1>0, <1>1, TakenOut
<1>4. MailsOK(S, mail_records[p], mails)
  BY <1>1, <1>3, MailsStay
<1>5. torn' = [torn EXCEPT ![p] = T]
  BY <1>0 DEF GoodsTypes
<1>6. /\ RecordTypes' /\ RecordsKept' /\ equip_records'[p] = S
      /\ \A q \in Players \ {p} : equip_records'[q] = equip_records[q]
  <2>1. /\ RecordsOK(p, T, S)
        /\ equip_records' = [equip_records EXCEPT ![p] = S]
        /\ mail_records' = mail_records /\ mails' = mails
    BY <1>0, <1>3
  <2> QED
    BY <2>1, <1>4, <1>5, OneChanged
<1>7. \A x : OnSale(x)' <=> OnSale(x)
  BY <1>0 DEF OnSale
<1>8. OnePlace'
  <2>1. \A q \in Players : q # p => ~Has(equip_records[q], e)
    BY <1>0, <1>2 DEF OnePlace
  <2>2. ~OnSale(e) /\ e \in made
    BY <1>0, <1>2 DEF OnePlace
  <2>3. \A q \in Players : \A x : Has(equip_records'[q], x) <=> Has(equip_records[q], x) /\ x # e
    BY <1>3, <1>6, <2>1
  <2> QED
    BY <1>0, <1>7, <2>2, <2>3 DEF OnePlace
<1> QED
  BY <1>0, <1>6, <1>8, RestartKeeps

\* The bought equip is the buyer's, and the seller has no e-mail.
LEMMA UnpaidKeeps ==
    ASSUME GoodsAssumption, GoodsInv, NEW p \in connected, NEW e \in DOMAIN market_index,
           Free(p) # {}, Restart({g \in market_records : g.sn # e}),
           equip_records' = [equip_records EXCEPT ![p] = WithEquip(@, Bought(p, e))],
           UNCHANGED << mail_records, made, mails, torn, lost >>
    PROVE  GoodsInv'
<1> PICK T, R, b, h, i : /\ T = torn[p] /\ R = equip_records[p] /\ b = my_backpack[p]
                         /\ h = hero_equip[p] /\ i = Smallest(Free(p))
  OBVIOUS
<1> PICK S, c, Q : /\ S = WithEquip(R, EquipRecord(e, 0, i, NoEquip)) /\ c = [b EXCEPT ![i] = e]
                   /\ Q = {g \in market_records : g.sn # e}
  OBVIOUS
<1>0. /\ GoodsTypes /\ OnePlace /\ p \in Players /\ Restart(Q) /\ market_records' = Q
      /\ equip_records' = [equip_records EXCEPT ![p] = S] /\ torn' = torn
      /\ mail_records' = mail_records /\ made' = made /\ mails' = mails /\ lost' = lost
  BY DEF GoodsInv, GoodsTypes, Bought, Restart
<1>1. RecordsOK(p, T, R) /\ Shows(p, T, R, b, h) /\ MailsOK(R, mail_records[p], mails)
        /\ MailsShown(R, email_list[p], mail_records[p])
  BY OnlinePlayer
<1>2. e \in Equips /\ OnSale(e) /\ e \in made /\ \A q \in Players : ~Has(equip_records[q], e)
  BY OnMarket
<1>3. \A r \in R : r.sn # e
  BY <1>0, <1>2 DEF Has
<1>4. i \in Slots(p) /\ b[i] = NoEquip
  BY <1>0, FoundSlot
<1>5. /\ RecordsOK(p, T, S)
      /\ \A x : Has(S, x) <=> Has(R, x) \/ x = e
      /\ \A r \in S : r.pannle = 2 => r \in R
      /\ \A r \in R : r.sn # e => r \in S
  BY <1>0, <1>1, <1>2, <1>3, <1>4, PutInBackpack
<1>6. MailsOK(S, mail_records[p], mails)
  BY <1>1, <1>3, <1>5, MailsStay
<1>7. torn' = [torn EXCEPT ![p] = T]
  BY <1>0 DEF GoodsTypes
<1>8. /\ RecordTypes' /\ RecordsKept' /\ equip_records'[p] = S
      /\ \A q \in Players \ {p} : equip_records'[q] = equip_records[q]
  BY <1>0, <1>5, <1>6, <1>7, OneChanged
<1>9. \A x : OnSale(x)' <=> OnSale(x) /\ x # e
  BY <1>0 DEF OnSale
<1>10. OnePlace'
  <2>1. \A q \in Players : \A x : Has(equip_records'[q], x) <=> Has(equip_records[q], x) \/ (q = p /\ x = e)
    BY <1>0, <1>5, <1>8
  <2>2. \A q, r \in Players, x \in Equips :
          Has(equip_records'[q], x) /\ Has(equip_records'[r], x) => q = r
    BY <1>0, <1>2, <2>1 DEF OnePlace
  <2>3. \A q \in Players, x \in Equips : ~(Has(equip_records'[q], x) /\ OnSale(x)')
    BY <1>0, <1>2, <1>9, <2>1 DEF OnePlace
  <2>4. \A x \in Equips :
          x \in made' \ lost' <=> (OnSale(x)' \/ \E q \in Players : Has(equip_records'[q], x))
    <3> TAKE x \in Equips
    <3>1. x \in made \ lost <=> (OnSale(x) \/ \E q \in Players : Has(equip_records[q], x))
      BY <1>0 DEF OnePlace
    <3>2. CASE x = e
      BY <3>1, <3>2, <1>0, <1>2, <2>1
    <3>3. CASE x # e
      BY <3>1, <3>3, <1>0, <1>9, <2>1
    <3> QED
      BY <3>2, <3>3
  <2> QED
    BY <1>0, <2>2, <2>3, <2>4 DEF OnePlace
<1> QED
  BY <1>0, <1>8, <1>10, RestartKeeps

\* A purchase that the end of the gateway cuts short.
LEMMA BuyCutKeeps ==
    ASSUME GoodsAssumption, GoodsInv, NEW p \in Players, NEW e \in DOMAIN market_index,
           BuyCut(p, e)
    PROVE  GoodsInv'
<1> PICK Q : Q = {g \in market_records : g.sn # e}
  OBVIOUS
<1>0. /\ p \in connected /\ Free(p) # {}
      /\ mail_records' = mail_records /\ made' = made /\ mails' = mails /\ torn' = torn
  BY DEF BuyCut, MayBuy
<1>1. \/ Restart(market_records) /\ equip_records' = equip_records /\ lost' = lost
      \/ Restart(Q) /\ lost' = lost \cup {e} /\ equip_records' = equip_records
      \/ /\ Restart(Q) /\ lost' = lost
         /\ equip_records' = [equip_records EXCEPT ![p] = WithEquip(@, Bought(p, e))]
  BY DEF BuyCut
<1>2. CASE Restart(market_records) /\ equip_records' = equip_records /\ lost' = lost
  <2>1. lost' = lost \cup {}
    BY <1>2
  <2> QED
    BY <1>0, <1>2, <2>1, CutKeeps
<1>3. CASE Restart(Q) /\ lost' = lost \cup {e} /\ equip_records' = equip_records
  BY <1>0, <1>3, CutKeeps
<1>4. CASE /\ Restart(Q) /\ lost' = lost
           /\ equip_records' = [equip_records EXCEPT ![p] = WithEquip(@, Bought(p, e))]
  BY <1>0, <1>4, UnpaidKeeps
<1> QED
  BY <1>1, <1>2, <1>3, <1>4

\* Where no record of a player changes: a restart between two handlers, a good that is
\* deleted and goes to nobody, an e-mail that is paid and stays.
LEMMA EndKeeps ==
    ASSUME GoodsInv, \/ GatewayRestarts
                     \/ \E e \in DOMAIN market_index : PushCut(e)
                     \/ \E p \in Players, m \in UNION {email_list[q] : q \in Players} : EmailCut(p, m)
    PROVE  GoodsInv'
<1>1. ASSUME /\ Restart(market_records)
             /\ UNCHANGED << equip_records, mail_records, made, mails, lost, torn >>
      PROVE  GoodsInv'
  <2>1. lost' = lost \cup {}
    BY <1>1
  <2> QED
    BY <1>1, <2>1, CutKeeps
<1>2. CASE GatewayRestarts
  BY <1>1, <1>2 DEF GatewayRestarts
<1>3. ASSUME NEW e \in DOMAIN market_index, PushCut(e) PROVE GoodsInv'
  <2> PICK Q : Q = {g \in market_records : g.sn # e}
    OBVIOUS
  <2>1. /\ Restart(Q) /\ lost' = lost \cup {e}
        /\ UNCHANGED << equip_records, mail_records, made, mails, torn >>
    BY <1>3 DEF PushCut
  <2> QED
    BY <2>1, CutKeeps
<1>4. ASSUME NEW p \in Players, NEW m, EmailCut(p, m) PROVE GoodsInv'
  BY <1>1, <1>4 DEF EmailCut
<1> QED
  BY <1>2, <1>3, <1>4

\* What none of the variables that GoodsInv reads changes, keeps it.
LEMMA StutterKeeps == ASSUME GoodsInv, UNCHANGED goodsVars PROVE GoodsInv'
<1>1. UNCHANGED << connected, my_backpack, hero_equip, email_list, market, market_index,
                   equip_records, market_records, mail_records, made, mails, lost, torn >>
  BY DEF goodsVars
<1>2. GoodsTypes' /\ RecordsKept'
  BY <1>1 DEF GoodsInv, GoodsTypes, RecordsKept
<1>3. Shown'
  BY <1>1 DEF GoodsInv, Shown
<1>4. OnePlace' /\ Indexed'
  BY <1>1 DEF GoodsInv, OnePlace, OnSale, Indexed
<1> QED
  BY <1>2, <1>3, <1>4 DEF GoodsInv

\* Every handler of the gateway keeps the invariant.
LEMMA StepGoods == ASSUME GoodsAssumption, GoodsInv, [GoodsNext]_goodsVars PROVE GoodsInv'
<1>1. CASE GatewayRestarts
  BY <1>1, EndKeeps
<1>2. ASSUME NEW p \in Players, GoodsLogin(p) PROVE GoodsInv'
  BY <1>2, LoginKeeps
<1>3. ASSUME NEW p \in Players, GoodsClose(p) PROVE GoodsInv'
  BY <1>3, CloseKeeps
<1>4. ASSUME NEW p \in Players, OpenBox(p) PROVE GoodsInv'
  BY <1>4, OpenBoxKeeps
<1>5. ASSUME NEW p \in Players, NEW i \in Slots(p), NEW j \in HeroSlots, DressEquip(p, i, j)
      PROVE  GoodsInv'
  BY <1>5, DressKeeps
<1>6. ASSUME NEW p \in Players, NEW j \in HeroSlots, UnloadEquip(p, j) PROVE GoodsInv'
  BY <1>6, UnloadKeeps
<1>7. ASSUME NEW p \in Players, NEW i \in Slots(p), NEW c \in Prices, SaleGoods(p, i, c)
      PROVE  GoodsInv'
  BY <1>7, SaleKeeps
<1>8. ASSUME NEW p \in Players, NEW e \in DOMAIN market_index, BuyMarketGoods(p, e)
      PROVE  GoodsInv'
  BY <1>8, BuyKeeps
<1>9. ASSUME NEW p \in Players, NEW m \in email_list[p], GetEmailGoods(p, m) PROVE GoodsInv'
  BY <1>9, TakeKeeps
<1>10. ASSUME NEW e \in DOMAIN market_index, PushNotify(e) PROVE GoodsInv'
  BY <1>10, NotifyKeeps
<1>11. ASSUME NEW p \in Players, NEW i \in Slots(p), NEW j \in HeroSlots, DressCut(p, i, j)
       PROVE  GoodsInv'
  BY <1>11, DressCutKeeps
<1>12. ASSUME NEW p \in Players, NEW i \in Slots(p), SaleCut(p, i) PROVE GoodsInv'
  BY <1>12, SaleCutKeeps
<1>13. ASSUME NEW p \in Players, NEW e \in DOMAIN market_index, BuyCut(p, e) PROVE GoodsInv'
  BY <1>13, BuyCutKeeps
<1>14. ASSUME NEW p \in Players, NEW m \in email_list[p], EmailCut(p, m) PROVE GoodsInv'
  BY <1>14, EndKeeps
<1>15. ASSUME NEW e \in DOMAIN market_index, PushCut(e) PROVE GoodsInv'
  BY <1>15, EndKeeps
<1>16. CASE UNCHANGED goodsVars
  BY <1>16, StutterKeeps
<1> QED
  BY <1>1, <1>2, <1>3, <1>4, <1>5, <1>6, <1>7, <1>8, <1>9, <1>10, <1>11, <1>12, <1>13, <1>14,
     <1>15, <1>16 DEF GoodsNext

\* In every state of the gateway, after any restarts: the inductive invariant.
LEMMA GoodsAlways == GoodsSpec => []GoodsInv
<1>1. GoodsInit => GoodsInv
  BY GoodsAssumption, InitGoods
<1>2. GoodsInv /\ [GoodsNext]_goodsVars => GoodsInv'
  BY GoodsAssumption, StepGoods
<1> QED
  BY <1>1, <1>2, PTL DEF GoodsSpec

\* An equip with one place is counted once.
LEMMA CountedOnce == GoodsInv => KeptOnce
<1> SUFFICES ASSUME GoodsInv, NEW e \in made
             PROVE  Cardinality({p \in Players : \E r \in equip_records[p] : r.sn = e})
                    + Cardinality({g \in market_records : g.sn = e})
                        = IF e \in lost THEN 0 ELSE 1
  BY DEF KeptOnce
<1> DEFINE P == {p \in Players : \E r \in equip_records[p] : r.sn = e}
           G == {g \in market_records : g.sn = e}
<1>1. e \in Equips /\ OnePlace /\ IndexedBy(market, market_index, market_records)
  BY DEF GoodsInv, GoodsTypes, Indexed
<1>0. e \notin lost <=> (OnSale(e) \/ \E p \in Players : Has(equip_records[p], e))
  BY <1>1 DEF OnePlace
<1>4. CASE e \in lost
  <2>1. P = {} /\ G = {}
    BY <1>0, <1>4 DEF Has, OnSale
  <2>2. Cardinality({}) = 0
    BY FS_EmptySet
  <2> QED
    BY <1>4, <2>1, <2>2
<1>2. CASE OnSale(e)
  <2>1. P = {}
    BY <1>1, <1>2 DEF OnePlace, Has
  <2>2. PICK g \in market_records : g.sn = e
    BY <1>2 DEF OnSale
  <2>3. \A k \in G : k = g
    <3> SUFFICES ASSUME NEW k \in G PROVE k = g
      OBVIOUS
    <3>1. \A f \in market_records : \E i \in 1 .. Len(market) : market[i] = f
      BY <1>1 DEF IndexedBy
    <3>2. PICK i \in 1 .. Len(market) : market[i] = g
      BY <3>1
    <3>3. PICK j \in 1 .. Len(market) : market[j] = k
      BY <3>1
    <3>4. market_index[market[i].sn] = i /\ market_index[market[j].sn] = j
      BY <1>1 DEF IndexedBy
    <3> QED
      BY <2>2, <3>2, <3>3, <3>4
  <2>4. G = {g}
    BY <2>2, <2>3
  <2>5. Cardinality(P) = 0 /\ Cardinality(G) = 1
    <3>1. Cardinality({}) = 0
      BY FS_EmptySet
    <3>2. Cardinality({g}) = 1
      BY FS_Singleton
    <3> QED
      BY <2>1, <2>4, <3>1, <3>2
  <2> QED
    BY <1>0, <1>2, <2>5
<1>3. CASE ~OnSale(e) /\ e \notin lost
  <2>1. G = {}
    BY <1>3 DEF OnSale
  <2>2. PICK p \in Players : Has(equip_records[p], e)
    BY <1>0, <1>3
  <2>3. P = {p}
    BY <1>1, <2>2 DEF OnePlace, Has
  <2>4. Cardinality(P) = 1 /\ Cardinality(G) = 0
    <3>1. Cardinality({}) = 0
      BY FS_EmptySet
    <3>2. Cardinality({p}) = 1
      BY FS_Singleton
    <3> QED
      BY <2>1, <2>3, <3>1, <3>2
  <2> QED
    BY <1>3, <2>4
<1> QED
  BY <1>2, <1>3, <1>4

\* Whatever is dressed, sold, bought and sent back in between, and at whatever command the
\* gateway ends, an equip is never doubled, and lost only where the code loses it: redis has
\* one record of it, at one player or on the market.
THEOREM EquipKeptOnce == GoodsSpec => []KeptOnce
<1>1. GoodsSpec => []GoodsInv
  BY GoodsAlways
<1> QED
  BY <1>1, CountedOnce, PTL

-----------------------------------------------------------------------------
\* The whole part of a quotient.
LEMMA PageOf ==
    ASSUME NEW a \in Nat, NEW b \in Nat \ {0}
    PROVE  a \div b \in Nat /\ b * (a \div b) <= a /\ a < b * ((a \div b) + 1)
OBVIOUS

\* Multiplying by a natural keeps an order.
LEMMA TimesMore == ASSUME NEW a \in Nat, NEW b \in Nat, a <= b, NEW c \in Nat PROVE a * c <= b * c
OBVIOUS

\* The j-th good is on the page of (j - 1) \div PageSize and on no other one.
LEMMA OnePage ==
    ASSUME NEW k \in Nat \ {0}, NEW l \in Nat, NEW j \in 1 .. l
    PROVE  \E n \in 1 .. l \div k + 1 :
              \A q \in 1 .. l \div k + 1 : (q - 1) * k < j /\ j <= q * k <=> q = n
<1> PICK a, n : a = (j - 1) \div k /\ n = a + 1
  OBVIOUS
<1>1. a \in Nat /\ k * a <= j - 1 /\ j - 1 < k * (a + 1)
  BY PageOf
<1>2. l \div k \in Nat /\ l < k * ((l \div k) + 1)
  BY PageOf
<1>3. a <= l \div k
  <2> SUFFICES ASSUME a > l \div k PROVE FALSE
    BY <1>1, <1>2
  <2> PICK b : b = l \div k
    OBVIOUS
  <2>1. b \in Nat /\ b + 1 <= a
    BY <1>1, <1>2
  <2>2. (b + 1) * k <= a * k
    BY <1>1, <2>1, TimesMore
  <2> QED
    BY <1>1, <1>2, <2>1, <2>2
<1>4. ASSUME NEW q \in 1 .. l \div k + 1 PROVE (q - 1) * k < j /\ j <= q * k <=> q = n
  <2>0. q \in Nat /\ q - 1 \in Nat /\ n \in Nat
    BY <1>1, <1>2, <1>4
  <2>1. CASE q = n
    BY <1>1, <2>1
  <2>2. CASE q < n
    <3>1. q * k <= a * k
      BY <1>1, <2>0, <2>2, TimesMore
    <3> QED
      BY <1>1, <2>0, <2>2, <3>1
  <2>3. CASE q > n
    <3>1. n * k <= (q - 1) * k
      BY <1>1, <2>0, <2>3, TimesMore
    <3> QED
      BY <1>1, <2>0, <2>3, <3>1
  <2> QED
    BY <2>0, <2>1, <2>2, <2>3
<1>5. n \in 1 .. l \div k + 1
  BY <1>1, <1>2, <1>3
<1> QED
  BY <1>4, <1>5

\* The market in memory, its index, its pages and redis.
LEMMA MarketAgrees == GoodsAssumption /\ GoodsInv => MarketIndexed
<1> SUFFICES ASSUME GoodsAssumption, GoodsInv PROVE MarketIndexed
  OBVIOUS
<1>1. IndexedBy(market, market_index, market_records)
  BY DEF GoodsInv, Indexed
<1>2. market \in Seq(GoodRecords) /\ Len(market) \in Nat /\ DOMAIN market = 1 .. Len(market)
  BY <1>1 DEF IndexedBy
<1>3. DOMAIN market_index = {g.sn : g \in market_records}
  BY <1>1 DEF IndexedBy
<1>4. \A e \in DOMAIN market_index :
         /\ market_index[e] \in DOMAIN market
         /\ market[market_index[e]].sn = e
  BY <1>1, <1>2 DEF IndexedBy
<1>5. ToSet(market) = market_records
  BY <1>1, <1>2 DEF IndexedBy, ToSet
<1>6. ASSUME NEW g \in market_records
      PROVE  Cardinality({n \in 1 .. AllPages : g \in MarketList(n)}) = 1
  <2>1. PICK j \in 1 .. Len(market) : market[j] = g
    BY <1>1 DEF IndexedBy
  <2>2. \A i \in 1 .. Len(market) : market[i] = g <=> i = j
    <3>1. \A i \in 1 .. Len(market) : market_index[market[i].sn] = i
      BY <1>1 DEF IndexedBy
    <3> QED
      BY <2>1, <3>1
  <2>3. PageSize \in Nat \ {0}
    BY DEF GoodsAssumption
  <2>4. PICK n \in 1 .. AllPages :
           \A q \in 1 .. AllPages : (q - 1) * PageSize < j /\ j <= q * PageSize <=> q = n
    BY <1>2, <2>1, <2>3, OnePage DEF AllPages
  <2>5. ASSUME NEW q \in 1 .. AllPages PROVE g \in MarketList(q) <=> q = n
    <3>1. g \in MarketList(q) <=> \E i \in 1 .. Len(market) :
             (q - 1) * PageSize < i /\ i <= q * PageSize /\ market[i] = g
      BY <1>2 DEF MarketList
    <3>2. g \in MarketList(q) <=> (q - 1) * PageSize < j /\ j <= q * PageSize
      BY <2>1, <2>2, <3>1
    <3> QED
      BY <2>4, <3>2
  <2>6. {q \in 1 .. AllPages : g \in MarketList(q)} = {n}
    BY <2>5
  <2> QED
    BY <2>6, FS_Singleton
<1> QED
  BY <1>3, <1>4, <1>5, <1>6 DEF MarketIndexed

\* The memory of online players and of the gateway, and redis.
LEMMA MemoryAndRedis == GoodsInv => SlotsAgree /\ MailsAgree
<1> SUFFICES ASSUME GoodsInv PROVE SlotsAgree /\ MailsAgree
  OBVIOUS
<1>1. SlotsAgree
  BY DEF GoodsInv, Shown, Shows, SlotsAgree
<1>2. ASSUME NEW p \in connected
      PROVE  {m \in email_list[p] : m.diamond > 0} = {m \in mail_records[p] : m.diamond > 0}
  <2>1. p \in Players
    BY DEF GoodsInv, GoodsTypes
  <2>2. mail_records[p] \subseteq MailRecords
    BY <2>1 DEF GoodsInv, RecordsKept, MailsOK
  <2>3. email_list[p] \subseteq MailRecords
    BY DEF GoodsInv, Shown, MailsShown
  <2>4. \A m \in MailRecords : m.diamond > 0 => (m \in email_list[p] <=> m \in mail_records[p])
    BY DEF GoodsInv, Shown, MailsShown
  <2> QED
    BY <2>2, <2>3, <2>4
<1> QED
  BY <1>1, <1>2 DEF MailsAgree

\* What the gateway holds in memory is what redis has: the slots and the e-mails of its
\* online players, and the market, whose index leads to every good and whose pages show
\* each good once.
THEOREM GoodsAgree == GoodsSpec => [](SlotsAgree /\ MarketIndexed /\ MailsAgree)
<1>1. GoodsInv => SlotsAgree /\ MarketIndexed /\ MailsAgree
  BY GoodsAssumption, MarketAgrees, MemoryAndRedis
<1> QED
  BY <1>1, GoodsAlways, PTL

-----------------------------------------------------------------------------
(* The buildings.                                                          *)

Buildings == [kind : BuildKinds, status : {0, 1}, level : Nat, left : Nat, age : Nat]

CityTypes ==
    /\ my_build \in [Sns -> Buildings \cup {NoBuild}]
    /\ build_records \in [Sns -> Buildings \cup {NoBuild}]
    /\ live \in [Sns -> Seq(Int)] /\ building_timer \subseteq Sns
    /\ building \in [Sns -> Int] /\ money \in Int

\* What runs is under construction, and nothing runs for a player who is away.
TimersOK ==
    /\ \A s \in Sns :
         /\ s \in building_timer => /\ my_build[s] # NoBuild /\ my_build[s].status = 1
                                    /\ Len(live[s]) = 1
         /\ s \notin building_timer => live[s] = << >>
    /\ ~here => building_timer = {}

CityInv == CityTypes /\ TimersOK /\ BuildsSaved

\* The operations on a building.
LEMMA Builds ==
    ASSUME NEW b \in Buildings
    PROVE  /\ b # NoBuild
           /\ Finished(b) \in Buildings /\ Finished(b).status = 0
           /\ Finished(b).level = b.level + 1
           /\ Aged(b) \in Buildings /\ Aged(b).status = b.status /\ Aged(b).level = b.level
           /\ [b EXCEPT !.age = 0] \in Buildings
           /\ [b EXCEPT !.age = 0].status = b.status /\ [b EXCEPT !.age = 0].level = b.level
<1>1. b # NoBuild
  BY CityAssumption DEF Buildings
<1>2. Finished(b) \in Buildings /\ Finished(b).status = 0 /\ Finished(b).level = b.level + 1
  BY DEF Finished, Building, Buildings
<1>3. [b EXCEPT !.age = 0] \in Buildings /\ [b EXCEPT !.age = 0].status = b.status
      /\ [b EXCEPT !.age = 0].level = b.level
  BY DEF Buildings
<1>4. Aged(b) \in Buildings /\ Aged(b).status = b.status /\ Aged(b).level = b.level
  <2> DEFINE l == IF b.left > 0 THEN b.left - 1 ELSE 0
             a == IF IsFactory(b) /\ b.status = 0 /\ b.age < Space THEN b.age + 1 ELSE b.age
  <2>1. Aged(b) = [b EXCEPT !.left = l, !.age = a]
    BY <1>1 DEF Aged
  <2>2. l \in Nat /\ a \in Nat
    BY DEF Buildings
  <2> HIDE DEF l, a
  <2> QED
    BY <2>1, <2>2 DEF Buildings
<1> QED
  BY <1>1, <1>2, <1>3, <1>4

\* A building and a construction that begin.
LEMMA NewBuilding ==
    ASSUME NEW k \in BuildKinds, NEW st \in {0, 1}, NEW l \in Nat, NEW t \in Nat
    PROVE  /\ Building(k, st, l, t) \in Buildings /\ Building(k, st, l, t) # NoBuild
           /\ Building(k, st, l, t).status = st /\ Building(k, st, l, t).level = l
           /\ Building(k, st, l, t).left = t
<1>1. Building(k, st, l, t) \in Buildings
  BY DEF Building, Buildings
<1> QED
  BY <1>1, Builds DEF Building

\* It holds at the start.
LEMMA CityStart == CityInit => CityInv
<1> SUFFICES ASSUME CityInit PROVE CityInv
  OBVIOUS
<1>1. InitialBuilds \in [Sns -> Buildings \cup {NoBuild}]
  <2> SUFFICES ASSUME NEW s \in Sns, s \in DOMAIN StartKind
               PROVE  Building(StartKind[s], 0, StartLevel[s], 0) \in Buildings
    BY DEF InitialBuilds
  <2> QED
    BY NewBuilding, CityAssumption
<1>2. CityTypes
  BY <1>1, CityAssumption DEF CityInit, CityTypes
<1>3. TimersOK /\ BuildsSaved
  BY DEF CityInit, TimersOK, BuildsSaved
<1> QED
  BY <1>2, <1>3 DEF CityInv

\* A construction starts where nothing runs.
LEMMA StartKeeps ==
    ASSUME CityInv, here, NEW sn \in Sns, sn \notin building_timer,
           NEW b \in Buildings, b.status = 1, Start(sn, b), here' = here, money' \in Int,
           build_num' = num_records'
    PROVE  CityInv' /\ \A s \in Sns : s # sn => build_records'[s] = build_records[s]
<1>1. /\ my_build \in [Sns -> Buildings \cup {NoBuild}] /\ my_build = build_records
      /\ live \in [Sns -> Seq(Int)] /\ building_timer \subseteq Sns
  BY DEF CityInv, CityTypes, BuildsSaved
<1>2. my_build' = [my_build EXCEPT ![sn] = b] /\ build_records' = [build_records EXCEPT ![sn] = b]
  BY DEF Start, SetBuild
<1>3. b # NoBuild /\ b.left \in Int
  <2>1. b # NoBuild
    BY Builds
  <2> QED
    BY <2>1 DEF Buildings
<1>4. live[sn] = << >>
  BY DEF CityInv, TimersOK
<1>5. \/ /\ building_timer' = building_timer \cup {sn}
         /\ live' = [live EXCEPT ![sn] = << b.left >>]
      \/ UNCHANGED << building_timer, live >>
  BY <1>1, <1>4 DEF Start, EnTimer
<1>6. CityTypes'
  <2>0. building' \in [Sns -> Int]
    BY DEF Start, CityInv, CityTypes
  <2>1. live' \in [Sns -> Seq(Int)] /\ building_timer' \subseteq Sns
    <3>1. << b.left >> \in Seq(Int)
      BY <1>3
    <3> QED
      BY <1>1, <1>5, <3>1
  <2> QED
    BY <1>1, <1>2, <2>0, <2>1 DEF CityTypes
<1>7. TimersOK'
  <2>1. \A s \in Sns : s # sn => /\ my_build'[s] = my_build[s] /\ live'[s] = live[s]
                                 /\ s \in building_timer' <=> s \in building_timer
    BY <1>1, <1>2, <1>5
  <2>2. my_build'[sn] = b
    BY <1>1, <1>2
  <2>3. sn \in building_timer' => Len(live'[sn]) = 1
    BY <1>1, <1>5
  <2>4. sn \notin building_timer' => live'[sn] = << >>
    BY <1>4, <1>5
  <2> QED
    BY <1>3, <2>1, <2>2, <2>3, <2>4 DEF CityInv, TimersOK
<1>8. BuildsSaved'
  BY <1>1, <1>2 DEF BuildsSaved
<1> QED
  BY <1>1, <1>2, <1>6, <1>7, <1>8 DEF CityInv

\* A construction that has a timer ends with it, whether the timer is deleted or its wait
\* has run.
LEMMA HandleKeeps ==
    ASSUME CityInv, here, NEW sn \in building_timer, NEW ts, NEW known,
           BuildTimerHandle(sn, ts, known),
           (known = TRUE /\ ts = live[sn]) \/ (known = FALSE /\ ts = << >>),
           UNCHANGED << here, build_num, num_records >>, money' \in Int
    PROVE  /\ CityInv' /\ \A s \in Sns : s # sn => build_records'[s] = build_records[s]
           /\ build_records'[sn].level = build_records[sn].level + 1
           /\ build_records[sn].status = 1
<1>1. /\ my_build \in [Sns -> Buildings \cup {NoBuild}] /\ my_build = build_records
      /\ live \in [Sns -> Seq(Int)] /\ building_timer \subseteq Sns /\ sn \in Sns
      /\ build_num = num_records
  BY DEF CityInv, CityTypes, BuildsSaved
<1> PICK b : b = my_build[sn]
  OBVIOUS
<1>2. /\ b \in Buildings /\ b.status = 1 /\ Len(live[sn]) = 1 /\ live[sn] \in Seq(Int)
  BY <1>1 DEF CityInv, TimersOK
<1>3. /\ my_build' = [my_build EXCEPT ![sn] = Finished(b)]
      /\ build_records' = [build_records EXCEPT ![sn] = Finished(b)]
      /\ building_timer' = building_timer \ {sn}
      /\ live' = [live EXCEPT ![sn] = << >>]
  <2>1. live[sn] # << >> /\ Front(live[sn]) = << >>
    <3> PICK q : q = live[sn]
      OBVIOUS
    <3>1. Len(q) = 1
      BY <1>2
    <3>2. SubSeq(q, 1, 0) = << >>
      BY SubSeqEmpty
    <3>3. Front(q) = << >>
      BY <3>1, <3>2 DEF Front
    <3>4. q # << >>
      <4>1. Len(<< >>) = 0
        BY LenProperties, EmptySeq
      <4>2. q = << >> => Len(q) = Len(<< >>)
        OBVIOUS
      <4> QED
        BY <3>1, <4>1, <4>2
    <3> QED
      BY <3>3, <3>4
  <2>2. (IF known THEN WithoutTimer(sn, ts) ELSE ts) = << >>
    BY <2>1 DEF WithoutTimer
  <2> QED
    BY <1>1, <2>2 DEF BuildTimerHandle, SetBuild
<1>4. Finished(b) \in Buildings /\ Finished(b).level = b.level + 1
  BY <1>2, Builds
<1>5. CityTypes'
  <2>1. building' \in [Sns -> Int]
    BY DEF BuildTimerHandle, CityInv, CityTypes
  <2>2. /\ my_build' \in [Sns -> Buildings \cup {NoBuild}]
        /\ build_records' \in [Sns -> Buildings \cup {NoBuild}]
    BY <1>1, <1>3, <1>4
  <2>3. live' \in [Sns -> Seq(Int)]
    BY <1>1, <1>3
  <2>4. building_timer' \subseteq Sns
    BY <1>1, <1>3
  <2> QED
    BY <2>1, <2>2, <2>3, <2>4 DEF CityTypes
<1>6. TimersOK'
  BY <1>1, <1>3 DEF CityInv, TimersOK
<1>7. BuildsSaved'
  BY <1>1, <1>3 DEF BuildsSaved
<1> QED
  BY <1>1, <1>2, <1>3, <1>4, <1>5, <1>6, <1>7 DEF CityInv


\* LevelsEarned in one step.
Earned ==
    \A s \in Sns :
        build_records[s] # NoBuild /\ build_records'[s] # build_records[s] =>
           \/ build_records'[s].level = build_records[s].level
           \/ /\ build_records'[s].level = build_records[s].level + 1
              /\ build_records[s].status = 1 \/ RaisedAtRest(s)

\* A login brings back what redis has.
LEMMA CityLoginKeeps ==
    ASSUME CityInv, CityLogin
    PROVE  CityInv' /\ Earned
<1>1. build_records \in [Sns -> Buildings \cup {NoBuild}] /\ money \in Int
  BY DEF CityInv, CityTypes
<1>2. ASSUME NEW s \in Sns
      PROVE  /\ Restored[s] \in Buildings \cup {NoBuild}
             /\ Short(s) => /\ Restored[s] = build_records[s] /\ Restored[s] # NoBuild
                            /\ Restored[s].status = 1
             /\ Restored[s] # build_records[s] =>
                  /\ Restored[s].level = build_records[s].level + 1
                  /\ build_records[s].status = 1
  <2> PICK b : b = build_records[s]
    OBVIOUS
  <2>1. Restored[s] = IF Over(s) THEN Finished(b) ELSE b
    BY DEF Restored
  <2>2. b \in Buildings \cup {NoBuild}
    BY <1>1
  <2>3. Over(s) => b # NoBuild /\ b.status = 1 /\ b.left = 0
    BY DEF Over
  <2>4. Short(s) => b # NoBuild /\ b.status = 1 /\ ~Over(s)
    BY DEF Short, Over
  <2>5. Over(s) => Finished(b) \in Buildings /\ Finished(b).level = b.level + 1
    BY <2>2, <2>3, Builds
  <2> QED
    BY <2>1, <2>2, <2>3, <2>4, <2>5
<1>3. /\ my_build' = Restored /\ build_records' = Restored
      /\ building_timer' = {s \in Sns : Short(s)}
      /\ live' = [s \in Sns |-> IF Short(s) THEN << build_records[s].left >> ELSE << >>]
      /\ here' /\ build_num' = num_records' /\ money' = money /\ building' \in [Sns -> Int]
  BY DEF CityLogin, GetMyBuildNum
<1>4. Restored \in [Sns -> Buildings \cup {NoBuild}]
  <2>1. Restored = [s \in Sns |-> Restored[s]]
    BY DEF Restored
  <2> QED
    BY <1>2, <2>1
<1>5. \A s \in Sns : Short(s) => build_records[s].left \in Int
  BY DEF Short
<1>6. live' \in [Sns -> Seq(Int)]
  BY <1>3, <1>5
<1>7. CityTypes'
  BY <1>1, <1>3, <1>4, <1>6 DEF CityTypes
<1>8. TimersOK'
  <2>1. ASSUME NEW s \in Sns
        PROVE  /\ s \in building_timer' => /\ my_build'[s] # NoBuild /\ my_build'[s].status = 1
                                           /\ Len(live'[s]) = 1
               /\ s \notin building_timer' => live'[s] = << >>
    BY <1>2, <1>3
  <2> QED
    BY <1>3, <2>1 DEF TimersOK
<1>9. BuildsSaved' /\ Earned
  BY <1>2, <1>3 DEF BuildsSaved, Earned
<1> QED
  BY <1>7, <1>8, <1>9 DEF CityInv

\* What FastFinish takes.
LEMMA PriceIsNumber == ASSUME NEW b \in Buildings PROVE Price(b) \in Int
<1>1. b.left \in Nat /\ PriceUnit \in Nat /\ PriceUnit > 0
  BY CityAssumption DEF Buildings
<1>2. ASSUME NEW n \in Nat PROVE n \div PriceUnit \in Nat
  BY <1>1
<1> QED
  BY <1>1, <1>2 DEF Price

\* The end of the gateway, whatever buildings are saved by then.
LEMMA EndsKeep ==
    ASSUME NEW builds \in [Sns -> Buildings \cup {NoBuild}], NEW keys, NEW left \in Int,
           CityEnds(builds, keys, left)
    PROVE  CityInv' /\ ~here' /\ build_records' = builds /\ money' = left
           /\ \A s \in Sns : building'[s] = 0
<1>1. /\ here' = FALSE /\ my_build' = Nothing /\ building' = [s \in Sns |-> 0]
      /\ building_timer' = {} /\ live' = [s \in Sns |-> << >>]
      /\ build_records' = builds /\ money' = left
  BY DEF CityEnds, Forgotten
<1>2. CityTypes'
  BY <1>1 DEF CityTypes, Nothing
<1>3. TimersOK' /\ BuildsSaved'
  BY <1>1 DEF TimersOK, BuildsSaved
<1> QED
  BY <1>1, <1>2, <1>3 DEF CityInv

\* It ends between two handlers or in one, and levels are earned.
LEMMA GatewayEndsKeeps ==
    ASSUME CityInv, GatewayEnds
    PROVE  CityInv' /\ Earned
<1>1. /\ my_build \in [Sns -> Buildings \cup {NoBuild}]
      /\ build_records \in [Sns -> Buildings \cup {NoBuild}]
      /\ building \in [Sns -> Int] /\ money \in Int
      /\ here => my_build = build_records
  BY DEF CityInv, CityTypes, BuildsSaved
<1>2. ASSUME NEW keys, CityEnds(build_records, keys, money) PROVE CityInv' /\ Earned
  <2>1. CityInv' /\ build_records' = build_records
    BY <1>1, <1>2, EndsKeep
  <2> QED
    BY <2>1 DEF Earned
<1>3. ASSUME NEW k \in BuildKinds, CreateCut(k) PROVE CityInv' /\ Earned
  <2>1. PICK sn \in Unused :
           \E builds \in {build_records, [build_records EXCEPT ![sn] = New(k)]} :
              CityEnds(builds, timer_keys \cup {sn}, money - DiamondCost[k])
    BY <1>3 DEF CreateCut
  <2>2. PICK builds \in {build_records, [build_records EXCEPT ![sn] = New(k)]} :
           CityEnds(builds, timer_keys \cup {sn}, money - DiamondCost[k])
    BY <2>1
  <2>3. sn \in Sns /\ build_records[sn] = NoBuild
    BY DEF Unused, Built
  <2>4. New(k) \in Buildings /\ money - DiamondCost[k] \in Int
    <3>1. BuildSeconds[k] \in Nat /\ DiamondCost[k] \in Nat
      BY CityAssumption
    <3> QED
      BY <1>1, <3>1, NewBuilding DEF New
  <2>5. builds \in [Sns -> Buildings \cup {NoBuild}]
    BY <1>1, <2>4
  <2>6. CityInv' /\ build_records' = builds
    BY <2>2, <2>4, <2>5, EndsKeep
  <2>7. \A s \in Sns : build_records[s] # NoBuild => build_records'[s] = build_records[s]
    BY <1>1, <2>3, <2>6
  <2> QED
    BY <2>6, <2>7 DEF Earned
<1>4. ASSUME NEW sn \in Sns, FinishCut(sn) PROVE CityInv' /\ Earned
  <2> PICK b, builds : b = my_build[sn] /\ builds = [build_records EXCEPT ![sn] = Finished(b)]
    OBVIOUS
  <2>1. /\ here /\ b \in Buildings /\ build_records[sn] = b
        /\ sn \in building_timer \/ building[sn] > 0
        /\ CityEnds(builds, timer_keys, money)
    BY <1>1, <1>4 DEF FinishCut, MayFinish
  <2>2. Finished(b) \in Buildings /\ Finished(b).level = b.level + 1
    BY <2>1, Builds
  <2>3. builds \in [Sns -> Buildings \cup {NoBuild}]
    BY <1>1, <2>2
  <2>4. /\ CityInv' /\ ~here' /\ build_records' = builds /\ money' = money
        /\ \A s \in Sns : building'[s] = 0
    BY <1>1, <2>1, <2>3, EndsKeep
  <2>5. build_records[sn].status = 1 \/ RaisedAtRest(sn)
    <3>1. CASE sn \in building_timer
      BY <2>1, <3>1 DEF CityInv, TimersOK
    <3>2. CASE building[sn] > 0
      BY <2>1, <2>4, <3>2 DEF RaisedAtRest
    <3> QED
      BY <2>1, <3>1, <3>2
  <2> QED
    BY <1>1, <2>1, <2>2, <2>4, <2>5 DEF Earned
<1> QED
  BY <1>2, <1>3, <1>4 DEF GatewayEnds, UpgradeCut

\* The wait of a timer expires, or that of a deleted timer runs.
LEMMA WaitsKeep ==
    ASSUME CityInv, StaleFires \/ \E s \in Sns : WaitExpires(s) \/ TimerFires(s)
    PROVE  CityInv' /\ Earned
<1>1. /\ my_build \in [Sns -> Buildings \cup {NoBuild}]
      /\ build_records \in [Sns -> Buildings \cup {NoBuild}]
      /\ live \in [Sns -> Seq(Int)] /\ building_timer \subseteq Sns /\ money \in Int
      /\ here => my_build = build_records
  BY DEF CityInv, CityTypes, BuildsSaved
<1>2. ASSUME NEW sn \in building_timer, NEW ts, NEW known, BuildTimerHandle(sn, ts, known),
             (known = TRUE /\ ts = live[sn]) \/ (known = FALSE /\ ts = << >>),
             UNCHANGED << here, build_num, num_records, money >>
      PROVE  CityInv' /\ Earned
  <2>1. here
    BY DEF CityInv, TimersOK
  <2>2. UNCHANGED << here, build_num, num_records >> /\ money' \in Int
    BY <1>1, <1>2
  <2>3. /\ CityInv' /\ \A s \in Sns : s # sn => build_records'[s] = build_records[s]
        /\ build_records'[sn].level = build_records[sn].level + 1
        /\ build_records[sn].status = 1
    BY <1>2, <2>1, <2>2, HandleKeeps
  <2> QED
    BY <2>3 DEF Earned
<1>3. ASSUME NEW sn \in Sns, TimerFires(sn) PROVE CityInv' /\ Earned
  <2>1. PICK i \in DOMAIN live[sn] :
           BuildTimerHandle(sn, RemoveAt(live[sn], i), i # Len(live[sn]))
    BY <1>3 DEF TimerFires
  <2>2. sn \in building_timer /\ Len(live[sn]) = 1 /\ live[sn] \in Seq(Int)
    <3>1. live[sn] # << >>
      BY <2>1
    <3> QED
      BY <3>1, <1>1 DEF CityInv, TimersOK
  <2>3. i = 1
    BY <2>1, <2>2
  <2>4. RemoveAt(live[sn], i) = << >>
    <3> PICK q : q = live[sn]
      OBVIOUS
    <3>1. SubSeq(q, 1, 0) = << >> /\ SubSeq(q, 2, 1) = << >>
      BY <2>2, SubSeqEmpty
    <3>2. << >> \o << >> = << >>
      OBVIOUS
    <3> QED
      BY <2>2, <2>3, <3>1, <3>2 DEF RemoveAt
  <2>5. BuildTimerHandle(sn, << >>, FALSE)
    BY <2>1, <2>2, <2>3, <2>4
  <2>6. UNCHANGED << here, build_num, num_records, money >>
    BY <1>3 DEF TimerFires
  <2> QED
    BY <1>2, <2>2, <2>5, <2>6
<1>4. ASSUME NEW sn \in Sns, WaitExpires(sn) PROVE CityInv' /\ Earned
  <2>1. PICK i \in DOMAIN live[sn] : live' = [live EXCEPT ![sn][i] = Due]
    BY <1>4 DEF WaitExpires
  <2>2. UNCHANGED << here, my_build, building, building_timer, build_num, num_records, money,
                     build_records >>
    BY <1>4 DEF WaitExpires
  <2>3. Due \in Int
    BY DEF Due
  <2>4. live' \in [Sns -> Seq(Int)] /\ \A s \in Sns : Len(live'[s]) = Len(live[s])
    <3> PICK q, r : q = live[sn] /\ r = [q EXCEPT ![i] = Due]
      OBVIOUS
    <3>1. q \in Seq(Int) /\ i \in 1 .. Len(q)
      BY <1>1, <2>1
    <3>2. r \in Seq(Int) /\ Len(r) = Len(q)
      BY <2>3, <3>1, ExceptSeq
    <3>3. live' = [live EXCEPT ![sn] = r]
      BY <2>1
    <3> QED
      BY <1>1, <3>2, <3>3
  <2>5. \A s \in Sns : live[s] = << >> => live'[s] = << >>
    <3> TAKE s \in Sns
    <3>1. live'[s] \in Seq(Int) /\ Len(live'[s]) = Len(live[s])
      BY <2>4
    <3> QED
      BY <3>1, EmptySeq
  <2>6. CityTypes'
    BY <2>2, <2>4 DEF CityInv, CityTypes
  <2>7. TimersOK' /\ BuildsSaved'
    BY <2>2, <2>4, <2>5 DEF CityInv, TimersOK, BuildsSaved
  <2> QED
    BY <2>2, <2>6, <2>7 DEF CityInv, Earned
<1>5. CASE StaleFires
  <2>1. CASE CityEnds(build_records, timer_keys, money)
    BY <2>1, GatewayEndsKeeps DEF GatewayEnds
  <2>2. ASSUME NEW sn \in building_timer, BuildTimerHandle(sn, live[sn], TRUE),
               UNCHANGED << here, build_num, num_records, money >>
        PROVE  CityInv' /\ Earned
    BY <1>2, <2>2
  <2>3. CASE UNCHANGED << here, my_build, building, building_timer, live, build_num, num_records,
                          money, build_records >>
    <3>1. CityInv'
      BY <2>3 DEF CityInv, CityTypes, TimersOK, BuildsSaved
    <3> QED
      BY <2>3, <3>1 DEF Earned
  <2> QED
    BY <1>5, <2>1, <2>2, <2>3 DEF StaleFires
<1> QED
  BY <1>3, <1>4, <1>5

\* It is kept, and levels are earned.
LEMMA CityKeeps == CityInv /\ [CityNext]_cityVars => CityInv' /\ (Earned \/ UNCHANGED cityVars)
<1> SUFFICES ASSUME CityInv, [CityNext]_cityVars
             PROVE  CityInv' /\ (Earned \/ UNCHANGED cityVars)
  OBVIOUS
<1>1. /\ my_build \in [Sns -> Buildings \cup {NoBuild}]
      /\ build_records \in [Sns -> Buildings \cup {NoBuild}]
      /\ live \in [Sns -> Seq(Int)] /\ building_timer \subseteq Sns /\ money \in Int
      /\ building \in [Sns -> Int]
  BY DEF CityInv, CityTypes
<1>2. here => my_build = build_records /\ build_num = num_records
  BY DEF CityInv, BuildsSaved
<1>3. CASE CityLogin
  BY <1>3, CityLoginKeeps
<1>4. CASE CityClose
  <2>1. CityTypes'
    BY <1>1, <1>4 DEF CityClose, Forgotten, CityTypes, Nothing
  <2>2. TimersOK' /\ BuildsSaved'
    BY <1>4 DEF CityClose, Forgotten, TimersOK, BuildsSaved
  <2>3. Earned
    BY <1>4 DEF CityClose, Earned
  <2> QED
    BY <2>1, <2>2, <2>3 DEF CityInv
<1>5. CASE \E k \in BuildKinds : BuildCreate(k)
  <2>1. PICK k \in BuildKinds : BuildCreate(k)
    BY <1>5
  <2>2. PICK sn \in Unused : Start(sn, New(k))
    BY <2>1 DEF BuildCreate
  <2>3. /\ here /\ here' = here /\ sn \in Sns
        /\ build_records[sn] = NoBuild /\ my_build[sn] = NoBuild
    BY <1>2, <2>1, <2>2 DEF BuildCreate, MayCreate, Unused, Built
  <2>4. sn \notin building_timer
    BY <2>3 DEF CityInv, TimersOK
  <2>5. PICK b : b = Building(k, 1, 0, BuildSeconds[k])
    OBVIOUS
  <2>6. b \in Buildings /\ b.status = 1 /\ Start(sn, b)
    <3>1. BuildSeconds[k] \in Nat
      BY CityAssumption
    <3> QED
      BY <2>2, <2>5, <3>1, NewBuilding DEF New
  <2>7. build_num' = num_records'
    BY <1>2, <2>1, <2>3 DEF BuildCreate, SetMyBuildNum
  <2>8. money' \in Int
    BY <1>1, <2>1, CityAssumption DEF BuildCreate
  <2>9. CityInv' /\ \A s \in Sns : s # sn => build_records'[s] = build_records[s]
    BY <2>3, <2>4, <2>6, <2>7, <2>8, StartKeeps
  <2> QED
    BY <2>3, <2>9 DEF Earned
<1>6. CASE \E s \in Sns : BuildUpgrade(s)
  <2>1. PICK sn \in Sns : BuildUpgrade(sn)
    BY <1>6
  <2>2. PICK a, b : /\ a = my_build[sn]
                    /\ b = Building(a.kind, 1, a.level, BuildSeconds[a.kind])
    OBVIOUS
  <2>3. here /\ here' = here /\ a \in Buildings /\ a.status # 1 /\ Start(sn, b)
    BY <1>1, <2>1, <2>2 DEF BuildUpgrade, MayUpgrade, AtRest
  <2>4. b \in Buildings /\ b.status = 1 /\ b.level = a.level
    <3>1. a.kind \in BuildKinds /\ a.level \in Nat
      BY <2>3 DEF Buildings
    <3>2. BuildSeconds[a.kind] \in Nat
      BY <3>1, CityAssumption
    <3> QED
      BY <2>2, <3>1, <3>2, NewBuilding
  <2>5. sn \notin building_timer
    BY <2>2, <2>3 DEF CityInv, TimersOK
  <2>6. build_num' = num_records' /\ money' \in Int
    BY <1>1, <1>2, <2>1, <2>3 DEF BuildUpgrade
  <2>7. CityInv' /\ \A s \in Sns : s # sn => build_records'[s] = build_records[s]
    BY <2>3, <2>4, <2>5, <2>6, StartKeeps
  <2>8. build_records'[sn] = b /\ build_records[sn] = a
    BY <1>1, <1>2, <2>2, <2>3 DEF Start, SetBuild
  <2> QED
    BY <2>4, <2>7, <2>8 DEF Earned
<1>7. CASE BuildStatusList
  <2>1. UNCHANGED cityVars
    BY <1>2, <1>7 DEF BuildStatusList, cityVars
  <2> QED
    BY <2>1 DEF CityInv, CityTypes, TimersOK, BuildsSaved, cityVars
<1>8. CASE \E s \in Sns : GetMyAsset(s)
  <2>1. PICK sn \in Sns : GetMyAsset(sn)
    BY <1>8
  <2>2. PICK a, b : a = my_build[sn] /\ b = [a EXCEPT !.age = 0]
    OBVIOUS
  <2>3. here /\ a \in Buildings /\ build_records[sn] = a
    BY <1>1, <1>2, <2>1, <2>2 DEF GetMyAsset
  <2>4. b \in Buildings /\ b.status = a.status /\ b.level = a.level /\ b # NoBuild
    BY <2>2, <2>3, Builds
  <2>5. /\ my_build' = [my_build EXCEPT ![sn] = b]
        /\ build_records' = [build_records EXCEPT ![sn] = b]
    BY <2>1, <2>2 DEF GetMyAsset, SetBuild
  <2>6. UNCHANGED << here, building, building_timer, live, build_num, num_records, money >>
    BY <2>1 DEF GetMyAsset
  <2>7. CityTypes'
    BY <1>1, <2>4, <2>5, <2>6 DEF CityTypes
  <2>8. TimersOK'
    BY <1>1, <2>2, <2>4, <2>5, <2>6 DEF CityInv, TimersOK
  <2>9. BuildsSaved'
    BY <1>2, <2>5, <2>6 DEF BuildsSaved
  <2>10. Earned
    BY <1>1, <2>3, <2>4, <2>5 DEF Earned
  <2> QED
    BY <2>7, <2>8, <2>9, <2>10 DEF CityInv
<1>9. CASE \E s \in Sns : FastFinish(s)
  <2>1. PICK sn \in Sns : FastFinish(sn)
    BY <1>9
  <2>2. PICK b : b = my_build[sn]
    OBVIOUS
  <2>3. /\ here /\ here' = here /\ b \in Buildings /\ build_records[sn] = b
        /\ sn \in building_timer \/ building[sn] > 0
    BY <1>1, <1>2, <2>1, <2>2 DEF FastFinish, MayFinish
  <2>4. money' = money - Price(b) /\ money' \in Int
    <3>1. Price(b) \in Int
      BY <2>3, PriceIsNumber
    <3>2. money' = money - Price(b)
      BY <2>1, <2>2 DEF FastFinish
    <3> QED
      BY <1>1, <3>1, <3>2
  <2>5. UNCHANGED << here, build_num, num_records >>
    BY <2>1 DEF FastFinish
  <2>6. CASE sn \in building_timer /\ BuildTimerHandle(sn, live[sn], TRUE)
    <3>1. /\ CityInv' /\ \A s \in Sns : s # sn => build_records'[s] = build_records[s]
          /\ build_records'[sn].level = build_records[sn].level + 1
          /\ build_records[sn].status = 1
      BY <2>3, <2>4, <2>5, <2>6, HandleKeeps
    <3> QED
      BY <3>1 DEF Earned
  <2>7. CASE /\ sn \notin building_timer
             /\ my_build' = [my_build EXCEPT ![sn] = Finished(@)]
             /\ SetBuild(sn, Finished(my_build[sn]))
             /\ building' = [building EXCEPT ![sn] = @ - 1]
             /\ UNCHANGED << building_timer, live >>
    <3>1. /\ my_build' = [my_build EXCEPT ![sn] = Finished(b)]
          /\ build_records' = [build_records EXCEPT ![sn] = Finished(b)]
      BY <2>2, <2>7 DEF SetBuild
    <3>2. Finished(b) \in Buildings /\ Finished(b).level = b.level + 1
      BY <2>3, Builds
    <3>7. building' \in [Sns -> Int] /\ building'[sn] < building[sn]
      BY <1>1, <2>7
    <3>3. CityTypes'
      BY <1>1, <2>4, <2>7, <3>1, <3>2, <3>7 DEF CityTypes
    <3>4. TimersOK'
      BY <1>1, <2>3, <2>7, <3>1 DEF CityInv, TimersOK
    <3>5. BuildsSaved'
      BY <1>2, <2>3, <2>5, <3>1 DEF BuildsSaved
    <3>6. Earned
      <4>1. RaisedAtRest(sn)
        BY <2>3, <2>4, <2>7, <3>7 DEF RaisedAtRest
      <4> QED
        BY <1>1, <2>3, <3>1, <3>2, <4>1 DEF Earned
    <3> QED
      BY <3>3, <3>4, <3>5, <3>6 DEF CityInv
  <2> QED
    BY <2>1, <2>6, <2>7 DEF FastFinish
<1>10. CASE StaleFires \/ \E s \in Sns : WaitExpires(s) \/ TimerFires(s)
  BY <1>10, WaitsKeep
<1>13. CASE GatewayEnds
  BY <1>13, GatewayEndsKeeps
<1>11. CASE (\E t \in ArmKinds : UpgradeArmType(t)) \/ UNCHANGED cityVars
  <2>1. UNCHANGED << here, my_build, building, building_timer, live, build_num, num_records,
                     money, build_records >>
    BY <1>11 DEF UpgradeArmType, cityVars
  <2>2. CityInv'
    BY <2>1 DEF CityInv, CityTypes, TimersOK, BuildsSaved
  <2> QED
    BY <2>1, <2>2 DEF Earned
<1>12. CASE CityTick
  <2>1. UNCHANGED << here, building, building_timer, build_num, num_records, money >>
    BY <1>12 DEF CityTick
  <2>2. /\ my_build' = [s \in Sns |-> Aged(my_build[s])]
        /\ build_records' = [s \in Sns |-> Aged(build_records[s])]
        /\ live' = [s \in Sns |-> [i \in DOMAIN live[s] |->
                                         IF live[s][i] = Due THEN Due ELSE live[s][i] - 1]]
    BY <1>12 DEF CityTick
  <2>3. Aged(NoBuild) = NoBuild
    BY DEF Aged
  <2>4. \A s \in Sns : live'[s] \in Seq(Int) /\ Len(live'[s]) = Len(live[s])
    <3> TAKE s \in Sns
    <3> PICK l, n : l = live[s] /\ n = Len(l)
      OBVIOUS
    <3>1. l \in Seq(Int) /\ n \in Nat /\ DOMAIN l = 1..n
      BY <1>1
    <3>2. live'[s] = [i \in 1..n |-> IF l[i] = Due THEN Due ELSE l[i] - 1]
      BY <2>2, <3>1
    <3>3. \A i \in 1..n : (IF l[i] = Due THEN Due ELSE l[i] - 1) \in Int
      BY <3>1 DEF Due
    <3> QED
      BY <3>1, <3>2, <3>3
  <2>5. CityTypes'
    <3>1. \A s \in Sns : /\ Aged(my_build[s]) \in Buildings \cup {NoBuild}
                         /\ Aged(build_records[s]) \in Buildings \cup {NoBuild}
      <4>1. ASSUME NEW b \in Buildings \cup {NoBuild} PROVE Aged(b) \in Buildings \cup {NoBuild}
        BY <2>3, Builds
      <4> QED
        BY <1>1, <4>1
    <3> QED
      BY <1>1, <2>1, <2>2, <2>4, <3>1 DEF CityTypes
  <2>6. TimersOK'
    <3> SUFFICES ASSUME NEW s \in Sns
                 PROVE  /\ s \in building_timer => /\ my_build'[s] # NoBuild
                                                   /\ my_build'[s].status = 1
                                                   /\ Len(live'[s]) = 1
                        /\ s \notin building_timer => live'[s] = << >>
      BY <2>1 DEF CityInv, TimersOK
    <3>1. CASE s \in building_timer
      <4>1. my_build[s] \in Buildings /\ my_build[s].status = 1 /\ Len(live[s]) = 1
        BY <1>1, <3>1 DEF CityInv, TimersOK
      <4>2. Aged(my_build[s]) # NoBuild /\ Aged(my_build[s]).status = 1
        BY <4>1, Builds
      <4> QED
        BY <2>2, <2>4, <3>1, <4>1, <4>2
    <3>2. CASE s \notin building_timer
      <4>1. live[s] = << >>
        BY <3>2 DEF CityInv, TimersOK
      <4>2. Len(live'[s]) = 0
        BY <2>4, <4>1
      <4> QED
        BY <2>4, <3>2, <4>2, EmptySeq
    <3> QED
      BY <3>1, <3>2
  <2>7. BuildsSaved'
    BY <1>2, <2>1, <2>2 DEF BuildsSaved
  <2>8. Earned
    <3> SUFFICES ASSUME NEW s \in Sns, build_records[s] # NoBuild
                 PROVE  build_records'[s].level = build_records[s].level
      BY DEF Earned
    <3>1. build_records[s] \in Buildings
      BY <1>1
    <3> QED
      BY <2>2, <3>1, Builds
  <2> QED
    BY <2>5, <2>6, <2>7, <2>8 DEF CityInv
<1> QED
  BY <1>3, <1>4, <1>5, <1>6, <1>7, <1>8, <1>9, <1>10, <1>11, <1>12, <1>13
     DEF CityNext

\* It is an invariant of the handlers, fair or not.
LEMMA CityAlways == CitySpec => []CityInv
  BY CityStart, CityKeeps, PTL DEF CitySpec

\* LevelsEarned: a level in redis comes from a construction, or from an early finish of a
\* building that the list names, whatever waits of deleted timers run and wherever in a
\* handler the gateway ends.
THEOREM LevelsAreEarned == CitySpec => LevelsEarned
<1>1. CityInv /\ [CityNext]_cityVars => [Earned]_cityVars
  BY CityKeeps
<1> QED
  BY <1>1, CityAlways, PTL DEF CitySpec, LevelsEarned, Earned

\* BuildsSaved and NoStrayTimer.
LEMMA CityAgrees == CityInv => BuildsSaved /\ NoStrayTimer
<1> SUFFICES ASSUME CityInv PROVE BuildsSaved /\ NoStrayTimer
  OBVIOUS
<1>1. ASSUME NEW s \in Sns
      PROVE  /\ Len(live[s]) = IF s \in building_timer THEN 1 ELSE 0
             /\ s \in building_timer => my_build[s].status = 1
  <2>1. CASE s \in building_timer
    BY <2>1 DEF CityInv, TimersOK
  <2>2. CASE s \notin building_timer
    <3>1. live[s] = << >>
      BY <2>2 DEF CityInv, TimersOK
    <3> QED
      BY <2>2, <3>1
  <2> QED
    BY <2>1, <2>2
<1> QED
  BY <1>1 DEF CityInv, NoStrayTimer

-----------------------------------------------------------------------------
(* The heroes.                                                             *)

\* The records R: those in service stand in different positions.
HeroesKept(R, ids) ==
    /\ DOMAIN R \subseteq ids /\ ids \subseteq HeroIds
    /\ \A x \in DOMAIN R : R[x] = HeroRecord(R[x].hero_sn, R[x].where)
    /\ \A x \in DOMAIN R : R[x].where = 0 => R[x].hero_sn \in Positions
    /\ \A x, y \in DOMAIN R :
          R[x].where = 0 => (R[y].where = 0 => (R[x].hero_sn = R[y].hero_sn => x = y))

\* The heroes m in service and r on offer are, with where they are, w, what R says.
HeroesStand(m, r, w, R) ==
    /\ m \in [Positions -> HeroIds \cup {NoHero}] /\ r \in [Offers -> HeroIds \cup {NoHero}]
    /\ \A i \in Positions : m[i] # NoHero =>
          /\ m[i] \in DOMAIN R /\ m[i] \in DOMAIN w
          /\ R[m[i]] = HeroRecord(i, w[m[i]])
          /\ \A j \in Offers : r[j] # m[i]
    /\ \A j \in Offers : r[j] # NoHero =>
          r[j] \in DOMAIN R /\ r[j] \in DOMAIN w /\ R[r[j]] = HeroRecord(j, 1)
    /\ \A x \in DOMAIN R : R[x].where = 0 => m[R[x].hero_sn] = x

HeroesInv ==
    /\ HeroesKept(hero_records, drawn)
    /\ hero_here => HeroesStand(my_hero, rand_hero, where, hero_records)

\* The first place is one of them.
LEMMA FirstIn == ASSUME NEW T \in SUBSET Nat, T # {} PROVE First(T) \in T
  BY LeastOf DEF First, Smallest

\* A hero in service is in one position.
LEMMA OnePosition ==
    ASSUME NEW m, NEW r, NEW w, NEW R, HeroesStand(m, r, w, R),
           NEW i \in Positions, m[i] # NoHero
    PROVE  /\ \A j \in Positions : m[j] = m[i] => j = i
           /\ R[m[i]].hero_sn = i /\ R[m[i]].where = w[m[i]]
<1>1. ASSUME NEW j \in Positions, m[j] # NoHero
      PROVE  R[m[j]].hero_sn = j /\ R[m[j]].where = w[m[j]]
  <2>1. R[m[j]] = HeroRecord(j, w[m[j]])
    BY <1>1 DEF HeroesStand
  <2> QED
    BY <2>1 DEF HeroRecord
<1> QED
  BY <1>1

\* It holds at the start.
LEMMA HeroesStart == HeroesInit => HeroesInv
  BY DEF HeroesInit, HeroesInv, HeroesKept, HeroesStand

\* A login finds every hero in service in the position of his record.
LEMMA HeroesLoginKeeps == ASSUME HeroesInv, HeroesLogin PROVE HeroesInv'
<1> PICK m, r, w, R, ids : /\ m = my_hero' /\ r = rand_hero' /\ w = where'
                           /\ R = hero_records /\ ids = drawn
  OBVIOUS
<1>1. HeroesKept(R, ids) /\ R = hero_records' /\ ids = drawn'
  BY DEF HeroesInv, HeroesLogin
<1>2. /\ m \in [Positions -> HeroIds \cup {NoHero}] /\ r \in [Offers -> HeroIds \cup {NoHero}]
      /\ m \in Loaded(Positions, 0) /\ r \in Loaded(Offers, 1)
  BY DEF HeroesLogin, Loaded
<1>3. \A i \in Positions : IF Candidates(i, 0) = {} THEN m[i] = NoHero
                           ELSE m[i] \in Candidates(i, 0)
  BY <1>2 DEF Loaded
<1>4. \A j \in Offers : IF Candidates(j, 1) = {} THEN r[j] = NoHero
                        ELSE r[j] \in Candidates(j, 1)
  BY <1>2 DEF Loaded
<1>5. \A i, k : Candidates(i, k) = {x \in DOMAIN R : R[x].hero_sn = i /\ R[x].where = k}
  BY DEF Candidates, Recorded
<1>6. w = [x \in ({m[i] : i \in Positions} \ {NoHero}) \cup ({r[j] : j \in Offers} \ {NoHero})
             |-> R[x].where]
  BY DEF HeroesLogin, InService, Offered
<1>7. HeroesStand(m, r, w, R)
  <2>1. ASSUME NEW i \in Positions, m[i] # NoHero
        PROVE  /\ m[i] \in DOMAIN R /\ m[i] \in DOMAIN w
               /\ R[m[i]] = HeroRecord(i, w[m[i]])
               /\ \A j \in Offers : r[j] # m[i]
    <3>1. m[i] \in DOMAIN R /\ R[m[i]].hero_sn = i /\ R[m[i]].where = 0
      BY <1>3, <1>5, <2>1
    <3>2. m[i] \in DOMAIN w /\ w[m[i]] = 0
      BY <1>6, <2>1, <3>1
    <3>3. R[m[i]] = HeroRecord(i, 0)
      BY <1>1, <3>1 DEF HeroesKept
    <3>4. ASSUME NEW j \in Offers, r[j] = m[i] PROVE FALSE
      <4>1. R[r[j]].where = 1
        BY <1>4, <1>5, <2>1, <3>4
      <4> QED
        BY <3>1, <3>4, <4>1
    <3> QED
      BY <3>1, <3>2, <3>3, <3>4
  <2>2. ASSUME NEW j \in Offers, r[j] # NoHero
        PROVE  r[j] \in DOMAIN R /\ r[j] \in DOMAIN w /\ R[r[j]] = HeroRecord(j, 1)
    <3>1. r[j] \in DOMAIN R /\ R[r[j]].hero_sn = j /\ R[r[j]].where = 1
      BY <1>4, <1>5, <2>2
    <3>2. r[j] \in DOMAIN w
      BY <1>6, <2>2
    <3> QED
      BY <1>1, <3>1, <3>2 DEF HeroesKept
  <2>3. ASSUME NEW x \in DOMAIN R, R[x].where = 0 PROVE m[R[x].hero_sn] = x
    <3>1. PICK i : i = R[x].hero_sn
      OBVIOUS
    <3>2. i \in Positions /\ x \in Candidates(i, 0)
      BY <1>1, <1>5, <2>3, <3>1 DEF HeroesKept
    <3>3. m[i] \in Candidates(i, 0)
      BY <1>3, <3>2
    <3>4. m[i] \in DOMAIN R /\ R[m[i]].hero_sn = i /\ R[m[i]].where = 0
      BY <1>5, <3>3
    <3> QED
      BY <1>1, <2>3, <3>1, <3>4 DEF HeroesKept
  <2> QED
    BY <1>2, <2>1, <2>2, <2>3 DEF HeroesStand
<1> QED
  BY <1>1, <1>7 DEF HeroesInv, HeroesLogin

\* Whoever leaves takes nothing out of redis.
LEMMA HeroesCloseKeeps == ASSUME HeroesInv, HeroesClose PROVE HeroesInv'
  BY DEF HeroesInv, HeroesClose

\* Fresh heroes take the place of those on offer.
LEMMA RecruitKeeps == ASSUME HeroesInv, Recruit PROVE HeroesInv'
<1>1. HeroesKept(hero_records, drawn) /\ HeroesStand(my_hero, rand_hero, where, hero_records)
  BY DEF HeroesInv, Recruit
<1>2. PICK new \in Drawn :
        LET drawnNow == {new[i] : i \in Offers}
            kept == Recorded \ Offered
        IN /\ rand_hero' = new
           /\ drawn' = drawn \cup drawnNow
           /\ where' = [x \in InService \cup drawnNow |->
                           IF x \in drawnNow THEN 1 ELSE where[x]]
           /\ hero_records' = [x \in kept \cup drawnNow |->
                 IF x \in drawnNow
                 THEN HeroRecord(CHOOSE i \in Offers : new[i] = x, 1)
                 ELSE hero_records[x]]
  BY DEF Recruit
<1>3. PICK m, r, w, R, ids, N, w2, R2, ids2 :
        /\ m = my_hero /\ r = rand_hero /\ w = where /\ R = hero_records /\ ids = drawn
        /\ N = {new[i] : i \in Offers}
        /\ w2 = where' /\ R2 = hero_records' /\ ids2 = drawn'
  OBVIOUS
<1>4. new \in [Offers -> HeroIds] /\ (\A x \in N : x \in HeroIds /\ x \notin ids)
      /\ \A i, j \in Offers : new[i] = new[j] => i = j
  BY <1>2, <1>3 DEF Drawn
<1>5. /\ rand_hero' = new /\ ids2 = ids \cup N /\ my_hero' = m
      /\ w2 = [x \in ({m[i] : i \in Positions} \ {NoHero}) \cup N |-> IF x \in N THEN 1 ELSE w[x]]
      /\ R2 = [x \in (DOMAIN R \ ({r[j] : j \in Offers} \ {NoHero})) \cup N |->
                 IF x \in N THEN HeroRecord(CHOOSE i \in Offers : new[i] = x, 1) ELSE R[x]]
  BY <1>2, <1>3 DEF InService, Offered, Recorded, Recruit
<1>6. HeroesKept(R, ids) /\ HeroesStand(m, r, w, R)
  BY <1>1, <1>3
<1>7. \A x \in DOMAIN R : x \in ids /\ x \notin N
  BY <1>4, <1>6 DEF HeroesKept
<1>8. ASSUME NEW x \in DOMAIN R2
      PROVE  \/ x \in N /\ R2[x].where = 1 /\ R2[x] = HeroRecord(R2[x].hero_sn, 1)
             \/ x \notin N /\ x \in DOMAIN R /\ R2[x] = R[x]
  BY <1>5 DEF HeroRecord
<1>9. HeroesKept(R2, ids2)
  <2>1. DOMAIN R2 \subseteq ids2 /\ ids2 \subseteq HeroIds
    BY <1>4, <1>5, <1>6 DEF HeroesKept
  <2>2. \A x \in DOMAIN R2 : R2[x] = HeroRecord(R2[x].hero_sn, R2[x].where)
    BY <1>6, <1>8 DEF HeroesKept
  <2>3. \A x \in DOMAIN R2 : R2[x].where = 0 => x \in DOMAIN R /\ R2[x] = R[x]
    BY <1>8
  <2> QED
    BY <1>6, <2>1, <2>2, <2>3 DEF HeroesKept
<1>10. HeroesStand(m, new, w2, R2)
  <2>1. ASSUME NEW i \in Positions, m[i] # NoHero
        PROVE  /\ m[i] \in DOMAIN R2 /\ m[i] \in DOMAIN w2
               /\ R2[m[i]] = HeroRecord(i, w2[m[i]])
               /\ \A j \in Offers : new[j] # m[i]
    <3>1. /\ m[i] \in DOMAIN R /\ R[m[i]] = HeroRecord(i, w[m[i]])
          /\ \A j \in Offers : r[j] # m[i]
      BY <1>6, <2>1 DEF HeroesStand
    <3>2. m[i] \notin N
      BY <1>7, <3>1
    <3>3. m[i] \in DOMAIN R2 /\ R2[m[i]] = R[m[i]]
      BY <1>5, <3>1, <3>2
    <3>4. m[i] \in DOMAIN w2 /\ w2[m[i]] = w[m[i]]
      BY <1>5, <2>1, <3>2
    <3> QED
      BY <1>3, <3>1, <3>2, <3>3, <3>4
  <2>2. ASSUME NEW j \in Offers
        PROVE  /\ new[j] \in DOMAIN R2 /\ new[j] \in DOMAIN w2
               /\ R2[new[j]] = HeroRecord(j, 1)
    <3>1. new[j] \in N
      BY <1>3
    <3>2. (CHOOSE i \in Offers : new[i] = new[j]) = j
      BY <1>4
    <3> QED
      BY <1>5, <3>1, <3>2
  <2>3. ASSUME NEW x \in DOMAIN R2, R2[x].where = 0 PROVE m[R2[x].hero_sn] = x
    BY <1>6, <1>8, <2>3 DEF HeroesStand
  <2>4. m \in [Positions -> HeroIds \cup {NoHero}] /\ new \in [Offers -> HeroIds \cup {NoHero}]
    BY <1>4, <1>6 DEF HeroesStand
  <2> QED
    BY <2>1, <2>2, <2>3, <2>4 DEF HeroesStand
<1> QED
  BY <1>3, <1>5, <1>9, <1>10 DEF HeroesInv

\* An offer taken stands in a position that was free.
LEMMA GetKeeps == ASSUME HeroesInv, NEW a \in Offers, GetRandHero(a) PROVE HeroesInv'
<1>1. HeroesKept(hero_records, drawn) /\ HeroesStand(my_hero, rand_hero, where, hero_records)
  BY DEF HeroesInv, GetRandHero
<1>2. PICK m, r, w, R, ids, x, p, m2, r2, w2, R2 :
        /\ m = my_hero /\ r = rand_hero /\ w = where /\ R = hero_records /\ ids = drawn
        /\ x = r[a] /\ p = First({j \in Positions : m[j] = NoHero})
        /\ m2 = my_hero' /\ r2 = rand_hero' /\ w2 = where' /\ R2 = hero_records'
  OBVIOUS
<1>3. HeroesKept(R, ids) /\ HeroesStand(m, r, w, R)
  BY <1>1, <1>2
<1>4. x # NoHero /\ {j \in Positions : m[j] = NoHero} # {} /\ drawn' = ids
  BY <1>2 DEF GetRandHero
<1>5. p \in Positions /\ m[p] = NoHero
  <2>1. {j \in Positions : m[j] = NoHero} \in SUBSET Nat
    BY HeroesAssumption
  <2> QED
    BY <1>2, <1>4, <2>1, FirstIn
<1>6. /\ m2 = [m EXCEPT ![p] = x] /\ r2 = [r EXCEPT ![a] = NoHero]
      /\ w2 = [w EXCEPT ![x] = 0]
      /\ R2 = [y \in DOMAIN R \cup {x} |-> IF y = x THEN HeroRecord(p, 0) ELSE R[y]]
  BY <1>2 DEF GetRandHero, OfferTaken, Put
<1>7. /\ m \in [Positions -> HeroIds \cup {NoHero}] /\ r \in [Offers -> HeroIds \cup {NoHero}]
      /\ x \in DOMAIN R /\ x \in HeroIds /\ R[x] = HeroRecord(a, 1)
      /\ \A i \in Positions : m[i] # x
  <2>1. x \in DOMAIN R /\ R[x] = HeroRecord(a, 1)
    BY <1>2, <1>3, <1>4 DEF HeroesStand
  <2>2. \A i \in Positions : m[i] # x
    BY <1>2, <1>3, <1>4 DEF HeroesStand
  <2> QED
    BY <1>3, <2>1, <2>2 DEF HeroesStand, HeroesKept
<1>8. ASSUME NEW j \in Offers, j # a PROVE r[j] # x
  <2> SUFFICES ASSUME r[j] = x PROVE FALSE
    OBVIOUS
  <2>1. R[x] = HeroRecord(j, 1)
    BY <1>3, <1>4 DEF HeroesStand
  <2> QED
    BY <1>7, <1>8, <2>1 DEF HeroRecord
<1>9. DOMAIN R2 = DOMAIN R /\ R2[x] = HeroRecord(p, 0)
      /\ \A y \in DOMAIN R : y # x => R2[y] = R[y]
  BY <1>6, <1>7
<1>10. \A y \in DOMAIN R : y # x => (R[y].where = 0 => /\ m[R[y].hero_sn] = y
                                                       /\ R[y].hero_sn \in Positions
                                                       /\ R[y].hero_sn # p)
  <2> SUFFICES ASSUME NEW y \in DOMAIN R, y # x, R[y].where = 0
               PROVE  m[R[y].hero_sn] = y /\ R[y].hero_sn \in Positions /\ R[y].hero_sn # p
    OBVIOUS
  <2>1. m[R[y].hero_sn] = y /\ R[y].hero_sn \in Positions
    BY <1>3 DEF HeroesStand, HeroesKept
  <2>2. y # NoHero
    BY <1>3, HeroesAssumption DEF HeroesKept
  <2> QED
    BY <1>5, <2>1, <2>2
<1>11. HeroesKept(R2, ids)
  <2>1. R2[x].hero_sn = p /\ R2[x].where = 0
    BY <1>9 DEF HeroRecord
  <2>2. \A y \in DOMAIN R2 : R2[y] = HeroRecord(R2[y].hero_sn, R2[y].where)
    BY <1>3, <1>9, <2>1 DEF HeroesKept
  <2>3. \A y \in DOMAIN R2 : R2[y].where = 0 => R2[y].hero_sn \in Positions
    BY <1>5, <1>9, <1>10, <2>1
  <2>4. ASSUME NEW y \in DOMAIN R2, NEW z \in DOMAIN R2, R2[y].where = 0, R2[z].where = 0,
               R2[y].hero_sn = R2[z].hero_sn
        PROVE  y = z
    <3>1. CASE y = x \/ z = x
      BY <1>9, <1>10, <2>1, <2>4, <3>1
    <3>2. CASE y # x /\ z # x
      BY <1>3, <1>9, <2>4, <3>2 DEF HeroesKept
    <3> QED
      BY <3>1, <3>2
  <2> QED
    BY <1>3, <1>9, <2>2, <2>3, <2>4 DEF HeroesKept
<1>12. HeroesStand(m2, r2, w2, R2)
  <2>1. m2 \in [Positions -> HeroIds \cup {NoHero}] /\ r2 \in [Offers -> HeroIds \cup {NoHero}]
    BY <1>6, <1>7
  <2>2. m2[p] = x /\ \A i \in Positions : i # p => m2[i] = m[i]
    BY <1>5, <1>6, <1>7
  <2>3. r2[a] = NoHero /\ \A j \in Offers : j # a => r2[j] = r[j]
    BY <1>6, <1>7
  <2>4. DOMAIN w2 = DOMAIN w /\ (x \in DOMAIN w => w2[x] = 0) /\ \A y \in DOMAIN w : y # x => w2[y] = w[y]
    BY <1>6
  <2>5. x \in DOMAIN w
    BY <1>2, <1>3, <1>4 DEF HeroesStand
  <2>6. ASSUME NEW i \in Positions, m2[i] # NoHero
        PROVE  /\ m2[i] \in DOMAIN R2 /\ m2[i] \in DOMAIN w2
               /\ R2[m2[i]] = HeroRecord(i, w2[m2[i]])
               /\ \A j \in Offers : r2[j] # m2[i]
    <3>1. CASE i = p
      BY <1>4, <1>7, <1>8, <1>9, <2>2, <2>3, <2>4, <2>5, <3>1
    <3>2. CASE i # p
      <4>1. /\ m[i] \in DOMAIN R /\ m[i] \in DOMAIN w /\ R[m[i]] = HeroRecord(i, w[m[i]])
            /\ (\A j \in Offers : r[j] # m[i]) /\ m[i] # x /\ m2[i] = m[i] /\ m[i] # NoHero
        BY <1>3, <1>7, <2>2, <2>6, <3>2 DEF HeroesStand
      <4>2. R2[m[i]] = R[m[i]] /\ w2[m[i]] = w[m[i]]
        BY <1>9, <2>4, <4>1
      <4> QED
        BY <1>9, <2>3, <2>4, <4>1, <4>2
    <3> QED
      BY <3>1, <3>2
  <2>7. ASSUME NEW j \in Offers, r2[j] # NoHero
        PROVE  r2[j] \in DOMAIN R2 /\ r2[j] \in DOMAIN w2 /\ R2[r2[j]] = HeroRecord(j, 1)
    <3>1. j # a /\ r2[j] = r[j] /\ r[j] # x /\ r[j] # NoHero
      BY <1>8, <2>3, <2>7
    <3>2. r[j] \in DOMAIN R /\ r[j] \in DOMAIN w /\ R[r[j]] = HeroRecord(j, 1)
      BY <1>3, <3>1 DEF HeroesStand
    <3> QED
      BY <1>9, <2>4, <3>1, <3>2
  <2>8. ASSUME NEW y \in DOMAIN R2, R2[y].where = 0 PROVE m2[R2[y].hero_sn] = y
    BY <1>9, <1>10, <2>2, <2>8 DEF HeroRecord
  <2> QED
    BY <2>1, <2>6, <2>7, <2>8 DEF HeroesStand
<1> QED
  BY <1>2, <1>4, <1>11, <1>12 DEF HeroesInv

\* Heroes in service change where they are, in memory and in their records.
LEMMA ChangeKeeps ==
    ASSUME NEW m, NEW r, NEW w, NEW R, NEW ids, HeroesKept(R, ids), HeroesStand(m, r, w, R),
           NEW C, \A y \in C : y # NoHero /\ \E i \in Positions : m[i] = y,
           NEW pos, \A i \in Positions : m[i] \in C => pos[m[i]] = i,
           NEW w2, DOMAIN w2 = DOMAIN w, \A y \in DOMAIN w : y \notin C => w2[y] = w[y],
           NEW R2, R2 = [y \in DOMAIN R \cup C |-> IF y \in C THEN HeroRecord(pos[y], w2[y]) ELSE R[y]]
    PROVE  HeroesKept(R2, ids) /\ HeroesStand(m, r, w2, R2)
<1>1. \A y \in C : y \in DOMAIN R /\ y \in DOMAIN w /\ m[pos[y]] = y /\ pos[y] \in Positions
  BY DEF HeroesStand
<1>2. /\ DOMAIN R2 = DOMAIN R /\ (\A y \in C : R2[y] = HeroRecord(pos[y], w2[y]))
      /\ \A y \in DOMAIN R : y \notin C => R2[y] = R[y]
  BY <1>1
<1>3. HeroesStand(m, r, w2, R2)
  <2>1. ASSUME NEW i \in Positions, m[i] # NoHero
        PROVE  /\ m[i] \in DOMAIN R2 /\ m[i] \in DOMAIN w2
               /\ R2[m[i]] = HeroRecord(i, w2[m[i]])
               /\ \A j \in Offers : r[j] # m[i]
    <3>1. /\ m[i] \in DOMAIN R /\ m[i] \in DOMAIN w /\ R[m[i]] = HeroRecord(i, w[m[i]])
          /\ \A j \in Offers : r[j] # m[i]
      BY <2>1 DEF HeroesStand
    <3>2. R2[m[i]] = HeroRecord(i, w2[m[i]])
      BY <1>2, <3>1
    <3> QED
      BY <1>2, <3>1, <3>2
  <2>2. ASSUME NEW j \in Offers, r[j] # NoHero
        PROVE  r[j] \in DOMAIN R2 /\ r[j] \in DOMAIN w2 /\ R2[r[j]] = HeroRecord(j, 1)
    <3>1. r[j] \in DOMAIN R /\ r[j] \in DOMAIN w /\ R[r[j]] = HeroRecord(j, 1)
          /\ r[j] \notin C
      BY <2>2 DEF HeroesStand
    <3> QED
      BY <1>2, <3>1
  <2>3. ASSUME NEW y \in DOMAIN R2, R2[y].where = 0 PROVE m[R2[y].hero_sn] = y
    <3>1. CASE y \in C
      BY <1>1, <1>2, <3>1 DEF HeroRecord
    <3>2. CASE y \notin C
      BY <1>2, <2>3, <3>2 DEF HeroesStand
    <3> QED
      BY <3>1, <3>2
  <2> QED
    BY <2>1, <2>2, <2>3 DEF HeroesStand
<1>4. HeroesKept(R2, ids)
  <2>1. \A y \in DOMAIN R2 : R2[y] = HeroRecord(R2[y].hero_sn, R2[y].where)
    BY <1>2 DEF HeroesKept, HeroRecord
  <2>2. ASSUME NEW y \in DOMAIN R2, R2[y].where = 0
        PROVE  R2[y].hero_sn \in Positions /\ m[R2[y].hero_sn] = y
    <3>1. CASE y \in C
      BY <1>1, <1>2, <3>1 DEF HeroRecord
    <3>2. CASE y \notin C
      BY <1>2, <2>2, <3>2 DEF HeroesKept, HeroesStand
    <3> QED
      BY <3>1, <3>2
  <2>3. \A x, y \in DOMAIN R2 :
           R2[x].where = 0 => (R2[y].where = 0 => (R2[x].hero_sn = R2[y].hero_sn => x = y))
    BY <2>2
  <2>4. DOMAIN R2 \subseteq ids /\ ids \subseteq HeroIds
    BY <1>2 DEF HeroesKept
  <2>5. \A x \in DOMAIN R2 : R2[x].where = 0 => R2[x].hero_sn \in Positions
    BY <2>2
  <2> QED
    BY <2>1, <2>3, <2>4, <2>5 DEF HeroesKept
<1> QED
  BY <1>3, <1>4

\* The position a hero in service is in.
LEMMA PositionIs ==
    ASSUME HeroesStand(my_hero, rand_hero, where, hero_records),
           NEW i \in Positions, my_hero[i] # NoHero
    PROVE  PositionOf(my_hero[i]) = i
<1>1. {j \in Positions : my_hero[j] = my_hero[i]} = {i}
  BY OnePosition
<1>2. First({i}) \in {i}
  BY FirstIn, HeroesAssumption
<1> QED
  BY <1>1, <1>2 DEF PositionOf

\* An appointment returns whoever had the job to service.
LEMMA AppointKeeps ==
    ASSUME HeroesInv, NEW x \in HeroIds, NEW job \in Jobs, Appoint(x, job)
    PROVE  HeroesInv'
<1>1. HeroesKept(hero_records, drawn) /\ HeroesStand(my_hero, rand_hero, where, hero_records)
  BY DEF HeroesInv, Appoint
<1> DEFINE holders == {i \in Positions : my_hero[i] # NoHero /\ where[my_hero[i]] = job}
           back == IF holders = {} THEN {} ELSE {my_hero[First(holders)]}
           changed == back \cup ({x} \cap InService)
           title(y) == IF y = x THEN job ELSE 0
<1>2. /\ where' = [y \in DOMAIN where |-> IF y \in changed THEN title(y) ELSE where[y]]
      /\ hero_records' = [y \in Recorded \cup changed |->
             IF y \in changed THEN HeroRecord(PositionOf(y), title(y)) ELSE hero_records[y]]
      /\ UNCHANGED << hero_here, my_hero, rand_hero, drawn >>
  BY DEF Appoint
<1>3. \A y \in changed : y # NoHero /\ \E i \in Positions : my_hero[i] = y
  <2>1. holders # {} => First(holders) \in holders
    <3>1. holders \in SUBSET Nat
      BY HeroesAssumption
    <3> HIDE DEF holders
    <3> QED
      BY <3>1, FirstIn
  <2>2. \A y \in back : y # NoHero /\ \E i \in Positions : my_hero[i] = y
    BY <2>1
  <2>3. \A y \in InService : y # NoHero /\ \E i \in Positions : my_hero[i] = y
    BY DEF InService
  <2> HIDE DEF back
  <2> QED
    BY <2>2, <2>3
<1> HIDE DEF changed, holders, back
<1>4. \A y \in changed : y \in DOMAIN where
  BY <1>1, <1>3 DEF HeroesStand
<1>5. PICK pos : pos = [y \in changed |-> PositionOf(y)]
  OBVIOUS
<1>6. \A i \in Positions : my_hero[i] \in changed => pos[my_hero[i]] = i
  BY <1>1, <1>3, <1>5, PositionIs
<1>7. PICK w2, R2 : w2 = where' /\ R2 = hero_records'
  OBVIOUS
<1>8. DOMAIN w2 = DOMAIN where /\ \A y \in DOMAIN where : y \notin changed => w2[y] = where[y]
  BY <1>2, <1>7
<1>9. R2 = [y \in DOMAIN hero_records \cup changed |->
              IF y \in changed THEN HeroRecord(pos[y], w2[y]) ELSE hero_records[y]]
  <2>1. \A y \in changed : w2[y] = title(y) /\ pos[y] = PositionOf(y)
    BY <1>2, <1>4, <1>5, <1>7
  <2> HIDE DEF title
  <2> QED
    BY <1>2, <1>7, <2>1 DEF Recorded
<1>10. HeroesKept(R2, drawn) /\ HeroesStand(my_hero, rand_hero, w2, R2)
  BY <1>1, <1>3, <1>6, <1>8, <1>9, ChangeKeeps
<1> QED
  BY <1>2, <1>7, <1>10 DEF HeroesInv

\* A dismissal from a job too.
LEMMA CancelKeeps ==
    ASSUME HeroesInv, NEW x \in InService, Cancel(x)
    PROVE  HeroesInv'
<1>1. HeroesKept(hero_records, drawn) /\ HeroesStand(my_hero, rand_hero, where, hero_records)
  BY DEF HeroesInv, Cancel
<1>2. PICK p \in Positions : my_hero[p] = x
  BY DEF InService
<1>3. x # NoHero /\ x \in DOMAIN where /\ PositionOf(x) = p
  <2>1. x # NoHero
    BY DEF InService
  <2> QED
    BY <1>1, <1>2, <2>1, PositionIs DEF HeroesStand
<1>4. /\ where' = [where EXCEPT ![x] = 0]
      /\ hero_records' = Put(hero_records, x, HeroRecord(p, 0))
      /\ UNCHANGED << hero_here, my_hero, rand_hero, drawn >>
  BY <1>3 DEF Cancel
<1>5. PICK w2, R2, C, pos : /\ w2 = where' /\ R2 = hero_records' /\ C = {x}
                            /\ pos = [y \in C |-> p]
  OBVIOUS
<1>6. /\ DOMAIN w2 = DOMAIN where /\ w2[x] = 0
      /\ \A y \in DOMAIN where : y \notin C => w2[y] = where[y]
  BY <1>3, <1>4, <1>5
<1>7. R2 = [y \in DOMAIN hero_records \cup C |->
              IF y \in C THEN HeroRecord(pos[y], w2[y]) ELSE hero_records[y]]
  BY <1>4, <1>5, <1>6 DEF Put
<1>8. \A i \in Positions : my_hero[i] \in C => pos[my_hero[i]] = i
  BY <1>1, <1>2, <1>3, <1>5, OnePosition
<1>9. \A y \in C : y # NoHero /\ \E i \in Positions : my_hero[i] = y
  BY <1>2, <1>3, <1>5
<1>10. HeroesKept(R2, drawn) /\ HeroesStand(my_hero, rand_hero, w2, R2)
  BY <1>1, <1>6, <1>7, <1>8, <1>9, ChangeKeeps
<1> QED
  BY <1>4, <1>5, <1>10 DEF HeroesInv

\* Every step keeps it.
LEMMA HeroesStep == HeroesInv /\ [HeroesNext]_heroVars => HeroesInv'
<1> SUFFICES ASSUME HeroesInv, [HeroesNext]_heroVars PROVE HeroesInv'
  OBVIOUS
<1>1. CASE UNCHANGED heroVars
  BY <1>1 DEF HeroesInv, heroVars
<1> QED
  BY <1>1, HeroesLoginKeeps, HeroesCloseKeeps, RecruitKeeps, GetKeeps, CancelKeeps, AppointKeeps
     DEF HeroesNext

\* It is an invariant.
LEMMA HeroesAlways == HeroesSpec => []HeroesInv
  BY HeroesStart, HeroesStep, PTL DEF HeroesSpec

\* What memory and records say agrees.
LEMMA HeroesInPlace == HeroesInv => HeroesAgree
<1> SUFFICES ASSUME HeroesInv, hero_here
             PROVE  /\ \A i \in Positions : my_hero[i] # NoHero =>
                          /\ my_hero[i] \notin Offered
                          /\ my_hero[i] \in Recorded
                          /\ hero_records[my_hero[i]] = HeroRecord(i, where[my_hero[i]])
                    /\ \A x \in Recorded : hero_records[x].where = 0 =>
                          my_hero[hero_records[x].hero_sn] = x
  BY DEF HeroesAgree
<1>1. HeroesStand(my_hero, rand_hero, where, hero_records)
  BY DEF HeroesInv
<1> QED
  BY <1>1 DEF HeroesStand, Recorded, Offered

\* HeroesAgree: recruiting, taking, appointing, dismissing and coming back leave every hero
\* in service in one position, and the record of the hero says which.
THEOREM HeroesInService == HeroesSpec => []HeroesAgree
  BY HeroesInPlace, HeroesAlways, PTL

-----------------------------------------------------------------------------
(* Folds and functions defined by recursion on numbers.                    *)

\* A set of finite sets has a member with no other below it.
LEMMA SmallestSubset ==
    ASSUME NEW S, IsFiniteSet(S), NEW B \in SUBSET (SUBSET S), B # {}
    PROVE  \E U \in B : \A V \in SUBSET U : V # U => V \notin B
<1>1. B \subseteq FiniteSubsetsOf(S)
  BY FS_FiniteSubsetsOfFinite
<1>2. PICK U \in B : \A V \in B : ~(<<V, U>> \in StrictSubsetOrdering(S))
  BY <1>1, FS_StrictSubsetOrderingWellFounded, WFMin
<1>3. ASSUME NEW V \in SUBSET U, V # U PROVE V \notin B
  <2>1. U \subseteq S /\ V \subseteq S
    OBVIOUS
  <2>2. <<V, U>> \in StrictSubsetOrdering(S)
    BY <1>3, <2>1 DEF StrictSubsetOrdering
  <2> QED
    BY <1>2, <2>2
<1> QED
  BY <1>3

\* A set of indices that is not empty has a last one.
LEMMA MaxIn ==
    ASSUME NEW n \in Nat, NEW T \in SUBSET (1 .. n), T # {}
    PROVE  Max(T) \in T
<1>1. PICK Z : Z = {n - i : i \in T}
  OBVIOUS
<1>2. Z \in SUBSET Nat /\ Z # {}
  <2>1. \A i \in T : n - i \in Nat
    OBVIOUS
  <2> QED
    BY <1>1, <2>1
<1>3. Smallest(Z) \in Z /\ \A z \in Z : Smallest(Z) <= z
  BY <1>2, LeastOf
<1>4. PICK i \in T : Smallest(Z) = n - i
  BY <1>1, <1>3
<1>5. ASSUME NEW j \in T PROVE i >= j
  <2>1. n - j \in Z /\ i \in Int /\ j \in Int
    BY <1>1
  <2> QED
    BY <1>3, <1>4, <2>1
<1> QED
  BY <1>5 DEF Max

\* Each part of S has a last index.
Ordered(S) == IsFiniteSet(S) /\ \A T \in SUBSET S : T # {} => Max(T) \in T

\* The indices of a sequence are ordered, and so is each part of them.
LEMMA OrderedParts ==
    /\ \A n \in Nat : Ordered(1 .. n)
    /\ \A S : Ordered(S) => \A T \in SUBSET S : Ordered(T)
<1>1. ASSUME NEW n \in Nat PROVE Ordered(1 .. n)
  <2>1. IsFiniteSet(1 .. n)
    <3>1. 1 \in Int /\ n \in Int
      OBVIOUS
    <3> QED
      BY <3>1, FS_Interval
  <2>2. \A T \in SUBSET (1 .. n) : T # {} => Max(T) \in T
    BY MaxIn
  <2> QED
    BY <2>1, <2>2 DEF Ordered
<1>2. ASSUME NEW S, Ordered(S), NEW T \in SUBSET S PROVE Ordered(T)
  BY <1>2, FS_Subset DEF Ordered
<1> QED
  BY <1>1, <1>2

\* The partial results of a fold over the indices S of q, from b, by the table G.
Folds(g, G, b, q, S) ==
    g = [T \in SUBSET S |-> IF T = {} THEN b ELSE G[<<g[T \ {Max(T)}], q[Max(T)]>>]]

\* They do not depend on the indices that follow.
LEMMA FoldsAgree ==
    ASSUME NEW S, Ordered(S), NEW T \in SUBSET S,
           NEW G, NEW b, NEW q, NEW g, NEW h, Folds(g, G, b, q, S), Folds(h, G, b, q, T)
    PROVE  g[T] = h[T]
<1> DEFINE B == {V \in SUBSET T : g[V] # h[V]}
<1> SUFFICES ASSUME B # {} PROVE FALSE
  OBVIOUS
<1>1. B \in SUBSET (SUBSET S) /\ IsFiniteSet(S)
  BY DEF Ordered
<1> HIDE DEF B
<1>2. PICK V \in B : \A W \in SUBSET V : W # V => W \notin B
  BY <1>1, SmallestSubset
<1>3. V \in SUBSET S /\ V \in SUBSET T /\ g[V] # h[V]
  BY DEF B
<1>4. V # {}
  <2>1. V = {} => g[V] = b /\ h[V] = b
    BY <1>3 DEF Folds
  <2> QED
    BY <1>3, <2>1
<1>5. PICK c, W : c = Max(V) /\ W = V \ {c}
  OBVIOUS
<1>6. c \in V
  BY <1>3, <1>4, <1>5 DEF Ordered
<1>7. g[V] = G[<<g[W], q[c]>>] /\ h[V] = G[<<h[W], q[c]>>]
  <2>1. g[V] = G[<<g[W], q[c]>>]
    BY <1>3, <1>4, <1>5 DEF Folds
  <2>2. h[V] = G[<<h[W], q[c]>>]
    BY <1>3, <1>4, <1>5 DEF Folds
  <2> QED
    BY <2>1, <2>2
<1>8. g[W] = h[W]
  BY <1>2, <1>3, <1>5, <1>6 DEF B
<1> QED
  BY <1>3, <1>7, <1>8

\* There are partial results.
LEMMA FoldsExist ==
    ASSUME NEW S, Ordered(S), NEW G, NEW b, NEW q
    PROVE  \E g : Folds(g, G, b, q, S)
<1> DEFINE B == {U \in SUBSET S : ~\E g : Folds(g, G, b, q, U)}
<1> SUFFICES ASSUME B # {} PROVE FALSE
  OBVIOUS
<1>0. B \in SUBSET (SUBSET S) /\ IsFiniteSet(S)
  BY DEF Ordered
<1> HIDE DEF B
<1>1. PICK U \in B : \A V \in SUBSET U : V # U => V \notin B
  BY <1>0, SmallestSubset
<1>2. U \in SUBSET S /\ ~\E g : Folds(g, G, b, q, U)
  BY DEF B
<1>3. ASSUME NEW V \in SUBSET U, V # U PROVE \E g : Folds(g, G, b, q, V)
  BY <1>1, <1>2, <1>3 DEF B
<1> DEFINE W(V) == CHOOSE g : Folds(g, G, b, q, V)
           val(T) == IF T = {} THEN b ELSE G[<<W(T \ {Max(T)})[T \ {Max(T)}], q[Max(T)]>>]
           h == [T \in SUBSET U |-> val(T)]
<1>4. ASSUME NEW V \in SUBSET U, V # U PROVE Folds(W(V), G, b, q, V)
  BY <1>3, <1>4
<1> HIDE DEF W
<1>m. ASSUME NEW T \in SUBSET U PROVE Ordered(T) /\ (T # {} => Max(T) \in T)
  BY <1>2, OrderedParts DEF Ordered
<1>5. ASSUME NEW V \in SUBSET U, V # U PROVE W(V)[V] = val(V)
  <2>1. Folds(W(V), G, b, q, V) /\ V \in SUBSET V
    BY <1>4, <1>5
  <2>2. CASE V = {}
    BY <2>1, <2>2 DEF Folds
  <2>3. CASE V # {}
    <3>1. PICK c, X : c = Max(V) /\ X = V \ {c}
      OBVIOUS
    <3>2. c \in V
      BY <1>m, <2>3, <3>1
    <3>3. W(V)[V] = G[<<W(V)[X], q[c]>>]
      BY <2>1, <2>3, <3>1 DEF Folds
    <3>4. X \in SUBSET U /\ X # U /\ X \in SUBSET V /\ Ordered(V)
      BY <1>m, <3>1, <3>2
    <3>5. Folds(W(X), G, b, q, X)
      BY <1>4, <3>4
    <3>6. W(V)[X] = W(X)[X]
      <4>1. PICK v, w : v = W(V) /\ w = W(X)
        OBVIOUS
      <4>2. Folds(v, G, b, q, V) /\ Folds(w, G, b, q, X)
        BY <2>1, <3>5, <4>1
      <4>3. v[X] = w[X]
        BY <3>4, <4>2, FoldsAgree
      <4> QED
        BY <4>1, <4>3
    <3> QED
      BY <2>3, <3>1, <3>3, <3>6
  <2> QED
    BY <2>2, <2>3
<1>6. h = [T \in SUBSET U |-> IF T = {} THEN b ELSE G[<<h[T \ {Max(T)}], q[Max(T)]>>]]
  <2>1. ASSUME NEW T \in SUBSET U, T # {} PROVE h[T] = G[<<h[T \ {Max(T)}], q[Max(T)]>>]
    <3>1. PICK c, X : c = Max(T) /\ X = T \ {c}
      OBVIOUS
    <3>2. c \in T
      BY <1>m, <2>1, <3>1
    <3>3. X \in SUBSET U /\ X # U
      BY <3>1, <3>2
    <3>4. h[X] = val(X) /\ W(X)[X] = val(X)
      BY <1>5, <3>3
    <3>5. h[T] = G[<<W(X)[X], q[c]>>]
      BY <2>1, <3>1
    <3> QED
      BY <3>1, <3>4, <3>5
  <2>2. h[{}] = b
    OBVIOUS
  <2> HIDE DEF val
  <2>3. h = [T \in SUBSET U |-> h[T]]
    OBVIOUS
  <2> HIDE DEF h
  <2> QED
    BY <2>1, <2>2, <2>3
<1>7. Folds(h, G, b, q, U)
  BY <1>6 DEF Folds
<1> QED
  BY <1>2, <1>7

\* What each index keeps in R, all of them do.
LEMMA FoldStays ==
    ASSUME NEW S, Ordered(S), NEW R, NEW g, g[{}] \in R,
           \A T \in SUBSET S : T # {} /\ g[T \ {Max(T)}] \in R => g[T] \in R
    PROVE  \A T \in SUBSET S : g[T] \in R
<1> DEFINE B == {T \in SUBSET S : g[T] \notin R}
<1> SUFFICES ASSUME B # {} PROVE FALSE
  OBVIOUS
<1>1. B \in SUBSET (SUBSET S) /\ IsFiniteSet(S)
  BY DEF Ordered
<1> HIDE DEF B
<1>2. PICK T \in B : \A V \in SUBSET T : V # T => V \notin B
  BY <1>1, SmallestSubset
<1>3. T \in SUBSET S /\ g[T] \notin R /\ T # {}
  BY DEF B
<1>4. PICK c, X : c = Max(T) /\ X = T \ {c}
  OBVIOUS
<1>5. c \in T
  BY <1>3, <1>4 DEF Ordered
<1>6. X \in SUBSET T /\ X # T /\ X \in SUBSET S
  BY <1>3, <1>4, <1>5
<1>7. g[X] \in R
  BY <1>2, <1>6 DEF B
<1> QED
  BY <1>3, <1>4, <1>7

\* The table G keeps R, for the elements of q.
Keeps(G, q, S, R) == \A r \in R, i \in S : G[<<r, q[i]>>] \in R

\* A fold by a table that keeps R.
LEMMA FoldIn ==
    ASSUME NEW S, Ordered(S), NEW R, NEW b \in R, NEW q, NEW G, Keeps(G, q, S, R)
    PROVE  \E g : Folds(g, G, b, q, S) /\ \A T \in SUBSET S : g[T] \in R
<1>1. PICK g : Folds(g, G, b, q, S)
  BY FoldsExist
<1>2. g[{}] \in R
  BY <1>1 DEF Folds
<1>3. ASSUME NEW T \in SUBSET S, T # {}, g[T \ {Max(T)}] \in R PROVE g[T] \in R
  <2>1. PICK i, X : i = Max(T) /\ X = T \ {i}
    OBVIOUS
  <2>2. i \in S
    BY <1>3, <2>1 DEF Ordered
  <2>3. g[T] = G[<<g[X], q[i]>>]
    BY <1>1, <1>3, <2>1 DEF Folds
  <2> QED
    BY <1>3, <2>1, <2>2, <2>3 DEF Keeps
<1>4. \A T \in SUBSET S : g[T] \in R
  BY <1>2, <1>3, FoldStays
<1> QED
  BY <1>1, <1>4

\* What holds of 0 and of each number with its predecessor holds up to n: I says where.
LEMMA Upwards ==
    ASSUME NEW n \in Nat, NEW I, 0 \in I, \A k \in 1 .. n : k - 1 \in I => k \in I
    PROVE  \A k \in 0 .. n : k \in I
<1> DEFINE T == {k \in 0 .. n : k \notin I}
<1> SUFFICES ASSUME T # {} PROVE FALSE
  OBVIOUS
<1>1. T \in SUBSET Nat
  OBVIOUS
<1>2. PICK m \in T : \A k \in T : m <= k
  BY <1>1, LeastOf
<1>3. m \in 1 .. n /\ m - 1 \in 0 .. n /\ ~(m <= m - 1)
  BY <1>1
<1>4. m - 1 \in I
  BY <1>2, <1>3
<1> QED
  BY <1>3, <1>4

-----------------------------------------------------------------------------
(* The army list, and the soldiers that a queue adds to it.                *)

Entries == [kind : Kinds, num : Int]
TimerQueues == [armys : Seq(Entries), age : Int, block : BOOLEAN]
DeadlineTimers == [armed : BOOLEAN, exp : Int, ready : Nat]
ArmySlots == Kinds \cup {Hole}
Deaths == [slot : Nat, kind : ArmySlots, freed : BOOLEAN]

\* How many soldiers of kind k the army list a has, and the death d that is half written.
SlotNum(a, k) == Cardinality({i \in 1 .. Len(a) : a[i] = k})
Dead(d, k) == IF d # None /\ d.freed /\ d.kind = k THEN 1 ELSE 0

\* The army s has the numbers of its slots, but for the death d.death and for what
\* d.over says of each kind.
ArmyOK(s, d) ==
    /\ s \in [army : Seq(ArmySlots), count : [Kinds -> Int], popu : Nat]
    /\ d.over \in [Kinds -> Int]
    /\ \A k \in Kinds : s.count[k] = SlotNum(s.army, k) + Dead(d.death, k) + d.over[k]
    /\ d.death # None => /\ d.death \in Deaths /\ d.death.slot \in 1 .. Len(s.army)
                         /\ (~d.death.freed /\ d.death.kind # Hole) => s.army[d.death.slot] = d.death.kind

\* The army list b is a with a soldier of kind k in slot i.
Fills(a, b, i, k) ==
    \/ i \in 1 .. Len(a) /\ a[i] = Hole /\ b = [a EXCEPT ![i] = k]
    \/ i = Len(a) + 1 /\ b = Append(a, k)

\* A free slot that is filled is one soldier more.
LEMMA SlotFilled ==
    ASSUME NEW a \in Seq(ArmySlots), NEW b, NEW i, NEW k \in Kinds, Fills(a, b, i, k)
    PROVE  /\ b \in Seq(ArmySlots) /\ Len(b) \in Nat /\ Len(a) <= Len(b)
           /\ \A j \in 1 .. Len(a) : a[j] # Hole => b[j] = a[j]
           /\ \A l \in Kinds : SlotNum(b, l) = SlotNum(a, l) + (IF l = k THEN 1 ELSE 0)
<1>1. k # Hole /\ k \in ArmySlots /\ Len(a) \in Nat
  BY ArmyAssumption DEF ArmySlots
<1>2. /\ b \in Seq(ArmySlots) /\ Len(b) \in Nat /\ Len(a) <= Len(b)
      /\ i \in 1 .. Len(b) /\ b[i] = k
      /\ \A j \in 1 .. Len(b) : j # i => j \in 1 .. Len(a) /\ b[j] = a[j]
      /\ \A j \in 1 .. Len(a) : a[j] # Hole => j # i
      /\ i \in 1 .. Len(a) => a[i] = Hole
  <2>1. CASE i \in 1 .. Len(a) /\ a[i] = Hole /\ b = [a EXCEPT ![i] = k]
    <3>1. b \in Seq(ArmySlots) /\ Len(b) = Len(a)
      BY <1>1, <2>1
    <3>2. \A j \in 1 .. Len(a) : b[j] = IF j = i THEN k ELSE a[j]
      BY <1>1, <2>1
    <3> QED
      BY <1>1, <2>1, <3>1, <3>2
  <2>2. CASE i = Len(a) + 1 /\ b = Append(a, k)
    <3>1. b \in Seq(ArmySlots) /\ Len(b) = Len(a) + 1
      BY <1>1, <2>2
    <3>2. \A j \in 1 .. Len(b) : b[j] = IF j = i THEN k ELSE a[j]
      BY <1>1, <2>2
    <3> QED
      BY <1>1, <2>2, <3>1, <3>2
  <2> QED
    BY <2>1, <2>2 DEF Fills
<1>3. \A j \in 1 .. Len(a) : j # i => j \in 1 .. Len(b) /\ b[j] = a[j]
  BY <1>1, <1>2
<1>4. ASSUME NEW l \in Kinds
      PROVE  SlotNum(b, l) = SlotNum(a, l) + (IF l = k THEN 1 ELSE 0)
  <2>1. PICK A, B : A = {j \in 1 .. Len(a) : a[j] = l} /\ B = {j \in 1 .. Len(b) : b[j] = l}
    OBVIOUS
  <2>2. IsFiniteSet(A)
    <3>1. 1 \in Int /\ Len(a) \in Int
      BY <1>1
    <3>2. IsFiniteSet(1 .. Len(a)) /\ A \subseteq 1 .. Len(a)
      BY <2>1, <3>1, FS_Interval
    <3> QED
      BY <3>2, FS_Subset
  <2>3. l # Hole
    BY ArmyAssumption
  <2>4. CASE l = k
    <3>1. i \notin A
      BY <1>2, <2>1, <2>3
    <3>2. B = A \cup {i}
      BY <1>2, <1>3, <2>1, <2>3, <2>4
    <3>3. Cardinality(B) = Cardinality(A) + 1
      BY <2>2, <3>1, <3>2, FS_AddElement
    <3> QED
      BY <2>1, <2>4, <3>3 DEF SlotNum
  <2>5. CASE l # k
    <3>1. B = A
      BY <1>2, <1>3, <2>1, <2>3, <2>5
    <3>2. Cardinality(A) \in Nat
      BY <2>2, FS_CardinalityType
    <3>3. SlotNum(b, l) = SlotNum(a, l) /\ SlotNum(a, l) \in Nat
      BY <2>1, <3>1, <3>2 DEF SlotNum
    <3> QED
      BY <2>5, <3>3
  <2> QED
    BY <2>4, <2>5
<1> QED
  BY <1>2, <1>3, <1>4

\* FirstSlot finds a free slot, or a new one at the end.
LEMMA SlotFound ==
    ASSUME NEW a \in Seq(ArmySlots), NEW k \in Kinds
    PROVE  Fills(a, IF FirstSlot(a) > Len(a) THEN Append(a, k) ELSE [a EXCEPT ![FirstSlot(a)] = k],
                 FirstSlot(a), k)
<1>1. CASE \E i \in 1 .. Len(a) : a[i] = Hole
  <2>1. PICK H : H = {i \in 1 .. Len(a) : a[i] = Hole}
    OBVIOUS
  <2>2. H \in SUBSET Nat /\ H # {}
    BY <1>1, <2>1
  <2>3. PICK h \in H : \A i \in H : h <= i
    BY <2>2, LeastOf
  <2>4. h \in 1 .. Len(a) /\ a[h] = Hole /\ \A j \in 1 .. (h - 1) : a[j] # Hole
    BY <2>1, <2>3
  <2>5. FirstSlot(a) = CHOOSE i \in 1 .. Len(a) : a[i] = Hole /\ \A j \in 1 .. (i-1) : a[j] # Hole
    BY <1>1 DEF FirstSlot
  <2>6. FirstSlot(a) \in 1 .. Len(a) /\ a[FirstSlot(a)] = Hole
    BY <2>4, <2>5
  <2>7. ~(FirstSlot(a) > Len(a))
    BY <2>6
  <2> QED
    BY <2>6, <2>7 DEF Fills
<1>2. CASE ~\E i \in 1 .. Len(a) : a[i] = Hole
  <2>1. FirstSlot(a) = Len(a) + 1 /\ FirstSlot(a) > Len(a)
    BY <1>2 DEF FirstSlot
  <2> QED
    BY <2>1 DEF Fills
<1> QED
  BY <1>1, <1>2

\* The soldiers of a kind are a number.
LEMMA SlotNumber ==
    ASSUME NEW a \in Seq(ArmySlots), NEW l
    PROVE  SlotNum(a, l) \in Int
<1>1. 1 \in Int /\ Len(a) \in Int
  OBVIOUS
<1>2. IsFiniteSet(1 .. Len(a))
  BY <1>1, FS_Interval
<1>3. PICK Z : Z = {j \in 1 .. Len(a) : a[j] = l}
  OBVIOUS
<1>4. IsFiniteSet(Z)
  BY <1>2, <1>3, FS_Subset
<1>5. Cardinality(Z) \in Int
  BY <1>4, FS_CardinalityType
<1> QED
  BY <1>3, <1>5 DEF SlotNum

\* One soldier more keeps list and numbers in agreement, and the slot of one who dies.
LEMMA InsertOK ==
    ASSUME NEW s, NEW d, ArmyOK(s, d), NEW k \in Kinds
    PROVE  ArmyOK(Insert(s, k), d)
<1>1. s \in [army : Seq(ArmySlots), count : [Kinds -> Int], popu : Nat]
  BY DEF ArmyOK
<1>2. PICK a, i, b : /\ a = s.army /\ i = FirstSlot(a)
                     /\ b = IF i > Len(a) THEN Append(a, k) ELSE [a EXCEPT ![i] = k]
  OBVIOUS
<1>3. a \in Seq(ArmySlots) /\ Fills(a, b, i, k)
  BY <1>1, <1>2, SlotFound
<1>4. /\ b \in Seq(ArmySlots) /\ Len(b) \in Nat /\ Len(a) <= Len(b)
      /\ \A j \in 1 .. Len(a) : a[j] # Hole => b[j] = a[j]
      /\ \A l \in Kinds : SlotNum(b, l) = SlotNum(a, l) + (IF l = k THEN 1 ELSE 0)
  BY <1>3, SlotFilled
<1>5. PICK c, p : c = [s.count EXCEPT ![k] = @ + 1] /\ p = s.popu + Population[k]
  OBVIOUS
<1>6. Insert(s, k) = [army |-> b, count |-> c, popu |-> p]
  BY <1>2, <1>5 DEF Insert
<1>7. c \in [Kinds -> Int] /\ \A l \in Kinds : c[l] = s.count[l] + (IF l = k THEN 1 ELSE 0)
  BY <1>1, <1>5
<1>8. p \in Nat
  BY <1>1, <1>5, ArmyAssumption
<1>9. PICK r : r = Insert(s, k)
  OBVIOUS
<1>10. r \in [army : Seq(ArmySlots), count : [Kinds -> Int], popu : Nat]
       /\ r.army = b /\ r.count = c
  BY <1>4, <1>6, <1>7, <1>8, <1>9
<1>0. PICK e, o : e = d.death /\ o = d.over
  OBVIOUS
<1>11. ASSUME NEW l \in Kinds PROVE r.count[l] = SlotNum(r.army, l) + Dead(e, l) + o[l]
  <2>1. c[l] = s.count[l] + (IF l = k THEN 1 ELSE 0) /\ s.count[l] \in Int
    BY <1>1, <1>7
  <2>2. s.count[l] = SlotNum(a, l) + Dead(e, l) + o[l]
    BY <1>0, <1>2 DEF ArmyOK
  <2>3. SlotNum(b, l) = SlotNum(a, l) + (IF l = k THEN 1 ELSE 0)
    BY <1>4
  <2>4. Dead(e, l) \in Int /\ SlotNum(a, l) \in Int
    BY <1>3, SlotNumber DEF Dead
  <2>5. o[l] \in Int
    BY <1>0 DEF ArmyOK
  <2> QED
    BY <1>10, <2>1, <2>2, <2>3, <2>4, <2>5
<1>12. ASSUME e # None
       PROVE  /\ e \in Deaths /\ e.slot \in 1 .. Len(r.army)
              /\ (~e.freed /\ e.kind # Hole) => r.army[e.slot] = e.kind
  <2>1. /\ e \in Deaths /\ e.slot \in 1 .. Len(a)
        /\ (~e.freed /\ e.kind # Hole) => a[e.slot] = e.kind
    BY <1>0, <1>2, <1>12 DEF ArmyOK
  <2>2. Len(a) \in Nat
    BY <1>3
  <2> QED
    BY <1>4, <1>10, <2>1, <2>2
<1>13. ArmyOK(r, d)
  BY <1>0, <1>10, <1>11, <1>12 DEF ArmyOK
<1> QED
  BY <1>9, <1>13

\* The armies after each of n soldiers of kind k.
Inserts(h, s, k, n) == h = [i \in 0 .. n |-> IF i = 0 THEN s ELSE Insert(h[i - 1], k)]

\* There are such armies.
LEMMA InsertsExist ==
    ASSUME NEW s, NEW k, NEW n \in Nat
    PROVE  \E h : Inserts(h, s, k, n)
<1> DEFINE I == {m \in 0 .. n : \E h : Inserts(h, s, k, m)}
<1>1. 0 \in I
  <2>1. PICK h : h = [i \in 0 .. 0 |-> s]
    OBVIOUS
  <2>2. h = [i \in 0 .. 0 |-> IF i = 0 THEN s ELSE Insert(h[i - 1], k)]
    BY <2>1
  <2> QED
    BY <2>2 DEF Inserts
<1>2. ASSUME NEW m \in 1 .. n, m - 1 \in I PROVE m \in I
  <2>1. PICK f : Inserts(f, s, k, m - 1)
    BY <1>2
  <2>2. PICK h : h = [i \in 0 .. m |-> IF i = m THEN Insert(f[m - 1], k) ELSE f[i]]
    OBVIOUS
  <2>3. ASSUME NEW i \in 0 .. m PROVE h[i] = IF i = 0 THEN s ELSE Insert(h[i - 1], k)
    <3>1. CASE i = m
      <4>1. m - 1 \in 0 .. m /\ m - 1 # m /\ m # 0
        OBVIOUS
      <4>2. h[m] = Insert(f[m - 1], k) /\ h[m - 1] = f[m - 1]
        BY <2>2, <4>1
      <4> QED
        BY <3>1, <4>1, <4>2
    <3>2. CASE i # m
      <4>1. i \in 0 .. m - 1
        BY <3>2
      <4>2. f[i] = IF i = 0 THEN s ELSE Insert(f[i - 1], k)
        BY <2>1, <4>1 DEF Inserts
      <4>3. h[i] = f[i]
        BY <2>2, <3>2
      <4>4. CASE i = 0
        BY <4>2, <4>3, <4>4
      <4>5. CASE i # 0
        <5>1. i - 1 \in 0 .. m /\ i - 1 # m
          BY <4>1, <4>5
        <5>2. h[i - 1] = f[i - 1]
          BY <2>2, <5>1
        <5> QED
          BY <4>2, <4>3, <4>5, <5>2
      <4> QED
        BY <4>4, <4>5
    <3> QED
      BY <3>1, <3>2
  <2>4. h = [i \in 0 .. m |-> h[i]]
    BY <2>2
  <2>5. h = [i \in 0 .. m |-> IF i = 0 THEN s ELSE Insert(h[i - 1], k)]
    BY <2>3, <2>4
  <2>6. Inserts(h, s, k, m)
    BY <2>5 DEF Inserts
  <2> QED
    BY <2>6
<1> HIDE DEF I
<1>3. \A m \in 0 .. n : m \in I
  BY <1>1, <1>2, Upwards
<1>4. n \in I
  BY <1>3
<1> QED
  BY <1>4 DEF I

\* The script called n times leaves an army that agrees.
LEMMA InsertedMany ==
    ASSUME NEW s, NEW d, ArmyOK(s, d), NEW k \in Kinds, NEW n \in Nat
    PROVE  ArmyOK(InsertMany(s, k, n), d)
<1>1. InsertMany(s, k, n) = (CHOOSE h : Inserts(h, s, k, n))[n]
  BY DEF InsertMany, Inserts
<1>2. PICK h : h = CHOOSE f : Inserts(f, s, k, n)
  OBVIOUS
<1>3. Inserts(h, s, k, n)
  BY <1>2, InsertsExist
<1> DEFINE I == {m \in 0 .. n : ArmyOK(h[m], d)}
<1>4. 0 \in I
  <2>1. h[0] = s
    BY <1>3 DEF Inserts
  <2> QED
    BY <2>1
<1>5. ASSUME NEW m \in 1 .. n, m - 1 \in I PROVE m \in I
  <2>1. PICK r : r = h[m - 1]
    OBVIOUS
  <2>2. ArmyOK(r, d)
    BY <1>5, <2>1
  <2>3. m \in 0 .. n /\ m # 0
    OBVIOUS
  <2>4. h[m] = Insert(r, k)
    BY <1>3, <2>1, <2>3 DEF Inserts
  <2>5. ArmyOK(Insert(r, k), d)
    BY <2>2, InsertOK
  <2> QED
    BY <2>3, <2>4, <2>5
<1> HIDE DEF I
<1>6. \A m \in 0 .. n : m \in I
  BY <1>4, <1>5, Upwards
<1>7. n \in I
  BY <1>6
<1>8. ArmyOK(h[n], d)
  BY <1>7 DEF I
<1> QED
  BY <1>1, <1>2, <1>8

\* How many find room is a number.
LEMMA RoomIs ==
    ASSUME NEW k \in Kinds, NEW p \in Nat
    PROVE  Room(k, p) \in Nat
<1>1. Population[k] \in Nat \ {0} /\ PopLimit \in Nat
  BY ArmyAssumption
<1>2. CASE p > PopLimit
  BY <1>2 DEF Room
<1>3. CASE ~(p > PopLimit)
  <2>1. PICK a, b : a = PopLimit - p /\ b = Population[k]
    OBVIOUS
  <2>2. a \in Nat /\ b \in Nat /\ b > 0
    BY <1>1, <1>3, <2>1
  <2>3. a \div b \in Nat
    BY <2>2
  <2> QED
    BY <1>3, <2>1, <2>3 DEF Room
<1> QED
  BY <1>2, <1>3

\* A diamond completion of an entry.
LEMMA CompleteOK ==
    ASSUME NEW s, NEW d, ArmyOK(s, d), NEW e \in Entries
    PROVE  ArmyOK(Complete(s, e), d)
<1>1. PICK k, n : k = e.kind /\ n = Least(Most(e.num, 0), Room(k, s.popu))
  OBVIOUS
<1>2. k \in Kinds /\ e.num \in Int /\ s.popu \in Nat
  BY <1>1 DEF Entries, ArmyOK
<1>3. n \in Nat
  <2>1. Room(k, s.popu) \in Nat
    BY <1>2, RoomIs
  <2>2. Most(e.num, 0) \in Nat
    BY <1>2 DEF Most
  <2> QED
    BY <1>1, <2>1, <2>2 DEF Least
<1>4. Complete(s, e) = InsertMany(s, k, n)
  BY <1>1 DEF Complete
<1> QED
  BY <1>2, <1>3, <1>4, InsertedMany

\* The armies that agree.
Armies(d) == {s \in [army : Seq(ArmySlots), count : [Kinds -> Int], popu : Nat] : ArmyOK(s, d)}

\* So does a completion of a queue.
LEMMA CompletedAll ==
    ASSUME NEW s, NEW d, ArmyOK(s, d), NEW q \in Seq(Entries)
    PROVE  ArmyOK(FoldLeft(Complete, s, q), d)
<1>1. PICK R, S : R = Armies(d) /\ S = DOMAIN q
  OBVIOUS
<1>2. ASSUME NEW r PROVE r \in R <=> ArmyOK(r, d)
  BY <1>1 DEF Armies, ArmyOK
<1>3. Ordered(S) /\ \A i \in S : q[i] \in Entries
  <2>1. Len(q) \in Nat /\ S = 1 .. Len(q)
    BY <1>1
  <2> QED
    BY <1>1, <2>1, OrderedParts
<1> DEFINE Is(h) == h = [T \in SUBSET S |-> IF T = {} THEN s ELSE Complete(h[T \ {Max(T)}], q[Max(T)])]
<1>4. FoldLeft(Complete, s, q) = (CHOOSE h : Is(h))[S]
  BY <1>1 DEF FoldLeft, MapThenFoldSet
<1>5. PICK G : G = [p \in R \X Entries |-> Complete(p[1], p[2])]
  OBVIOUS
<1>6. ASSUME NEW r \in R, NEW e \in Entries
      PROVE  G[<<r, e>>] = Complete(r, e) /\ Complete(r, e) \in R
  <2>1. G[<<r, e>>] = Complete(r, e)
    BY <1>5
  <2>2. ArmyOK(Complete(r, e), d)
    BY <1>2, CompleteOK
  <2> QED
    BY <1>2, <2>1, <2>2
<1>7. PICK g : Folds(g, G, s, q, S) /\ \A T \in SUBSET S : g[T] \in R
  <2>1. s \in R /\ Keeps(G, q, S, R)
    BY <1>2, <1>3, <1>6 DEF Keeps
  <2> QED
    BY <1>3, <2>1, FoldIn
<1>m. ASSUME NEW T \in SUBSET S, T # {} PROVE Max(T) \in S /\ T \ {Max(T)} \in SUBSET S
  BY <1>3, <1>m DEF Ordered
<1>8. Is(g)
  <2>1. ASSUME NEW T \in SUBSET S
        PROVE  g[T] = IF T = {} THEN s ELSE Complete(g[T \ {Max(T)}], q[Max(T)])
    <3>1. CASE T = {}
      BY <1>7, <3>1 DEF Folds
    <3>2. CASE T # {}
      <4>1. PICK i, X : i = Max(T) /\ X = T \ {i}
        OBVIOUS
      <4>2. i \in S /\ X \in SUBSET S
        BY <1>m, <3>2, <4>1
      <4>3. g[T] = G[<<g[X], q[i]>>]
        BY <1>7, <3>2, <4>1 DEF Folds
      <4>4. g[X] \in R /\ q[i] \in Entries
        BY <1>3, <1>7, <4>2
      <4>5. g[T] = Complete(g[X], q[i])
        BY <1>6, <4>3, <4>4
      <4> QED
        BY <3>2, <4>1, <4>5
    <3> QED
      BY <3>1, <3>2
  <2>2. g = [T \in SUBSET S |-> g[T]]
    BY <1>7 DEF Folds
  <2> QED
    BY <2>1, <2>2
<1>9. PICK h : h = CHOOSE f : Is(f)
  OBVIOUS
<1>10. Is(h)
  BY <1>8, <1>9
<1>11. h[{}] \in R
  BY <1>2, <1>10
<1>12. ASSUME NEW T \in SUBSET S, T # {}, h[T \ {Max(T)}] \in R PROVE h[T] \in R
  <2>1. PICK i, X : i = Max(T) /\ X = T \ {i}
    OBVIOUS
  <2>2. h[T] = Complete(h[X], q[i])
    BY <1>10, <1>12, <2>1
  <2>3. q[i] \in Entries
    BY <1>3, <1>m, <1>12, <2>1
  <2> QED
    BY <1>6, <1>12, <2>1, <2>2, <2>3
<1>13. \A T \in SUBSET S : h[T] \in R
  BY <1>3, <1>11, <1>12, FoldStays
<1>14. h[S] \in R
  BY <1>13
<1> QED
  BY <1>2, <1>4, <1>9, <1>14

-----------------------------------------------------------------------------
(* A queue and its timer, and how they come back from redis.               *)

\* The queue q and the timer t of a camp: what is shown is what the timer has to go.
QueueOK(q, t) ==
    /\ q \in TimerQueues /\ t \in DeadlineTimers
    /\ q.armys # << >> /\ ~q.block /\ q.age < Horizon =>
         /\ t.exp = BuildTime[Head(q.armys).kind] - q.age
         /\ t.armed \/ t.ready > 0

\* A blocked queue and an empty one ask nothing of the timer.
LEMMA QueueRests ==
    ASSUME NEW q \in TimerQueues, NEW t \in DeadlineTimers, q.block \/ q.armys = << >>
    PROVE  QueueOK(q, t)
  BY DEF QueueOK

\* The front of a queue.
LEMMA FrontOf ==
    ASSUME NEW q \in TimerQueues, q.armys # << >>
    PROVE  Head(q.armys) \in Entries /\ BuildTime[Head(q.armys).kind] \in Nat
<1>1. PICK a : a = q.armys
  OBVIOUS
<1>2. a \in Seq(Entries) /\ a # << >>
  BY <1>1 DEF TimerQueues
<1>3. Head(a) \in Entries
  BY <1>2
<1>4. PICK e : e = Head(a)
  OBVIOUS
<1>5. e.kind \in Kinds
  BY <1>3, <1>4 DEF Entries
<1> QED
  BY <1>1, <1>3, <1>4, <1>5, ArmyAssumption

\* registerTime.
LEMMA Registered ==
    ASSUME NEW q \in TimerQueues, NEW t \in DeadlineTimers, NEW age \in Int, NEW secs \in Nat
    PROVE  /\ RegisterTime(q, t, age, secs).q \in TimerQueues
           /\ RegisterTime(q, t, age, secs).q.armys = q.armys
           /\ RegisterTime(q, t, age, secs).q.block = q.block
           /\ RegisterTime(q, t, age, secs).t \in DeadlineTimers
           /\ secs = 0 \/ q.block => QueueOK(RegisterTime(q, t, age, secs).q, RegisterTime(q, t, age, secs).t)
<1>1. PICK r : r = RegisterTime(q, t, age, secs)
  OBVIOUS
<1>2. CASE q.armys = << >>
  <2>1. r = [q |-> q, t |-> t]
    BY <1>1, <1>2 DEF RegisterTime
  <2>2. r.q = q /\ r.t = t
    BY <2>1
  <2> QED
    BY <1>1, <1>2, <2>2, QueueRests
<1>3. CASE q.armys # << >>
  <2>1. PICK w : w = IF secs = 0 THEN BuildTime[Head(q.armys).kind] ELSE secs
    OBVIOUS
  <2>2. w \in Nat
    BY <1>3, <2>1, FrontOf
  <2>3. PICK p, u : p = [q EXCEPT !.age = age] /\ u = [t EXCEPT !.armed = TRUE, !.exp = w - age]
    OBVIOUS
  <2>4. r = [q |-> p, t |-> u]
    BY <1>1, <1>3, <2>1, <2>3 DEF RegisterTime
  <2>5. p \in TimerQueues /\ p.armys = q.armys /\ p.block = q.block /\ p.age = age
    BY <2>3 DEF TimerQueues
  <2>6. u \in DeadlineTimers /\ u.armed /\ u.exp = w - age
    <3>1. PICK x : x = w - age
      OBVIOUS
    <3>2. x \in Int
      BY <2>2, <3>1
    <3>3. u = [t EXCEPT !.armed = TRUE, !.exp = x]
      BY <2>3, <3>1
    <3> QED
      BY <3>1, <3>2, <3>3 DEF DeadlineTimers
  <2>7. ASSUME secs = 0 \/ q.block PROVE QueueOK(p, u)
    <3>1. CASE q.block
      BY <2>5, <2>6, <3>1, QueueRests
    <3>2. CASE secs = 0
      BY <2>1, <2>5, <2>6, <3>2 DEF QueueOK
    <3> QED
      BY <2>7, <3>1, <3>2
  <2>8. r.q = p /\ r.t = u
    BY <2>4
  <2> QED
    BY <1>1, <2>5, <2>6, <2>7, <2>8
<1> QED
  BY <1>2, <1>3

\* An entry more does not change what a queue that is not empty waits for.
LEMMA Appended ==
    ASSUME NEW q, NEW t, QueueOK(q, t), q.block \/ q.armys # << >>, NEW e \in Entries
    PROVE  /\ QueueOK([q EXCEPT !.armys = Append(@, e)], t)
           /\ Append(q.armys, e) # << >>
           /\ [q EXCEPT !.armys = Append(@, e)].armys = Append(q.armys, e)
           /\ [q EXCEPT !.armys = Append(@, e)].block = q.block
<1>1. q \in TimerQueues /\ t \in DeadlineTimers
  BY DEF QueueOK
<1>2. PICK a, b, p : a = q.armys /\ b = Append(a, e) /\ p = [q EXCEPT !.armys = Append(@, e)]
  OBVIOUS
<1>3. a \in Seq(Entries)
  BY <1>1, <1>2 DEF TimerQueues
<1>4. b \in Seq(Entries) /\ b # << >> /\ (a # << >> => Head(b) = Head(a))
  BY <1>2, <1>3
<1>5. p \in TimerQueues /\ p.armys = b /\ p.block = q.block /\ p.age = q.age
  BY <1>1, <1>2, <1>4 DEF TimerQueues
<1>6. QueueOK(p, t)
  <2>1. CASE q.block
    BY <1>1, <1>5, <2>1, QueueRests
  <2>2. CASE a # << >>
    <3>1. Head(b) = Head(a)
      BY <1>4, <2>2
    <3>2. ~q.block /\ q.age < Horizon =>
            t.exp = BuildTime[Head(a).kind] - q.age /\ (t.armed \/ t.ready > 0)
      BY <1>2, <2>2 DEF QueueOK
    <3> QED
      BY <1>1, <1>5, <3>1, <3>2 DEF QueueOK
  <2> QED
    BY <1>2, <2>1, <2>2
<1> QED
  BY <1>2, <1>4, <1>5, <1>6

\* What newTimerQueueFromRedis has made of the entries so far.
Restorations(d) ==
    {r \in [s : [army : Seq(ArmySlots), count : [Kinds -> Int], popu : Nat], td : Int,
            direct : BOOLEAN, t : DeadlineTimers, q : TimerQueues] :
        /\ ArmyOK(r.s, d) /\ QueueOK(r.q, r.t)
        /\ r.direct \/ r.q.armys = << >>
        /\ r.direct => r.q.block \/ r.q.armys # << >>}

\* One entry keeps it so.
LEMMA RestoreOK ==
    ASSUME NEW d, NEW r \in Restorations(d), NEW e \in Entries
    PROVE  Restore(r, e) \in Restorations(d)
<1>1. /\ r \in [s : [army : Seq(ArmySlots), count : [Kinds -> Int], popu : Nat], td : Int,
                direct : BOOLEAN, t : DeadlineTimers, q : TimerQueues]
      /\ ArmyOK(r.s, d) /\ QueueOK(r.q, r.t)
      /\ r.direct \/ r.q.armys = << >>
      /\ r.direct => r.q.block \/ r.q.armys # << >>
  BY DEF Restorations
<1>2. e.kind \in Kinds /\ e.num \in Int /\ BuildTime[e.kind] \in Nat \ {0}
  BY ArmyAssumption DEF Entries
<1>3. PICK T : T = BuildTime[e.kind]
  OBVIOUS
<1>4. PICK byTime, byPopu, turns :
         byTime = Most(r.td, 0) \div T /\ byPopu = Room(e.kind, r.s.popu) /\ turns = Most(e.num + 1, 0)
  OBVIOUS
<1>5. PICK n : n = Least(turns, Least(byTime, byPopu))
  OBVIOUS
<1>6. n \in Nat
  <2>1. byTime \in Nat
    <3>1. Most(r.td, 0) \in Nat
      BY <1>1 DEF Most
    <3>2. T \in Nat /\ T > 0
      BY <1>2, <1>3
    <3> QED
      BY <1>4, <3>1, <3>2
  <2>2. byPopu \in Nat
    BY <1>1, <1>2, <1>4, RoomIs
  <2>3. turns \in Nat
    BY <1>2, <1>4 DEF Most
  <2> QED
    BY <1>5, <2>1, <2>2, <2>3 DEF Least
<1>7. PICK left, built, td :
         left = Entry(e.kind, e.num - n) /\ built = InsertMany(r.s, e.kind, n) /\ td = r.td - n * T
  OBVIOUS
<1>8. left \in Entries
  BY <1>2, <1>6, <1>7 DEF Entry, Entries
<1>9. ArmyOK(built, d) /\ built \in [army : Seq(ArmySlots), count : [Kinds -> Int], popu : Nat]
  <2>1. ArmyOK(built, d)
    BY <1>1, <1>2, <1>6, <1>7, InsertedMany
  <2> QED
    BY <2>1 DEF ArmyOK
<1>10. td \in Int
  BY <1>1, <1>2, <1>3, <1>6, <1>7
<1>11. CASE e.num = 0
  BY <1>11 DEF Restore
<1>12. CASE e.num # 0 /\ r.direct
  <2>1. PICK p : p = [r.q EXCEPT !.armys = Append(@, e)]
    OBVIOUS
  <2>2. QueueOK(p, r.t) /\ p.armys # << >>
    <3>1. PICK q, t : q = r.q /\ t = r.t
      OBVIOUS
    <3>2. QueueOK(q, t) /\ (q.block \/ q.armys # << >>)
      BY <1>1, <1>12, <3>1
    <3>3. p = [q EXCEPT !.armys = Append(@, e)]
      BY <2>1, <3>1
    <3>4. QueueOK(p, t) /\ Append(q.armys, e) # << >> /\ p.armys = Append(q.armys, e)
      BY <3>2, <3>3, Appended
    <3> QED
      BY <3>1, <3>4
  <2>3. p \in TimerQueues
    BY <2>2 DEF QueueOK
  <2>4. Restore(r, e) = [r EXCEPT !.q.armys = Append(@, e)]
    BY <1>12 DEF Restore
  <2>5. [r EXCEPT !.q.armys = Append(@, e)] = [r EXCEPT !.q = p]
    BY <1>1, <2>1
  <2>6. PICK x : x = [r EXCEPT !.q = p]
    OBVIOUS
  <2>7. /\ x \in [s : [army : Seq(ArmySlots), count : [Kinds -> Int], popu : Nat], td : Int,
                  direct : BOOLEAN, t : DeadlineTimers, q : TimerQueues]
        /\ x.s = r.s /\ x.q = p /\ x.t = r.t /\ x.direct = r.direct
    BY <1>1, <2>3, <2>6
  <2>8. x \in Restorations(d)
    BY <1>1, <1>12, <2>2, <2>7 DEF Restorations
  <2> QED
    BY <2>4, <2>5, <2>6, <2>8
<1>13. CASE e.num # 0 /\ ~r.direct /\ n = turns
  <2>1. PICK x : x = [r EXCEPT !.s = built, !.td = td]
    OBVIOUS
  <2>0. Restore(r, e) = [r EXCEPT !.s = built, !.td = @ - n * T]
    <3>1. ~(n < turns)
      BY <1>6, <1>13
    <3> QED
      BY <1>3, <1>4, <1>5, <1>7, <1>13, <3>1 DEF Restore
  <2>2. Restore(r, e) = x
    BY <1>1, <1>7, <2>0, <2>1
  <2>3. /\ x \in [s : [army : Seq(ArmySlots), count : [Kinds -> Int], popu : Nat], td : Int,
                  direct : BOOLEAN, t : DeadlineTimers, q : TimerQueues]
        /\ x.s = built /\ x.q = r.q /\ x.t = r.t /\ x.direct = r.direct
    BY <1>1, <1>9, <1>10, <2>1
  <2>4. x \in Restorations(d)
    BY <1>1, <1>9, <2>3 DEF Restorations
  <2> QED
    BY <2>2, <2>4
<1>p. ASSUME ~r.direct
      PROVE  /\ [r.q EXCEPT !.armys = Append(@, left)] \in TimerQueues
             /\ [r.q EXCEPT !.armys = Append(@, left)].armys # << >>
  <2>1. r.q \in TimerQueues /\ r.q.armys \in Seq(Entries)
    BY <1>1 DEF TimerQueues
  <2>2. PICK a : a = Append(r.q.armys, left)
    OBVIOUS
  <2>3. a \in Seq(Entries) /\ a # << >>
    BY <1>8, <2>1, <2>2
  <2> QED
    BY <2>1, <2>2, <2>3 DEF TimerQueues
<1>14. CASE e.num # 0 /\ ~r.direct /\ n < turns /\ n = byTime
  <2>1. PICK p, reg : p = [r.q EXCEPT !.armys = Append(@, left)] /\ reg = RegisterTime(p, r.t, td, 0)
    OBVIOUS
  <2>2. p \in TimerQueues /\ p.armys # << >>
    BY <1>p, <1>14, <2>1
  <2>3. reg.q \in TimerQueues /\ reg.q.armys = p.armys /\ reg.t \in DeadlineTimers /\ QueueOK(reg.q, reg.t)
    <3>1. r.t \in DeadlineTimers /\ 0 \in Nat
      BY <1>1
    <3> QED
      BY <1>10, <2>1, <2>2, <3>1, Registered
  <2>4. PICK x : x = [r EXCEPT !.s = built, !.q = reg.q, !.t = reg.t, !.direct = TRUE]
    OBVIOUS
  <2>5. n # turns
    BY <1>6, <1>14
  <2>6. Restore(r, e) = x
    BY <1>3, <1>4, <1>5, <1>7, <1>14, <2>1, <2>4, <2>5 DEF Restore
  <2>7. /\ x \in [s : [army : Seq(ArmySlots), count : [Kinds -> Int], popu : Nat], td : Int,
                  direct : BOOLEAN, t : DeadlineTimers, q : TimerQueues]
        /\ x.s = built /\ x.q = reg.q /\ x.t = reg.t /\ x.direct = TRUE
    BY <1>1, <1>9, <2>3, <2>4
  <2>8. x \in Restorations(d)
    BY <1>9, <2>2, <2>3, <2>7 DEF Restorations
  <2> QED
    BY <2>6, <2>8
<1>15. CASE e.num # 0 /\ ~r.direct /\ n # turns /\ ~(n < turns /\ n = byTime)
  <2>1. PICK p : p = [[r.q EXCEPT !.armys = Append(@, left)] EXCEPT !.block = TRUE]
    OBVIOUS
  <2>2. p \in TimerQueues /\ p.block = TRUE
    BY <1>p, <1>15, <2>1 DEF TimerQueues
  <2>3. PICK x : x = [r EXCEPT !.s = built, !.direct = TRUE, !.q = p]
    OBVIOUS
  <2>4. Restore(r, e) = [r EXCEPT !.s = built, !.direct = TRUE,
                                  !.q.armys = Append(@, left), !.q.block = TRUE]
    BY <1>3, <1>4, <1>5, <1>7, <1>15 DEF Restore
  <2>5. Restore(r, e) = x
    BY <1>1, <2>1, <2>3, <2>4 DEF TimerQueues
  <2>6. /\ x \in [s : [army : Seq(ArmySlots), count : [Kinds -> Int], popu : Nat], td : Int,
                  direct : BOOLEAN, t : DeadlineTimers, q : TimerQueues]
        /\ x.s = built /\ x.q = p /\ x.t = r.t /\ x.direct = TRUE
    BY <1>1, <1>9, <2>2, <2>3
  <2>7. QueueOK(p, r.t)
    BY <1>1, <2>2, QueueRests
  <2>8. x \in Restorations(d)
    BY <1>9, <2>2, <2>6, <2>7 DEF Restorations
  <2> QED
    BY <2>5, <2>8
<1>b. r.direct \in BOOLEAN
  BY <1>1
<1> QED
  BY <1>b, <1>11, <1>12, <1>13, <1>14, <1>15

\* So do all of them.
LEMMA RestoredAll ==
    ASSUME NEW d, NEW b \in Restorations(d), NEW q \in Seq(Entries)
    PROVE  FoldLeft(Restore, b, q) \in Restorations(d)
<1>1. PICK R, S : R = Restorations(d) /\ S = DOMAIN q
  OBVIOUS
<1>3. Ordered(S) /\ \A i \in S : q[i] \in Entries
  <2>1. Len(q) \in Nat /\ S = 1 .. Len(q)
    BY <1>1
  <2> QED
    BY <1>1, <2>1, OrderedParts
<1> DEFINE Is(h) == h = [T \in SUBSET S |-> IF T = {} THEN b ELSE Restore(h[T \ {Max(T)}], q[Max(T)])]
<1>4. FoldLeft(Restore, b, q) = (CHOOSE h : Is(h))[S]
  BY <1>1 DEF FoldLeft, MapThenFoldSet
<1>5. PICK G : G = [p \in R \X Entries |-> Restore(p[1], p[2])]
  OBVIOUS
<1>6. ASSUME NEW r \in R, NEW e \in Entries
      PROVE  G[<<r, e>>] = Restore(r, e) /\ Restore(r, e) \in R
  <2>1. G[<<r, e>>] = Restore(r, e)
    BY <1>5
  <2> QED
    BY <1>1, <2>1, RestoreOK
<1>7. PICK g : Folds(g, G, b, q, S) /\ \A T \in SUBSET S : g[T] \in R
  <2>1. b \in R /\ Keeps(G, q, S, R)
    BY <1>1, <1>3, <1>6 DEF Keeps
  <2> QED
    BY <1>3, <2>1, FoldIn
<1>m. ASSUME NEW T \in SUBSET S, T # {} PROVE Max(T) \in S /\ T \ {Max(T)} \in SUBSET S
  BY <1>3, <1>m DEF Ordered
<1>8. Is(g)
  <2>1. ASSUME NEW T \in SUBSET S
        PROVE  g[T] = IF T = {} THEN b ELSE Restore(g[T \ {Max(T)}], q[Max(T)])
    <3>1. CASE T = {}
      BY <1>7, <3>1 DEF Folds
    <3>2. CASE T # {}
      <4>1. PICK i, X : i = Max(T) /\ X = T \ {i}
        OBVIOUS
      <4>2. i \in S /\ X \in SUBSET S
        BY <1>m, <3>2, <4>1
      <4>3. g[T] = G[<<g[X], q[i]>>]
        BY <1>7, <3>2, <4>1 DEF Folds
      <4>4. g[X] \in R /\ q[i] \in Entries
        BY <1>3, <1>7, <4>2
      <4>5. g[T] = Restore(g[X], q[i])
        BY <1>6, <4>3, <4>4
      <4> QED
        BY <3>2, <4>1, <4>5
    <3> QED
      BY <3>1, <3>2
  <2>2. g = [T \in SUBSET S |-> g[T]]
    BY <1>7 DEF Folds
  <2> QED
    BY <2>1, <2>2
<1>9. PICK h : h = CHOOSE f : Is(f)
  OBVIOUS
<1>10. Is(h)
  BY <1>8, <1>9
<1>11. h[{}] \in R
  BY <1>1, <1>10
<1>12. ASSUME NEW T \in SUBSET S, T # {}, h[T \ {Max(T)}] \in R PROVE h[T] \in R
  <2>1. PICK i, X : i = Max(T) /\ X = T \ {i}
    OBVIOUS
  <2>2. h[T] = Restore(h[X], q[i])
    BY <1>10, <1>12, <2>1
  <2>3. q[i] \in Entries
    BY <1>3, <1>m, <1>12, <2>1
  <2> QED
    BY <1>6, <1>12, <2>1, <2>2, <2>3
<1>13. \A T \in SUBSET S : h[T] \in R
  BY <1>3, <1>11, <1>12, FoldStays
<1>14. h[S] \in R
  BY <1>13
<1> QED
  BY <1>1, <1>4, <1>9, <1>14

\* A camp's list in redis becomes a queue and its timer.
LEMMA FromRedis ==
    ASSUME NEW d, NEW s, ArmyOK(s, d), NEW l \in TimerQueues \cup {None}, NEW t \in DeadlineTimers
    PROVE  /\ ArmyOK(NewTimerQueueFromRedis(s, l, t).s, d)
           /\ NewTimerQueueFromRedis(s, l, t).q \in TimerQueues \cup {None}
           /\ NewTimerQueueFromRedis(s, l, t).t \in DeadlineTimers
           /\ NewTimerQueueFromRedis(s, l, t).q # None =>
                QueueOK(NewTimerQueueFromRedis(s, l, t).q, NewTimerQueueFromRedis(s, l, t).t)
<1>1. PICK x : x = NewTimerQueueFromRedis(s, l, t)
  OBVIOUS
<1>2. CASE l = None \/ l.armys = << >>
  <2>1. x = [s |-> s, q |-> None, t |-> t]
    BY <1>1, <1>2 DEF NewTimerQueueFromRedis
  <2>2. x.s = s /\ x.q = None /\ x.t = t
    BY <2>1
  <2> QED
    BY <1>1, <2>2
<1>3. CASE ~(l = None \/ l.armys = << >>)
  <2>1. l \in TimerQueues /\ l.age \in Int /\ l.block \in BOOLEAN /\ l.armys \in Seq(Entries)
    BY <1>3 DEF TimerQueues
  <2>2. PICK p : p = [NewTimerQueue EXCEPT !.block = l.block]
    OBVIOUS
  <2>3. p \in TimerQueues /\ p.armys = << >> /\ p.block = l.block
    <3>1. p = [armys |-> << >>, age |-> 0, block |-> l.block]
      BY <2>2 DEF NewTimerQueue
    <3>2. << >> \in Seq(Entries)
      OBVIOUS
    <3> QED
      BY <2>1, <3>1, <3>2 DEF TimerQueues
  <2>4. PICK b : b = [s |-> s, td |-> l.age, direct |-> l.block, t |-> t, q |-> p]
    OBVIOUS
  <2>5. b \in Restorations(d)
    <3>1. b \in [s : [army : Seq(ArmySlots), count : [Kinds -> Int], popu : Nat], td : Int,
                 direct : BOOLEAN, t : DeadlineTimers, q : TimerQueues]
          /\ b.s = s /\ b.q = p /\ b.t = t /\ b.direct = l.block
      BY <2>1, <2>3, <2>4 DEF ArmyOK
    <3>2. QueueOK(p, t)
      BY <2>3, QueueRests
    <3> QED
      BY <2>3, <3>1, <3>2 DEF Restorations
  <2>6. PICK r : r = FoldLeft(Restore, b, l.armys)
    OBVIOUS
  <2>7. r \in Restorations(d)
    <3>1. PICK a : a = l.armys
      OBVIOUS
    <3>2. a \in Seq(Entries)
      BY <2>1, <3>1
    <3>3. FoldLeft(Restore, b, a) \in Restorations(d)
      BY <2>5, <3>2, RestoredAll
    <3> QED
      BY <2>6, <3>1, <3>3
  <2>8. ArmyOK(r.s, d) /\ QueueOK(r.q, r.t) /\ r.q \in TimerQueues /\ r.t \in DeadlineTimers
    BY <2>7 DEF Restorations
  <2>9. PICK reg : reg = IF r.q.block THEN RegisterTime(r.q, r.t, 0, RetryTime) ELSE [q |-> r.q, t |-> r.t]
    OBVIOUS
  <2>10. x = [s |-> r.s, q |-> reg.q, t |-> reg.t]
    BY <1>1, <1>3, <2>2, <2>4, <2>6, <2>9 DEF NewTimerQueueFromRedis
  <2>11. reg.q \in TimerQueues /\ reg.t \in DeadlineTimers /\ QueueOK(reg.q, reg.t)
    <3>1. CASE r.q.block
      <4>1. PICK q0, t0 : q0 = r.q /\ t0 = r.t
        OBVIOUS
      <4>2. q0 \in TimerQueues /\ t0 \in DeadlineTimers /\ q0.block /\ RetryTime \in Nat /\ 0 \in Int
        BY <2>8, <3>1, <4>1, ArmyAssumption
      <4>3. PICK y : y = RegisterTime(q0, t0, 0, RetryTime)
        OBVIOUS
      <4>4. y.q \in TimerQueues /\ y.t \in DeadlineTimers /\ QueueOK(y.q, y.t)
        BY <4>2, <4>3, Registered
      <4> QED
        BY <2>9, <3>1, <4>1, <4>3, <4>4
    <3>2. CASE ~r.q.block
      <4>1. reg.q = r.q /\ reg.t = r.t
        BY <2>9, <3>2
      <4> QED
        BY <2>8, <4>1
    <3> QED
      BY <3>1, <3>2
  <2>12. x.s = r.s /\ x.q = reg.q /\ x.t = reg.t
    BY <2>10
  <2> QED
    BY <1>1, <2>8, <2>11, <2>12
<1> QED
  BY <1>2, <1>3

-----------------------------------------------------------------------------
(* The player's queues.                                                    *)

\* What the worker has of a player: his army and, per camp, queue and timer.
Loads(d) ==
    {a \in [s : [army : Seq(ArmySlots), count : [Kinds -> Int], popu : Nat],
            q : [Camps -> TimerQueues \cup {None}], t : [Camps -> DeadlineTimers]] :
        /\ ArmyOK(a.s, d)
        /\ \A c \in Camps : a.q[c] # None => QueueOK(a.q[c], a.t[c])}

\* A soldier who is dying, and how far the number of each kind is off.
Tally == [death |-> dying, over |-> [k \in Kinds |-> Surplus(k)]]

ArmyInv ==
    /\ queue \in [Camps -> TimerQueues \cup {None}] /\ timer \in [Camps -> DeadlineTimers]
    /\ stored \in [Camps -> TimerQueues \cup {None}]
    /\ \A c \in Camps : queue[c] # None => QueueOK(queue[c], timer[c])
    /\ ArmyOK(Army, Tally)

\* An expired wait is what a queue's timer leaves behind.
LEMMA StoppedOK == ASSUME NEW t \in DeadlineTimers PROVE Stopped(t) \in DeadlineTimers
<1>1. PICK n : n = t.ready
  OBVIOUS
<1>2. n \in Nat
  BY <1>1 DEF DeadlineTimers
<1>3. PICK x : x = [IdleTimer EXCEPT !.ready = n]
  OBVIOUS
<1>4. x = [armed |-> FALSE, exp |-> 0, ready |-> n]
  BY <1>2, <1>3 DEF IdleTimer
<1>5. [armed |-> FALSE, exp |-> 0, ready |-> n] \in DeadlineTimers
  BY <1>2 DEF DeadlineTimers
<1> QED
  BY <1>1, <1>3, <1>4, <1>5 DEF Stopped

\* It agrees with its timer, as the others do.
LEMMA LoadOK ==
    ASSUME NEW d, NEW a \in Loads(d), NEW c \in Camps, NEW l \in TimerQueues \cup {None}
    PROVE  Load(a, c, l) \in Loads(d)
<1>1. /\ a \in [s : [army : Seq(ArmySlots), count : [Kinds -> Int], popu : Nat],
                q : [Camps -> TimerQueues \cup {None}], t : [Camps -> DeadlineTimers]]
      /\ ArmyOK(a.s, d)
      /\ \A e \in Camps : a.q[e] # None => QueueOK(a.q[e], a.t[e])
  BY DEF Loads
<1>2. PICK s, t : s = a.s /\ t = Stopped(a.t[c])
  OBVIOUS
<1>3. ArmyOK(s, d) /\ t \in DeadlineTimers
  <2>1. PICK u : u = a.t[c]
    OBVIOUS
  <2>2. u \in DeadlineTimers
    BY <1>1, <2>1
  <2> QED
    BY <1>1, <1>2, <2>1, <2>2, StoppedOK
<1>4. PICK r : r = NewTimerQueueFromRedis(s, l, t)
  OBVIOUS
<1>5. /\ ArmyOK(r.s, d) /\ r.q \in TimerQueues \cup {None} /\ r.t \in DeadlineTimers
      /\ r.q # None => QueueOK(r.q, r.t)
  BY <1>3, <1>4, FromRedis
<1>6. PICK x : x = Load(a, c, l)
  OBVIOUS
<1>0. CASE r.q = None
  <2>1. Load(a, c, l) = a
    BY <1>0, <1>2, <1>4 DEF Load
  <2> QED
    BY <2>1
<1>7. PICK Q, T : Q = [a.q EXCEPT ![c] = r.q] /\ T = [a.t EXCEPT ![c] = r.t]
  OBVIOUS
<1>8. r.q # None => x = [s |-> r.s, q |-> Q, t |-> T]
  BY <1>2, <1>4, <1>6, <1>7 DEF Load
<1>9. /\ Q \in [Camps -> TimerQueues \cup {None}] /\ T \in [Camps -> DeadlineTimers]
      /\ \A e \in Camps : e # c => (Q[e] = a.q[e] /\ T[e] = a.t[e])
      /\ Q[c] = r.q /\ T[c] = r.t
  <2>1. a.q \in [Camps -> TimerQueues \cup {None}] /\ a.t \in [Camps -> DeadlineTimers]
    BY <1>1
  <2>2. /\ Q \in [Camps -> TimerQueues \cup {None}]
        /\ \A e \in Camps : Q[e] = IF e = c THEN r.q ELSE a.q[e]
    BY <1>5, <1>7, <2>1
  <2>3. /\ T \in [Camps -> DeadlineTimers]
        /\ \A e \in Camps : T[e] = IF e = c THEN r.t ELSE a.t[e]
    BY <1>5, <1>7, <2>1
  <2> QED
    BY <2>2, <2>3
<1>10. ASSUME NEW e \in Camps, Q[e] # None PROVE QueueOK(Q[e], T[e])
  <2>1. CASE e = c
    BY <1>5, <1>9, <1>10, <2>1
  <2>2. CASE e # c
    <3>1. Q[e] = a.q[e] /\ T[e] = a.t[e]
      BY <1>9, <2>2
    <3>2. QueueOK(a.q[e], a.t[e])
      BY <1>1, <1>10, <3>1
    <3> QED
      BY <3>1, <3>2
  <2> QED
    BY <2>1, <2>2
<1>11. r.s \in [army : Seq(ArmySlots), count : [Kinds -> Int], popu : Nat]
  BY <1>5 DEF ArmyOK
<1>12. CASE r.q # None
  <2>1. x = [s |-> r.s, q |-> Q, t |-> T]
    BY <1>8, <1>12
  <2>2. x \in Loads(d)
    BY <1>5, <1>9, <1>10, <1>11, <2>1 DEF Loads
  <2> QED
    BY <1>6, <2>2
<1> QED
  BY <1>0, <1>12

\* One list that the constructor reads: the player's own, or another's for the same camp.
LoadKey(others, a, key) ==
    Load(a, key[1], IF key[2] = "own" THEN stored[key[1]] ELSE others[key[1]])

\* All lists, one after the other.
LEMMA LoadedAll ==
    ASSUME NEW d, stored \in [Camps -> TimerQueues \cup {None}],
           NEW others, others \in [Camps -> Foreign \cup {None}],
           NEW b \in Loads(d), b = [s |-> Army, q |-> NoQueues, t |-> timer], NEW q \in Seq(Keys)
    PROVE  Construct(q, others) \in Loads(d)
<1>1. PICK R, S : R = Loads(d) /\ S = DOMAIN q
  OBVIOUS
<1>2. ASSUME NEW r \in R, NEW e \in Keys PROVE LoadKey(others, r, e) \in R
  <2>1. PICK c, l : c = e[1] /\ l = IF e[2] = "own" THEN stored[c] ELSE others[c]
    OBVIOUS
  <2>2. c \in Camps
    BY <2>1 DEF Keys
  <2>3. others[c] \in TimerQueues \cup {None} /\ stored[c] \in TimerQueues \cup {None}
    BY <2>2, ArmyAssumption DEF TimerQueues, Entries
  <2>4. l \in TimerQueues \cup {None}
    BY <2>1, <2>3
  <2>5. LoadKey(others, r, e) = Load(r, c, l)
    BY <2>1 DEF LoadKey
  <2> QED
    BY <1>1, <2>2, <2>4, <2>5, LoadOK
<1>3. Ordered(S) /\ \A i \in S : q[i] \in Keys
  <2>1. Len(q) \in Nat /\ S = 1 .. Len(q)
    BY <1>1
  <2> QED
    BY <1>1, <2>1, OrderedParts
<1> DEFINE Is(h) == h = [T \in SUBSET S |-> IF T = {} THEN b ELSE LoadKey(others, h[T \ {Max(T)}], q[Max(T)])]
<1>4. Construct(q, others) = (CHOOSE h : Is(h))[S]
  BY <1>1 DEF Construct, LoadKey, FoldLeft, MapThenFoldSet
<1>5. PICK G : G = [p \in R \X Keys |-> LoadKey(others, p[1], p[2])]
  OBVIOUS
<1>6. ASSUME NEW r \in R, NEW e \in Keys
      PROVE  G[<<r, e>>] = LoadKey(others, r, e) /\ LoadKey(others, r, e) \in R
  <2>1. G[<<r, e>>] = LoadKey(others, r, e)
    BY <1>5
  <2> QED
    BY <1>2, <2>1
<1>7. PICK g : Folds(g, G, b, q, S) /\ \A T \in SUBSET S : g[T] \in R
  <2>1. b \in R /\ Ordered(S)
    BY <1>1, <1>3
  <2>2. Keeps(G, q, S, R)
    BY <1>3, <1>6 DEF Keeps
  <2>3. \E g : Folds(g, G, b, q, S) /\ \A T \in SUBSET S : g[T] \in R
    BY <2>1, <2>2, FoldIn
  <2> QED
    BY <2>3
<1>m. ASSUME NEW T \in SUBSET S, T # {} PROVE Max(T) \in S /\ T \ {Max(T)} \in SUBSET S
  BY <1>3, <1>m DEF Ordered
<1>8. Is(g)
  <2>1. ASSUME NEW T \in SUBSET S
        PROVE  g[T] = IF T = {} THEN b ELSE LoadKey(others, g[T \ {Max(T)}], q[Max(T)])
    <3>1. CASE T = {}
      BY <1>7, <3>1 DEF Folds
    <3>2. CASE T # {}
      <4>1. PICK i, X : i = Max(T) /\ X = T \ {i}
        OBVIOUS
      <4>2. i \in S /\ X \in SUBSET S
        BY <1>m, <3>2, <4>1
      <4>3. g[T] = G[<<g[X], q[i]>>]
        BY <1>7, <3>2, <4>1 DEF Folds
      <4>4. g[X] \in R /\ q[i] \in Keys
        BY <1>3, <1>7, <4>2
      <4>5. g[T] = LoadKey(others, g[X], q[i])
        BY <1>6, <4>3, <4>4
      <4> QED
        BY <3>2, <4>1, <4>5
    <3> QED
      BY <3>1, <3>2
  <2>2. g = [T \in SUBSET S |-> g[T]]
    BY <1>7 DEF Folds
  <2> QED
    BY <2>1, <2>2
<1>9. PICK h : h = CHOOSE f : Is(f)
  OBVIOUS
<1>10. Is(h)
  BY <1>8, <1>9
<1>11. h[{}] \in R
  BY <1>1, <1>10
<1>12. ASSUME NEW T \in SUBSET S, T # {}, h[T \ {Max(T)}] \in R PROVE h[T] \in R
  <2>1. PICK i, X : i = Max(T) /\ X = T \ {i}
    OBVIOUS
  <2>2. h[T] = LoadKey(others, h[X], q[i])
    BY <1>10, <1>12, <2>1
  <2>3. q[i] \in Keys
    BY <1>3, <1>m, <1>12, <2>1
  <2> QED
    BY <1>6, <1>12, <2>1, <2>2, <2>3
<1>13. \A T \in SUBSET S : h[T] \in R
  BY <1>3, <1>11, <1>12, FoldStays
<1>14. h[S] \in R
  BY <1>13
<1> QED
  BY <1>1, <1>4, <1>9, <1>14

\* findUid returns queues that agree with their timers, and an army that agrees.
LEMMA Found ==
    ASSUME ArmyInv, NEW a \in FindUid
    PROVE  a \in Loads(Tally)
<1>1. Army \in [army : Seq(ArmySlots), count : [Kinds -> Int], popu : Nat] /\ ArmyOK(Army, Tally)
  BY DEF ArmyInv, ArmyOK
<1>2. CASE online
  <2>1. a = [s |-> Army, q |-> queue, t |-> timer]
    BY <1>2 DEF FindUid
  <2> QED
    BY <1>1, <2>1 DEF Loads, ArmyInv
<1>3. CASE ~online
  <2>1. PICK order \in KeyOrders, others \in [Camps -> Foreign \cup {None}] :
             a = Construct(order, others)
    BY <1>3 DEF FindUid
  <2>2. order \in Seq(Keys)
    <3>1. IsFiniteSet({"own", "other"})
      <4>1. IsFiniteSet({"own"}) /\ {"own", "other"} = {"own"} \cup {"other"}
        BY FS_Singleton
      <4> QED
        BY <4>1, FS_AddElement
    <3>2. IsFiniteSet(Keys)
      BY <3>1, ArmyAssumption, FS_Product DEF Keys
    <3>3. Cardinality(Keys) \in Nat
      BY <3>2, FS_CardinalityType
    <3>4. order \in [1 .. Cardinality(Keys) -> Keys]
      BY <2>1 DEF KeyOrders, SetToSeqs
    <3> QED
      BY <3>3, <3>4
  <2>3. PICK b : b = [s |-> Army, q |-> NoQueues, t |-> timer]
    OBVIOUS
  <2>4. b \in Loads(Tally)
    BY <1>1, <2>3 DEF Loads, ArmyInv, NoQueues
  <2>5. stored \in [Camps -> TimerQueues \cup {None}]
    BY DEF ArmyInv
  <2>6. PICK d : d = Tally
    OBVIOUS
  <2>7. Construct(order, others) \in Loads(d)
    BY <2>2, <2>3, <2>4, <2>5, <2>6, LoadedAll
  <2> QED
    BY <2>1, <2>6, <2>7
<1> QED
  BY <1>2, <1>3

\* SavedAtOnce and CountAgrees in one step.
SavedStep ==
    \A c \in Camps :
       /\ online /\ online' /\ Orders(queue'[c]) # Orders(queue[c]) => Kept(c)
       /\ ~online' /\ stored[c] # None =>
             Intact(c) \/ (stored'[c] = None /\ \A d \in Camps \ {c} :
                               stored[d] # None => Intact(d))
CountStep == \A k \in Kinds : Surplus(k)' = Surplus(k) + (IF Erased(k) THEN 1 ELSE 0)
StepOK == SavedStep /\ CountStep

\* A queue is not None.
LEMMA IsQueue == ASSUME NEW q \in TimerQueues PROVE q # None
  BY ArmyAssumption DEF TimerQueues, Entries

\* The numbers are off by what they are, and by no more.
LEMMA Counted ==
    ASSUME NEW s, NEW d, ArmyOK(s, d), s = Army, d.death = dying
    PROVE  ArmyOK(Army, Tally) /\ \A k \in Kinds : Surplus(k) = d.over[k]
<1>1. /\ s \in [army : Seq(ArmySlots), count : [Kinds -> Int], popu : Nat]
      /\ s.army = army /\ s.count = count
  BY DEF ArmyOK, Army
<1>2. ASSUME NEW k \in Kinds
      PROVE  /\ Surplus(k) = d.over[k] /\ Surplus(k) \in Int
             /\ s.count[k] = SlotNum(s.army, k) + Dead(dying, k) + Surplus(k)
  <2>1. s.count[k] = SlotNum(s.army, k) + Dead(dying, k) + d.over[k]
    BY DEF ArmyOK
  <2>2. SlotNum(s.army, k) \in Int /\ Dead(dying, k) \in Int /\ d.over[k] \in Int
    BY <1>1, SlotNumber DEF ArmyOK, Dead
  <2>3. Surplus(k) = s.count[k] - SlotNum(s.army, k) - Dead(dying, k)
    BY <1>1 DEF Surplus, SlotsOf, SlotNum, Dead
  <2>4. s.count[k] \in Int
    BY <1>1
  <2> QED
    BY <2>1, <2>2, <2>3, <2>4
<1>3. PICK t : t = Tally
  OBVIOUS
<1>4. t.death = dying /\ t.over = [k \in Kinds |-> Surplus(k)]
  BY <1>3 DEF Tally
<1>5. t.over \in [Kinds -> Int] /\ \A k \in Kinds : t.over[k] = Surplus(k)
  BY <1>2, <1>4
<1>6. ArmyOK(s, t)
  BY <1>1, <1>2, <1>4, <1>5 DEF ArmyOK
<1> QED
  BY <1>2, <1>3, <1>6

\* The same in the next state.
LEMMA CountedNext ==
    ASSUME NEW s, NEW d, ArmyOK(s, d), s = Army', d.death = dying'
    PROVE  ArmyOK(Army', Tally') /\ \A k \in Kinds : Surplus(k)' = d.over[k]
<1>1. /\ s \in [army : Seq(ArmySlots), count : [Kinds -> Int], popu : Nat]
      /\ s.army = army' /\ s.count = count'
  BY DEF ArmyOK, Army
<1>2. ASSUME NEW k \in Kinds
      PROVE  /\ Surplus(k)' = d.over[k] /\ Surplus(k)' \in Int
             /\ s.count[k] = SlotNum(s.army, k) + Dead(dying', k) + Surplus(k)'
  <2>1. s.count[k] = SlotNum(s.army, k) + Dead(dying', k) + d.over[k]
    BY DEF ArmyOK
  <2>2. SlotNum(s.army, k) \in Int /\ Dead(dying', k) \in Int /\ d.over[k] \in Int
    BY <1>1, SlotNumber DEF ArmyOK, Dead
  <2>3. Surplus(k)' = s.count[k] - SlotNum(s.army, k) - Dead(dying', k)
    BY <1>1 DEF Surplus, SlotsOf, SlotNum, Dead
  <2>4. s.count[k] \in Int
    BY <1>1
  <2> QED
    BY <2>1, <2>2, <2>3, <2>4
<1>3. PICK t : t = Tally'
  OBVIOUS
<1>4. t.death = dying' /\ t.over = [k \in Kinds |-> Surplus(k)']
  BY <1>3 DEF Tally
<1>5. t.over \in [Kinds -> Int] /\ \A k \in Kinds : t.over[k] = Surplus(k)'
  BY <1>2, <1>4
<1>6. ArmyOK(s, t)
  BY <1>1, <1>2, <1>4, <1>5 DEF ArmyOK
<1> QED
  BY <1>2, <1>3, <1>6

\* What the tally says of a kind.
LEMMA TallyIs ==
    ASSUME NEW k \in Kinds
    PROVE  Tally.death = dying /\ Tally.over[k] = Surplus(k)
  BY DEF Tally

\* A surplus is a number.
LEMMA SurplusNumber ==
    ASSUME ArmyInv, NEW k \in Kinds
    PROVE  Surplus(k) \in Int
<1>1. Tally.over \in [Kinds -> Int]
  BY DEF ArmyInv, ArmyOK
<1> QED
  BY <1>1, TallyIs

\* Only the freeing of a slot erases a soldier.
LEMMA NotErased ==
    ASSUME ArmyInv, dying' = dying \/ dying' = None \/ dying = None
    PROVE  \A k \in Kinds : ~Erased(k)
<1> SUFFICES ASSUME FreeSlot PROVE FALSE
  BY DEF Erased
<1>1. PICK d, e : d = dying /\ e = dying'
  OBVIOUS
<1>2. Tally.death = d
  BY <1>1 DEF Tally
<1>3. d # None /\ ~d.freed /\ e = [d EXCEPT !.freed = TRUE] /\ d \in Deaths
  BY <1>1, <1>2 DEF FreeSlot, ArmyInv, ArmyOK
<1>4. e.freed /\ e \in Deaths
  BY <1>3 DEF Deaths
<1>5. e # None
  BY <1>4, ArmyAssumption DEF Deaths, ArmySlots
<1> QED
  BY <1>1, <1>3, <1>4, <1>5

\* An army is set, and the numbers are as far off as before.
LEMMA ArmySet ==
    ASSUME ArmyInv, NEW s, ArmyOK(s, Tally), SetArmy(s), dying' = dying
    PROVE  ArmyOK(Army', Tally') /\ CountStep
<1>1. s \in [army : Seq(ArmySlots), count : [Kinds -> Int], popu : Nat]
  BY DEF ArmyOK
<1>2. Army' = [army |-> s.army, count |-> s.count, popu |-> s.popu]
  BY DEF Army, SetArmy
<1>3. Army' = s
  BY <1>1, <1>2
<1>4. PICK d : d = Tally
  OBVIOUS
<1>5. ArmyOK(s, d) /\ d.death = dying'
  BY <1>4 DEF Tally
<1>6. ArmyOK(Army', Tally') /\ \A k \in Kinds : Surplus(k)' = d.over[k]
  BY <1>3, <1>5, CountedNext
<1>7. ASSUME NEW k \in Kinds PROVE Surplus(k)' = Surplus(k) + (IF Erased(k) THEN 1 ELSE 0)
  <2>1. Surplus(k)' = Surplus(k)
    BY <1>4, <1>6, TallyIs
  <2> QED
    BY <2>1, NotErased, SurplusNumber
<1> QED
  BY <1>6, <1>7 DEF CountStep

\* The army does not change.
LEMMA SameArmy ==
    ASSUME ArmyInv, UNCHANGED << army, count, curPopu, dying >>
    PROVE  ArmyOK(Army', Tally') /\ CountStep
<1>1. PICK s : s = Army
  OBVIOUS
<1>2. ArmyOK(s, Tally) /\ SetArmy(s)
  BY <1>1 DEF ArmyInv, SetArmy, Army
<1> QED
  BY <1>2, ArmySet

\* What the worker has of a player who is in its table.
LEMMA InTable ==
    ASSUME ArmyInv
    PROVE  [s |-> Army, q |-> queue, t |-> timer] \in Loads(Tally)
<1>1. Army \in [army : Seq(ArmySlots), count : [Kinds -> Int], popu : Nat] /\ ArmyOK(Army, Tally)
  BY DEF ArmyInv, ArmyOK
<1> QED
  BY <1>1 DEF Loads, ArmyInv

\* The player's queues as they are in the table.
LEMMA FoundOnline ==
    ASSUME NEW a \in FindUid
    PROVE  online => a.q = queue
  BY DEF FindUid

\* An empty queue and none hold the same orders.
LEMMA OrdersOf == ASSUME NEW q \in TimerQueues PROVE q # None /\ Orders(q) = q.armys
  BY IsQueue DEF Orders

\* What redis has is not touched, and no order changes while the player is there.
LEMMA NothingWritten ==
    ASSUME stored' = stored,
           \A c \in Camps : online /\ online' => Orders(queue'[c]) = Orders(queue[c])
    PROVE  SavedStep
  BY DEF SavedStep, Intact

\* The player's queues are found, and no more happens.
LEMMA NoCamp ==
    ASSUME ArmyInv, NEW a \in Loads(Tally), online => a.q = queue,
           queue' = a.q, timer' = a.t, SetArmy(a.s), stored' = stored, dying' = dying
    PROVE  ArmyInv' /\ StepOK
<1>1. /\ a.q \in [Camps -> TimerQueues \cup {None}] /\ a.t \in [Camps -> DeadlineTimers]
      /\ ArmyOK(a.s, Tally)
      /\ \A e \in Camps : a.q[e] # None => QueueOK(a.q[e], a.t[e])
  BY DEF Loads
<1>2. ArmyOK(Army', Tally') /\ CountStep
  <2>1. PICK s : s = a.s
    OBVIOUS
  <2>2. ArmyOK(s, Tally) /\ SetArmy(s)
    BY <1>1, <2>1
  <2> QED
    BY <2>2, ArmySet
<1>3. ArmyInv'
  BY <1>1, <1>2 DEF ArmyInv
<1>4. SavedStep
  BY NothingWritten
<1> QED
  BY <1>2, <1>3, <1>4 DEF StepOK

\* The queues are gone with the worker, and what redis has of one camp may be.
LEMMA WorkerGone ==
    ASSUME ArmyInv, NEW s, ArmyOK(s, Tally), SetArmy(s), dying' = dying,
           ~online', queue' = NoQueues, timer' \in [Camps -> DeadlineTimers],
           stored' \in [Camps -> TimerQueues \cup {None}],
           \A c \in Camps : stored[c] # None =>
               Intact(c) \/ (stored'[c] = None /\ \A d \in Camps \ {c} : stored[d] # None => Intact(d))
    PROVE  ArmyInv' /\ StepOK
<1>1. ArmyOK(Army', Tally') /\ CountStep
  BY ArmySet
<1>2. queue' \in [Camps -> TimerQueues \cup {None}] /\ \A c \in Camps : queue'[c] = None
  BY DEF NoQueues
<1>3. ArmyInv'
  BY <1>1, <1>2 DEF ArmyInv
<1>4. SavedStep
  BY DEF SavedStep
<1> QED
  BY <1>1, <1>3, <1>4 DEF StepOK

\* There is nothing in the timers of a worker that has just started.
LEMMA TimersIdle == NoTimers \in [Camps -> DeadlineTimers]
  BY DEF NoTimers, IdleTimer, DeadlineTimers

\* A handler that gets as far as end has changed one camp's queue to q, and writes w.
LEMMA OneCampCut ==
    ASSUME ArmyInv, NEW c \in Camps, NEW q, NEW t, NEW w, NEW end \in Ends, end # "done",
           NEW s, ArmyOK(s, Tally), SetArmy(s), dying' = dying,
           Leaves(end, q, t), Written(c, w, end)
    PROVE  ArmyInv' /\ StepOK
<1>1. ~online' /\ queue' = NoQueues /\ timer' = NoTimers
  BY DEF Leaves
<1>2. timer' \in [Camps -> DeadlineTimers]
  BY <1>1, TimersIdle
<1>3. CASE stored' = stored
  <2>1. \A e \in Camps : stored[e] # None => Intact(e)
    BY <1>3 DEF Intact
  <2>2. stored' \in [Camps -> TimerQueues \cup {None}]
    BY <1>3 DEF ArmyInv
  <2> QED
    BY <1>1, <1>2, <2>1, <2>2, WorkerGone
<1>4. CASE stored' = [stored EXCEPT ![c] = None]
  <2>1. stored \in [Camps -> TimerQueues \cup {None}]
    BY DEF ArmyInv
  <2>2. /\ stored' \in [Camps -> TimerQueues \cup {None}]
        /\ \A e \in Camps : stored'[e] = IF e = c THEN None ELSE stored[e]
    BY <1>4, <2>1
  <2>3. \A e \in Camps \ {c} : stored[e] # None => Intact(e)
    BY <2>2 DEF Intact
  <2>4. \A e \in Camps : stored[e] # None =>
            Intact(e) \/ (stored'[e] = None /\ \A d \in Camps \ {e} : stored[d] # None => Intact(d))
    BY <2>2, <2>3
  <2> QED
    BY <1>1, <1>2, <2>2, <2>4, WorkerGone
<1>5. end = "unsaved" \/ end = "deleted"
  BY DEF Ends
<1> QED
  BY <1>3, <1>4, <1>5 DEF Written

\* One camp's queue is changed, and saved as w when its entries are others.
LEMMA OneCampDone ==
    ASSUME ArmyInv, NEW a \in Loads(Tally), online => a.q = queue,
           NEW c \in Camps, NEW q, NEW t, QueueOK(q, t), NEW s, ArmyOK(s, Tally),
           queue' = [a.q EXCEPT ![c] = q], timer' = [a.t EXCEPT ![c] = t], SetArmy(s), dying' = dying,
           NEW w \in TimerQueues, w.armys = q.armys,
           \/ online' /\ stored' = [stored EXCEPT ![c] = w]
           \/ stored' = stored /\ q.armys = Orders(a.q[c])
    PROVE  ArmyInv' /\ StepOK
<1>1. /\ a.q \in [Camps -> TimerQueues \cup {None}] /\ a.t \in [Camps -> DeadlineTimers]
      /\ \A e \in Camps : a.q[e] # None => QueueOK(a.q[e], a.t[e])
  BY DEF Loads
<1>2. q \in TimerQueues /\ t \in DeadlineTimers
  BY DEF QueueOK
<1>3. /\ queue' \in [Camps -> TimerQueues \cup {None}]
      /\ \A e \in Camps : queue'[e] = IF e = c THEN q ELSE a.q[e]
  BY <1>1, <1>2
<1>4. /\ timer' \in [Camps -> DeadlineTimers]
      /\ \A e \in Camps : timer'[e] = IF e = c THEN t ELSE a.t[e]
  BY <1>1, <1>2
<1>5. stored' \in [Camps -> TimerQueues \cup {None}]
  BY DEF ArmyInv
<1>6. ASSUME NEW e \in Camps, queue'[e] # None PROVE QueueOK(queue'[e], timer'[e])
  <2>1. CASE e = c
    <3>1. queue'[e] = q /\ timer'[e] = t
      BY <1>3, <1>4, <2>1
    <3> QED
      BY <3>1
  <2>2. CASE e # c
    <3>1. queue'[e] = a.q[e] /\ timer'[e] = a.t[e]
      BY <1>3, <1>4, <2>2
    <3>2. QueueOK(a.q[e], a.t[e])
      BY <1>1, <1>6, <3>1
    <3> QED
      BY <3>1, <3>2
  <2> QED
    BY <2>1, <2>2
<1>7. ArmyOK(Army', Tally') /\ CountStep
  BY ArmySet
<1>8. ArmyInv'
  BY <1>3, <1>4, <1>5, <1>6, <1>7 DEF ArmyInv
<1>9. Orders(q) = q.armys /\ Orders(w) = q.armys /\ w # None
  BY <1>2, OrdersOf
<1>10. CASE stored' = stored /\ q.armys = Orders(a.q[c])
  <2>1. ASSUME NEW e \in Camps, online PROVE Orders(queue'[e]) = Orders(queue[e])
    <3>1. a.q[e] = queue[e]
      BY <2>1
    <3>2. CASE e = c
      BY <1>3, <1>9, <1>10, <3>1, <3>2
    <3>3. CASE e # c
      BY <1>3, <3>1, <3>3
    <3> QED
      BY <3>2, <3>3
  <2>2. SavedStep
    BY <1>10, <2>1, NothingWritten
  <2> QED
    BY <1>7, <1>8, <2>2 DEF StepOK
<1>11. CASE online' /\ stored' = [stored EXCEPT ![c] = w]
  <2>1. ASSUME NEW e \in Camps, online, Orders(queue'[e]) # Orders(queue[e]) PROVE Kept(e)
    <3>1. a.q[e] = queue[e]
      BY <2>1
    <3>2. e = c
      BY <1>3, <2>1, <3>1
    <3>3. queue'[e] = q /\ stored'[e] = w
      BY <1>3, <1>11, <3>2 DEF ArmyInv
    <3> QED
      BY <1>9, <3>3 DEF Kept
  <2>2. SavedStep
    BY <1>11, <2>1 DEF SavedStep
  <2> QED
    BY <1>7, <1>8, <2>2 DEF StepOK
<1> QED
  BY <1>10, <1>11

\* A handler changes one camp's queue, and writes it as w.
LEMMA OneCamp ==
    ASSUME ArmyInv, NEW a \in Loads(Tally), online => a.q = queue,
           NEW c \in Camps, NEW q, NEW t, QueueOK(q, t), NEW s, ArmyOK(s, Tally),
           NEW end \in Ends, Leaves(end, [a.q EXCEPT ![c] = q], [a.t EXCEPT ![c] = t]),
           SetArmy(s), dying' = dying,
           NEW w \in TimerQueues, w.armys = q.armys,
           \/ Written(c, w, end)
           \/ end = "done" /\ stored' = stored /\ q.armys = Orders(a.q[c])
    PROVE  ArmyInv' /\ StepOK
<1>1. CASE end = "done"
  <2>1. online' /\ queue' = [a.q EXCEPT ![c] = q] /\ timer' = [a.t EXCEPT ![c] = t]
    BY <1>1 DEF Leaves
  <2>2. CASE Written(c, w, end)
    <3>1. stored' = [stored EXCEPT ![c] = w]
      BY <1>1, <2>2 DEF Written, Saved
    <3> QED
      BY <2>1, <3>1, OneCampDone
  <2>3. CASE stored' = stored /\ q.armys = Orders(a.q[c])
    BY <2>1, <2>3, OneCampDone
  <2> QED
    BY <2>2, <2>3
<1>2. CASE end # "done"
  <2>1. Written(c, w, end)
    BY <1>2
  <2> QED
    BY <1>2, <2>1, OneCampCut
<1> QED
  BY <1>1, <1>2

\* What the worker has of one camp.
LEMMA CampLoaded ==
    ASSUME NEW d, NEW a \in Loads(d), NEW c \in Camps
    PROVE  /\ ArmyOK(a.s, d) /\ a.t[c] \in DeadlineTimers
           /\ a.q[c] # None => a.q[c] \in TimerQueues /\ QueueOK(a.q[c], a.t[c])
  BY DEF Loads

\* A queue that is new.
LEMMA NewQueue ==
    NewTimerQueue \in TimerQueues /\ NewTimerQueue.armys = << >>
<1>1. << >> \in Seq(Entries)
  OBVIOUS
<1> QED
  BY <1>1 DEF NewTimerQueue, TimerQueues

\* It holds at the start.
LEMMA ArmyStart == Init => ArmyInv
<1> SUFFICES ASSUME Init PROVE ArmyInv
  OBVIOUS
<1>1. IdleTimer \in DeadlineTimers
  BY DEF IdleTimer, DeadlineTimers
<1>2. Army \in [army : Seq(ArmySlots), count : [Kinds -> Int], popu : Nat]
      /\ Army.army = << >> /\ Army.count = [k \in Kinds |-> 0]
  <2>1. << >> \in Seq(ArmySlots)
    OBVIOUS
  <2> QED
    BY <2>1 DEF Init, Army
<1>3. ASSUME NEW k \in Kinds PROVE SlotNum(<< >>, k) = 0 /\ Dead(None, k) = 0
  <2>1. PICK Z : Z = {i \in 1 .. Len(<< >>) : << >>[i] = k}
    OBVIOUS
  <2>2. Z = {}
    <3>1. Len(<< >>) = 0
      OBVIOUS
    <3> QED
      BY <2>1, <3>1
  <2>3. Cardinality(Z) = 0
    BY <2>2, FS_EmptySet
  <2> QED
    BY <2>1, <2>3 DEF SlotNum, Dead
<1>4. PICK s, d : s = Army /\ d = [death |-> dying, over |-> [k \in Kinds |-> 0]]
  OBVIOUS
<1>5. d.death = None /\ d.over \in [Kinds -> Int] /\ \A k \in Kinds : d.over[k] = 0
  BY <1>4 DEF Init
<1>6. ArmyOK(s, d)
  BY <1>2, <1>3, <1>4, <1>5 DEF ArmyOK
<1>7. ArmyOK(Army, Tally)
  <2>1. d.death = dying
    BY <1>4
  <2> QED
    BY <1>4, <1>6, <2>1, Counted
<1> QED
  BY <1>1, <1>7 DEF ArmyInv, Init, NoQueues, NoTimers

\* uidOnline.
LEMMA ArmyLoginKeeps == ASSUME ArmyInv, Login PROVE ArmyInv' /\ StepOK
<1>1. PICK a \in FindUid : queue' = a.q /\ timer' = a.t /\ SetArmy(a.s)
  BY DEF Login
<1>2. a \in Loads(Tally) /\ (online => a.q = queue)
  BY Found, FoundOnline
<1>3. stored' = stored /\ dying' = dying
  BY DEF Login
<1> QED
  BY <1>1, <1>2, <1>3, NoCamp

\* uidOffline.
LEMMA ArmyLogoutKeeps == ASSUME ArmyInv, Logout PROVE ArmyInv' /\ StepOK
<1>1. ~online' /\ queue' = NoQueues /\ UNCHANGED << army, count, curPopu, dying >>
  BY DEF Logout, soldiers
<1>2. PICK saved, cut : WrittenUpTo(saved, cut) /\ saved \subseteq Live
  BY DEF Logout
<1>3. ASSUME NEW c \in Camps
      PROVE  \/ c \in saved /\ stored'[c] = queue[c]
             \/ c = cut /\ stored'[c] = None
             \/ c \notin saved /\ c # cut /\ stored'[c] = stored[c]
  <2>1. stored'[c] = CASE c \in saved -> queue[c] [] c = cut -> None [] OTHER -> stored[c]
    BY <1>2 DEF WrittenUpTo, Saved
  <2> QED
    BY <2>1
<1>4. stored' \in [Camps -> TimerQueues \cup {None}]
  <2>1. stored' = [c \in Camps |-> stored'[c]]
    BY <1>2 DEF WrittenUpTo
  <2>2. \A c \in Camps : stored'[c] \in TimerQueues \cup {None}
    BY <1>3 DEF ArmyInv
  <2> QED
    BY <2>1, <2>2
<1>5. ASSUME NEW c \in Camps, stored[c] # None, c # cut PROVE Intact(c)
  <2>1. c \in saved => queue[c] # None
    BY <1>2 DEF Live
  <2> QED
    BY <1>3, <1>5, <2>1 DEF Intact
<1>6. ASSUME NEW c \in Camps, stored[c] # None
      PROVE  Intact(c) \/ (stored'[c] = None /\ \A d \in Camps \ {c} : stored[d] # None => Intact(d))
  <2>1. CASE c # cut
    BY <1>5, <1>6, <2>1
  <2>2. CASE c = cut /\ c \in saved
    <3>1. queue[c] # None
      BY <1>2, <2>2 DEF Live
    <3>2. CASE stored'[c] = queue[c]
      BY <3>1, <3>2 DEF Intact
    <3>3. CASE stored'[c] = None
      <4>1. \A d \in Camps \ {c} : stored[d] # None => Intact(d)
        BY <1>5, <2>2
      <4> QED
        BY <3>3, <4>1
    <3> QED
      BY <1>3, <2>2, <3>2, <3>3
  <2>3. CASE c = cut /\ c \notin saved
    <3>1. stored'[c] = None
      BY <1>3, <2>3
    <3>2. \A d \in Camps \ {c} : stored[d] # None => Intact(d)
      BY <1>5, <2>3
    <3> QED
      BY <3>1, <3>2
  <2> QED
    BY <2>1, <2>2, <2>3
<1>7. timer' \in [Camps -> DeadlineTimers]
  <2>1. CASE timer' = NoTimers
    BY <2>1, TimersIdle
  <2>2. CASE timer' = [c \in Camps |-> IF c \in Live THEN Stopped(timer[c]) ELSE timer[c]]
    <3>1. \A c \in Camps : timer[c] \in DeadlineTimers
      BY DEF ArmyInv
    <3>2. \A c \in Camps : Stopped(timer[c]) \in DeadlineTimers
      BY <3>1, StoppedOK
    <3> QED
      BY <2>2, <3>1, <3>2
  <2> QED
    BY <2>1, <2>2 DEF Logout
<1>8. PICK s : s = Army
  OBVIOUS
<1>9. ArmyOK(s, Tally) /\ SetArmy(s) /\ dying' = dying
  BY <1>1, <1>8 DEF ArmyInv, SetArmy, Army
<1> QED
  BY <1>1, <1>4, <1>6, <1>7, <1>9, WorkerGone

\* The first of the indices S.
LEMMA FirstOf ==
    ASSUME NEW S \in SUBSET Nat, S # {}
    PROVE  (CHOOSE j \in S : \A h \in S : j <= h) \in S
  BY LeastOf DEF Smallest

\* Another number in one entry, whose kind stays, or no change but there.
LEMMA NumChanged ==
    ASSUME NEW q, NEW t, QueueOK(q, t), NEW i \in 1 .. Len(q.armys), NEW m \in Int
    PROVE  /\ QueueOK([q EXCEPT !.armys[i].num = m], t)
           /\ [q EXCEPT !.armys[i].num = m].armys # << >>
           /\ [q EXCEPT !.armys[i].num = m].block = q.block
<1>1. q \in TimerQueues /\ t \in DeadlineTimers
  BY DEF QueueOK
<1>2. PICK a, b, p : a = q.armys /\ b = [a EXCEPT ![i].num = m] /\ p = [q EXCEPT !.armys[i].num = m]
  OBVIOUS
<1>3. a \in Seq(Entries) /\ i \in 1 .. Len(a)
  BY <1>1, <1>2 DEF TimerQueues
<1>4. PICK e : e = [a[i] EXCEPT !.num = m]
  OBVIOUS
<1>5. a[i] \in Entries
  BY <1>3
<1>6. e \in Entries /\ e.kind = a[i].kind
  BY <1>4, <1>5 DEF Entries
<1>7. b = [a EXCEPT ![i] = e]
  BY <1>2, <1>4
<1>8. b \in Seq(Entries) /\ Len(b) = Len(a) /\ Len(a) \in Nat /\ Len(a) >= 1
  BY <1>3, <1>6, <1>7
<1>9. b # << >> /\ a # << >>
  <2>1. Len(<< >>) = 0
    OBVIOUS
  <2> QED
    BY <1>8, <2>1
<1>10. Head(b).kind = Head(a).kind
  <2>1. Head(b) = b[1] /\ Head(a) = a[1]
    BY <1>3, <1>8, <1>9
  <2>2. b[1] = IF 1 = i THEN e ELSE a[1]
    BY <1>3, <1>7, <1>8
  <2> QED
    BY <1>6, <2>1, <2>2
<1>11. p = [q EXCEPT !.armys = b]
  BY <1>1, <1>2 DEF TimerQueues
<1>12. p \in TimerQueues /\ p.armys = b /\ p.block = q.block /\ p.age = q.age
  BY <1>1, <1>8, <1>11 DEF TimerQueues
<1>13. ~q.block /\ q.age < Horizon =>
         t.exp = BuildTime[Head(a).kind] - q.age /\ (t.armed \/ t.ready > 0)
  BY <1>2, <1>9 DEF QueueOK
<1>14. QueueOK(p, t)
  BY <1>1, <1>10, <1>12, <1>13 DEF QueueOK
<1> QED
  BY <1>2, <1>9, <1>12, <1>14

\* addSoldiers: an order more.
LEMMA AddedTo ==
    ASSUME NEW q, NEW t, QueueOK(q, t), NEW k \in Kinds, NEW n \in Int
    PROVE  /\ AddTo(q, k, n) \in TimerQueues
           /\ q.armys # << >> => QueueOK(AddTo(q, k, n), t)
<1>0. q \in TimerQueues /\ q.armys \in Seq(Entries)
  BY DEF QueueOK, TimerQueues
<1>1. CASE \E i \in 1 .. Len(q.armys) : q.armys[i].kind = k
  <2>1. PICK a : a = q.armys
    OBVIOUS
  <2>2. PICK S : S = {j \in 1 .. Len(a) : a[j].kind = k}
    OBVIOUS
  <2>3. S \in SUBSET Nat /\ S # {}
    BY <1>1, <2>1, <2>2
  <2>4. PICK h \in S : \A j \in S : h <= j
    BY <2>3, LeastOf
  <2>5. h \in 1 .. Len(a) /\ a[h].kind = k /\ \A g \in 1 .. (h - 1) : a[g].kind # k
    BY <1>0, <2>1, <2>2, <2>4
  <2>6. PICK i : i = CHOOSE j \in 1 .. Len(a) : a[j].kind = k /\ \A g \in 1 .. (j - 1) : a[g].kind # k
    OBVIOUS
  <2>7. i \in 1 .. Len(a)
    BY <2>5, <2>6
  <2>8. AddTo(q, k, n) = [q EXCEPT !.armys[i].num = @ + n]
    BY <1>1, <2>1, <2>6 DEF AddTo
  <2>9. PICK m : m = a[i].num + n
    OBVIOUS
  <2>10. m \in Int
    <3>1. a[i] \in Entries
      BY <1>0, <2>1, <2>7
    <3>2. a[i].num \in Int
      BY <3>1 DEF Entries
    <3> QED
      BY <2>9, <3>2
  <2>11. AddTo(q, k, n) = [q EXCEPT !.armys[i].num = m]
    BY <2>1, <2>8, <2>9
  <2>12. QueueOK([q EXCEPT !.armys[i].num = m], t)
    BY <2>1, <2>7, <2>10, NumChanged
  <2> QED
    BY <2>11, <2>12 DEF QueueOK
<1>2. CASE ~\E i \in 1 .. Len(q.armys) : q.armys[i].kind = k
  <2>1. PICK e : e = Entry(k, n)
    OBVIOUS
  <2>2. e \in Entries
    BY <2>1 DEF Entry, Entries
  <2>3. PICK p : p = [q EXCEPT !.armys = Append(@, e)]
    OBVIOUS
  <2>4. AddTo(q, k, n) = p
    BY <1>2, <2>1, <2>3 DEF AddTo
  <2>5. p \in TimerQueues
    <3>1. PICK b : b = Append(q.armys, e)
      OBVIOUS
    <3>2. b \in Seq(Entries)
      BY <1>0, <2>2, <3>1
    <3> QED
      BY <1>0, <2>3, <3>1, <3>2 DEF TimerQueues
  <2>6. q.armys # << >> => QueueOK(p, t)
    BY <2>2, <2>3, Appended
  <2> QED
    BY <2>4, <2>5, <2>6
<1> QED
  BY <1>1, <1>2

\* It keeps the invariant, and the order is saved.
LEMMA AddKeeps ==
    ASSUME ArmyInv, NEW c \in Camps, NEW k \in Kinds, NEW n \in Numbers, AddSoldiers(c, k, n)
    PROVE  ArmyInv' /\ StepOK
<1>n. n \in Int
  BY ArmyAssumption
<1>1. PICK a \in FindUid, end \in Ends :
         LET q == IF a.q[c] = None THEN NewTimerQueue ELSE a.q[c]
             t == a.t[c]
             paid == ~SoldierIsUnlock(k) /\ wood >= Cost[k] * n
             more == AddTo(q, k, n)
             r == IF q.armys = <<>> THEN RegisterTime(more, t, 0, 0) ELSE [q |-> more, t |-> t]
             new == IF paid THEN r ELSE [q |-> q, t |-> t]
         IN /\ Leaves(end, [a.q EXCEPT ![c] = new.q], [a.t EXCEPT ![c] = new.t])
            /\ IF SoldierIsUnlock(k) THEN end = "done" /\ UNCHANGED stored
               ELSE SendProcessResultToUser(c, new.q, end)
            /\ wood' = IF paid THEN wood - Cost[k] * n ELSE wood
            /\ SetArmy(a.s)
  BY DEF AddSoldiers
<1>2. a \in Loads(Tally) /\ (online => a.q = queue)
  BY Found, FoundOnline
<1>3. dying' = dying
  BY DEF AddSoldiers
<1>4. PICK q, t, refused, paid, more :
         /\ q = IF a.q[c] = None THEN NewTimerQueue ELSE a.q[c]
         /\ t = a.t[c] /\ refused = (IF SoldierIsUnlock(k) THEN TRUE ELSE FALSE)
         /\ paid = (IF ~SoldierIsUnlock(k) /\ wood >= Cost[k] * n THEN TRUE ELSE FALSE)
         /\ more = AddTo(q, k, n)
  OBVIOUS
<1>5. PICK r : r = IF q.armys = <<>> THEN RegisterTime(more, t, 0, 0) ELSE [q |-> more, t |-> t]
  OBVIOUS
<1>6. PICK new : new = IF paid THEN r ELSE [q |-> q, t |-> t]
  OBVIOUS
<1>7. /\ Leaves(end, [a.q EXCEPT ![c] = new.q], [a.t EXCEPT ![c] = new.t])
      /\ IF refused THEN end = "done" /\ stored' = stored ELSE Written(c, new.q, end)
      /\ SetArmy(a.s)
  BY <1>1, <1>4, <1>5, <1>6 DEF SendProcessResultToUser
<1>8. QueueOK(q, t) /\ q \in TimerQueues
  <2>1. PICK x : x = a.q[c]
    OBVIOUS
  <2>2. x # None => x \in TimerQueues /\ QueueOK(x, t)
    BY <1>2, <1>4, <2>1, CampLoaded
  <2>3. t \in DeadlineTimers
    BY <1>2, <1>4, CampLoaded
  <2>4. NewTimerQueue \in TimerQueues /\ QueueOK(NewTimerQueue, t)
    BY <2>3, NewQueue, QueueRests
  <2> QED
    BY <1>4, <2>1, <2>2, <2>4
<1>9. QueueOK(r.q, r.t)
  <2>1. more \in TimerQueues /\ (q.armys # << >> => QueueOK(more, t))
    BY <1>4, <1>8, <1>n, AddedTo
  <2>2. CASE q.armys = << >>
    <3>1. t \in DeadlineTimers /\ 0 \in Int /\ 0 \in Nat
      BY <1>8 DEF QueueOK
    <3> QED
      BY <1>5, <2>1, <2>2, <3>1, Registered
  <2>3. CASE q.armys # << >>
    <3>1. r.q = more /\ r.t = t
      BY <1>5, <2>3
    <3> QED
      BY <2>1, <2>3, <3>1
  <2> QED
    BY <2>2, <2>3
<1>10. PICK p, u : p = new.q /\ u = new.t
  OBVIOUS
<1>11. QueueOK(p, u) /\ (refused => p = q)
  <2>1. CASE paid
    BY <1>4, <1>6, <1>9, <1>10, <2>1
  <2>2. CASE ~paid
    BY <1>6, <1>8, <1>10, <2>2
  <2> QED
    BY <2>1, <2>2
<1>12. p \in TimerQueues
  BY <1>11 DEF QueueOK
<1>13. \/ Written(c, p, end)
       \/ end = "done" /\ stored' = stored /\ p.armys = Orders(a.q[c])
  <2>1. q.armys = Orders(a.q[c])
    BY <1>4, NewQueue DEF Orders
  <2> QED
    BY <1>7, <1>10, <1>11, <2>1
<1>14. PICK s : s = a.s
  OBVIOUS
<1>15. ArmyOK(s, Tally) /\ SetArmy(s)
  BY <1>2, <1>7, <1>14 DEF Loads
<1>16. Leaves(end, [a.q EXCEPT ![c] = p], [a.t EXCEPT ![c] = u])
  BY <1>7, <1>10
<1> QED
  BY <1>2, <1>3, <1>11, <1>12, <1>13, <1>15, <1>16, OneCamp

\* delSoliders: an order less, or fewer of it.
LEMMA DelKeeps ==
    ASSUME ArmyInv, NEW c \in Camps, NEW k \in Kinds, NEW n \in Numbers, DelSoliders(c, k, n)
    PROVE  ArmyInv' /\ StepOK
<1>n. n \in Int
  BY ArmyAssumption
<1>1. PICK a \in FindUid, end \in Ends :
         LET q == a.q[c]
             t == a.t[c]
             at == IF q = None THEN {} ELSE {i \in 1..Len(q.armys) : q.armys[i].kind = k}
             i == CHOOSE j \in at : \A h \in at : j <= h
             num == q.armys[i].num - n
             rest == [q EXCEPT !.armys = IF num <= 0 THEN RemoveAt(@, i)
                                         ELSE [@ EXCEPT ![i].num = num]]
             r == IF i = 1 /\ num <= 0 THEN RegisterTime(rest, CancelTimer(q, t), 0, 0)
                  ELSE [q |-> rest, t |-> t]
         IN /\ SetArmy(a.s)
            /\ \/ /\ at = {} /\ end = "done"
                  /\ Leaves(end, a.q, a.t)
                  /\ UNCHANGED <<stored, wood>>
               \/ /\ at # {}
                  /\ Leaves(end, [a.q EXCEPT ![c] = r.q], [a.t EXCEPT ![c] = r.t])
                  /\ SendProcessResultToUser(c, r.q, end)
                  /\ wood' = wood + (Cost[k] \div 2) * n
  BY DEF DelSoliders
<1>2. a \in Loads(Tally) /\ (online => a.q = queue)
  BY Found, FoundOnline
<1>3. dying' = dying
  BY DEF DelSoliders
<1> DEFINE q == a.q[c]
           t == a.t[c]
           at == IF q = None THEN {} ELSE {h \in 1..Len(q.armys) : q.armys[h].kind = k}
           i == CHOOSE j \in at : \A h \in at : j <= h
           num == q.armys[i].num - n
           rest == [q EXCEPT !.armys = IF num <= 0 THEN RemoveAt(@, i)
                                       ELSE [@ EXCEPT ![i].num = num]]
           r == IF i = 1 /\ num <= 0 THEN RegisterTime(rest, CancelTimer(q, t), 0, 0)
                ELSE [q |-> rest, t |-> t]
<1>10. /\ SetArmy(a.s)
       /\ \/ at = {} /\ queue' = a.q /\ timer' = a.t /\ stored' = stored
          \/ /\ at # {} /\ Leaves(end, [a.q EXCEPT ![c] = r.q], [a.t EXCEPT ![c] = r.t])
             /\ Written(c, r.q, end)
  BY <1>1 DEF SendProcessResultToUser, Leaves
<1> HIDE DEF r
<1>9. r = IF i = 1 /\ num <= 0 THEN RegisterTime(rest, CancelTimer(q, t), 0, 0)
          ELSE [q |-> rest, t |-> t]
  BY DEF r
<1> HIDE DEF rest
<1>8. rest = [q EXCEPT !.armys = IF num <= 0 THEN RemoveAt(@, i) ELSE [@ EXCEPT ![i].num = num]]
  BY DEF rest
<1> HIDE DEF num
<1>7. num = q.armys[i].num - n
  BY DEF num
<1> HIDE DEF at
<1>6. at \in SUBSET Nat /\ at # {} => i \in at
  BY FirstOf
<1> HIDE DEF i
<1>5. at = IF q = None THEN {} ELSE {h \in 1..Len(q.armys) : q.armys[h].kind = k}
  BY DEF at
<1> HIDE DEF q, t
<1>4. q = a.q[c] /\ t = a.t[c]
  BY DEF q, t
<1>11. CASE at = {} /\ queue' = a.q /\ timer' = a.t /\ stored' = stored
  BY <1>2, <1>3, <1>10, <1>11, NoCamp
<1>12. CASE /\ at # {} /\ Leaves(end, [a.q EXCEPT ![c] = r.q], [a.t EXCEPT ![c] = r.t])
            /\ Written(c, r.q, end)
  <2>1. q # None /\ QueueOK(q, t)
    BY <1>2, <1>4, <1>5, <1>12, CampLoaded
  <2>2. q \in TimerQueues /\ t \in DeadlineTimers /\ q.armys \in Seq(Entries)
    BY <2>1 DEF QueueOK, TimerQueues
  <2>3. i \in 1 .. Len(q.armys)
    <3>1. at \in SUBSET Nat /\ at \subseteq 1 .. Len(q.armys)
      BY <1>5, <2>1
    <3>2. i \in at
      BY <1>6, <1>12, <3>1
    <3> QED
      BY <3>1, <3>2
  <2>4. num \in Int
    <3>1. q.armys[i] \in Entries
      BY <2>2, <2>3
    <3>2. q.armys[i].num \in Int
      BY <3>1 DEF Entries
    <3> QED
      BY <1>7, <1>n, <3>2
  <2>5. QueueOK(r.q, r.t)
    <3>1. CASE num <= 0
      <4>1. PICK b, d : b = q.armys /\ d = RemoveAt(b, i)
        OBVIOUS
      <4>2. rest = [q EXCEPT !.armys = d]
        BY <1>8, <3>1, <4>1
      <4>3. b \in Seq(Entries) /\ i \in 1 .. Len(b) /\ Len(b) \in Nat
        BY <2>2, <2>3, <4>1
      <4>4. d = SubSeq(b, 1, i - 1) \o SubSeq(b, i + 1, Len(b))
        BY <4>1 DEF RemoveAt
      <4>5. PICK d1, d2 : d1 = SubSeq(b, 1, i - 1) /\ d2 = SubSeq(b, i + 1, Len(b))
        OBVIOUS
      <4>6. d1 \in Seq(Entries) /\ d2 \in Seq(Entries)
        BY <4>3, <4>5
      <4>7. d \in Seq(Entries)
        BY <4>4, <4>5, <4>6
      <4>8. rest \in TimerQueues /\ rest.armys = d /\ rest.block = q.block /\ rest.age = q.age
        BY <2>2, <4>2, <4>7 DEF TimerQueues
      <4>9. CASE i = 1
        <5>1. PICK x : x = CancelTimer(q, t)
          OBVIOUS
        <5>2. x \in DeadlineTimers
          BY <2>2, <5>1 DEF CancelTimer, DeadlineTimers
        <5>3. r = RegisterTime(rest, x, 0, 0)
          BY <1>9, <3>1, <4>9, <5>1
        <5>4. 0 \in Int /\ 0 \in Nat
          OBVIOUS
        <5> QED
          BY <4>8, <5>2, <5>3, <5>4, Registered
      <4>10. CASE i # 1
        <5>1. Len(d1) = i - 1 /\ i - 1 >= 1 /\ d1[1] = b[1]
          BY <4>3, <4>5, <4>10
        <5>2. d # << >> /\ Head(d) = b[1]
          <6>1. Len(d) = Len(d1) + Len(d2) /\ Len(d2) \in Nat
            BY <4>4, <4>5, <4>6
          <6>2. Len(d) >= 1 /\ Len(<< >>) = 0
            BY <5>1, <6>1
          <6>3. d # << >>
            BY <6>2
          <6>4. d[1] = d1[1]
            BY <4>4, <4>5, <4>6, <5>1
          <6> QED
            BY <4>7, <5>1, <6>3, <6>4
        <5>3. b # << >> /\ Head(b) = b[1]
          <6>1. Len(b) >= 1 /\ Len(<< >>) = 0
            BY <4>3
          <6> QED
            BY <4>3, <6>1
        <5>4. r.q = rest /\ r.t = t
          BY <1>9, <4>10
        <5>5. ~q.block /\ q.age < Horizon =>
                t.exp = BuildTime[Head(b).kind] - q.age /\ (t.armed \/ t.ready > 0)
          BY <2>1, <4>1, <5>3 DEF QueueOK
        <5> QED
          BY <2>2, <4>8, <5>2, <5>3, <5>4, <5>5 DEF QueueOK
      <4> QED
        BY <4>9, <4>10
    <3>2. CASE ~(num <= 0)
      <4>1. rest = [q EXCEPT !.armys[i].num = num]
        BY <1>8, <3>2
      <4>2. QueueOK(rest, t)
        BY <2>1, <2>3, <2>4, <4>1, NumChanged
      <4>3. r.q = rest /\ r.t = t
        BY <1>9, <3>2
      <4> QED
        BY <4>2, <4>3
    <3> QED
      BY <3>1, <3>2
  <2>6. PICK p, u, s : p = r.q /\ u = r.t /\ s = a.s
    OBVIOUS
  <2>7. QueueOK(p, u) /\ p \in TimerQueues /\ ArmyOK(s, Tally) /\ SetArmy(s)
    BY <1>2, <1>10, <2>5, <2>6 DEF QueueOK, Loads
  <2>8. Leaves(end, [a.q EXCEPT ![c] = p], [a.t EXCEPT ![c] = u]) /\ Written(c, p, end)
    BY <1>12, <2>6
  <2> QED
    BY <1>2, <1>3, <2>7, <2>8, OneCamp
<1> QED
  BY <1>10, <1>11, <1>12

\* completeAtOnce: what finds room is built, and the queue is empty, or nothing happens.
LEMMA CompleteKeeps ==
    ASSUME ArmyInv, NEW c \in Camps, CompleteAtOnce(c)
    PROVE  ArmyInv' /\ StepOK
<1>1. PICK a \in FindUid, end \in Ends :
         \/ /\ queue' = a.q /\ timer' = a.t /\ SetArmy(a.s) /\ stored' = stored
         \/ /\ a.q[c] # None
            /\ SetArmy(FoldLeft(Complete, a.s, a.q[c].armys))
            /\ Leaves(end, [a.q EXCEPT ![c] = NewTimerQueue],
                      [a.t EXCEPT ![c] = CancelTimer(a.q[c], @)])
            /\ Written(c, NewTimerQueue, end)
  <2>1. PICK a \in FindUid, charged \in BOOLEAN, ok \in BOOLEAN, end \in Ends :
           \/ /\ end = "done" /\ Leaves(end, a.q, a.t) /\ SetArmy(a.s) /\ UNCHANGED stored
           \/ /\ a.q[c] # None
              /\ SetArmy(FoldLeft(Complete, a.s, a.q[c].armys))
              /\ Leaves(end, [a.q EXCEPT ![c] = NewTimerQueue],
                        [a.t EXCEPT ![c] = CancelTimer(a.q[c], @)])
              /\ Written(c, NewTimerQueue, end)
    <3>1. PICK a \in FindUid, charged \in BOOLEAN, ok \in BOOLEAN, end \in Ends :
             LET q == a.q[c]
                 price == DiamondPrice(q)
             IN \/ /\ q = None /\ ~charged /\ ~ok /\ end = "done"
                   /\ Leaves(end, a.q, a.t) /\ SetArmy(a.s)
                   /\ UNCHANGED <<stored, diamonds>>
                \/ /\ q # None
                   /\ charged = (diamonds >= price)
                   /\ ok => charged
                   /\ diamonds' = IF charged THEN diamonds - price ELSE diamonds
                   /\ IF ok
                      THEN /\ SetArmy(FoldLeft(Complete, a.s, q.armys))
                           /\ Leaves(end, [a.q EXCEPT ![c] = NewTimerQueue],
                                     [a.t EXCEPT ![c] = CancelTimer(q, @)])
                           /\ Written(c, NewTimerQueue, end)
                      ELSE /\ end = "done" /\ Leaves(end, a.q, a.t) /\ SetArmy(a.s)
                           /\ UNCHANGED stored
      BY DEF CompleteAtOnce
    <3> DEFINE A == SetArmy(FoldLeft(Complete, a.s, a.q[c].armys))
               B == SetArmy(a.s)
               L == Leaves(end, [a.q EXCEPT ![c] = NewTimerQueue],
                           [a.t EXCEPT ![c] = CancelTimer(a.q[c], @)])
               M == Leaves(end, a.q, a.t)
               W == Written(c, NewTimerQueue, end)
    <3>2. \/ end = "done" /\ M /\ B /\ UNCHANGED stored
          \/ a.q[c] # None /\ A /\ L /\ W
      <4>1. UNCHANGED << stored, diamonds >> => UNCHANGED stored
        OBVIOUS
      <4> HIDE DEF A, B, L, M, W
      <4>2. \/ end = "done" /\ M /\ B /\ UNCHANGED << stored, diamonds >>
            \/ a.q[c] # None /\ (IF ok THEN A /\ L /\ W ELSE end = "done" /\ M /\ B /\ UNCHANGED stored)
        BY <3>1, Zenon DEF A, B, L, M, W
      <4> QED
        BY <4>1, <4>2
    <3> QED
      BY <3>2
  <2>2. end = "done" /\ Leaves(end, a.q, a.t) => queue' = a.q /\ timer' = a.t
    BY DEF Leaves
  <2> QED
    BY <2>1, <2>2
<1>2. a \in Loads(Tally) /\ (online => a.q = queue)
  BY Found, FoundOnline
<1>3. dying' = dying
  BY DEF CompleteAtOnce
<1>4. CASE queue' = a.q /\ timer' = a.t /\ SetArmy(a.s) /\ stored' = stored
  BY <1>2, <1>3, <1>4, NoCamp
<1>5. CASE /\ a.q[c] # None
           /\ SetArmy(FoldLeft(Complete, a.s, a.q[c].armys))
           /\ Leaves(end, [a.q EXCEPT ![c] = NewTimerQueue],
                     [a.t EXCEPT ![c] = CancelTimer(a.q[c], @)])
           /\ Written(c, NewTimerQueue, end)
  <2>1. PICK q, t, u : q = a.q[c] /\ t = a.t[c] /\ u = CancelTimer(q, t)
    OBVIOUS
  <2>2. q \in TimerQueues /\ t \in DeadlineTimers /\ ArmyOK(a.s, Tally)
    BY <1>2, <1>5, <2>1, CampLoaded
  <2>3. u \in DeadlineTimers
    BY <2>1, <2>2 DEF CancelTimer, DeadlineTimers
  <2>4. PICK done : done = NewTimerQueue
    OBVIOUS
  <2>5. done \in TimerQueues /\ done.armys = << >>
    BY <2>4, NewQueue
  <2>6. QueueOK(done, u)
    BY <2>3, <2>5, QueueRests
  <2>7. PICK s0, e, d : s0 = a.s /\ e = q.armys /\ d = Tally
    OBVIOUS
  <2>8. ArmyOK(s0, d) /\ e \in Seq(Entries)
    BY <2>2, <2>7 DEF TimerQueues
  <2>9. PICK s : s = FoldLeft(Complete, s0, e)
    OBVIOUS
  <2>10. ArmyOK(s, d)
    BY <2>8, <2>9, CompletedAll
  <2>11. ArmyOK(s, Tally) /\ SetArmy(s) /\ Written(c, done, end)
    BY <1>5, <2>1, <2>4, <2>7, <2>9, <2>10
  <2>12. Leaves(end, [a.q EXCEPT ![c] = done], [a.t EXCEPT ![c] = u])
    BY <1>5, <2>1, <2>4
  <2> QED
    BY <1>2, <1>3, <2>5, <2>6, <2>11, <2>12, OneCamp
<1> QED
  BY <1>1, <1>4, <1>5

\* One camp's timer is changed.
LEMMA OneTimer ==
    ASSUME ArmyInv, NEW c \in Camps, NEW t \in DeadlineTimers,
           queue[c] # None => QueueOK(queue[c], t),
           timer' = [timer EXCEPT ![c] = t],
           UNCHANGED << online, queue, stored, army, count, curPopu, dying >>
    PROVE  ArmyInv' /\ StepOK
<1>1. ArmyOK(Army', Tally') /\ CountStep
  BY SameArmy
<1>2. /\ timer' \in [Camps -> DeadlineTimers]
      /\ \A e \in Camps : timer'[e] = IF e = c THEN t ELSE timer[e]
  BY DEF ArmyInv
<1>3. ASSUME NEW e \in Camps, queue[e] # None PROVE QueueOK(queue[e], timer'[e])
  <2>1. CASE e = c
    BY <1>2, <1>3, <2>1
  <2>2. CASE e # c
    <3>1. timer'[e] = timer[e]
      BY <1>2, <2>2
    <3> QED
      BY <1>3, <3>1 DEF ArmyInv
  <2> QED
    BY <2>1, <2>2
<1>4. SavedStep
  BY NothingWritten
<1> QED
  BY <1>1, <1>2, <1>3, <1>4 DEF ArmyInv, StepOK

\* A wait that expires is one that has expired.
LEMMA ExpireKeeps ==
    ASSUME ArmyInv, NEW c \in Camps, Expire(c)
    PROVE  ArmyInv' /\ StepOK
<1>1. PICK t, u : t = timer[c] /\ u = [t EXCEPT !.armed = FALSE, !.ready = @ + 1]
  OBVIOUS
<1>2. t \in DeadlineTimers /\ t.ready \in Nat
  BY <1>1 DEF ArmyInv, DeadlineTimers
<1>3. u \in DeadlineTimers /\ u.exp = t.exp /\ u.ready > 0
  <2>1. PICK n : n = t.ready + 1
    OBVIOUS
  <2>2. n \in Nat /\ n > 0
    BY <1>2, <2>1
  <2>3. u = [t EXCEPT !.armed = FALSE, !.ready = n]
    BY <1>1, <2>1
  <2> QED
    BY <1>2, <2>2, <2>3 DEF DeadlineTimers
<1>4. queue[c] # None => QueueOK(queue[c], u)
  <2> SUFFICES ASSUME queue[c] # None PROVE QueueOK(queue[c], u)
    OBVIOUS
  <2>1. PICK q : q = queue[c]
    OBVIOUS
  <2>2. QueueOK(q, t)
    BY <1>1, <2>1 DEF ArmyInv
  <2>3. QueueOK(q, u)
    BY <1>3, <2>2 DEF QueueOK
  <2> QED
    BY <2>1, <2>3
<1>5. timer' = [timer EXCEPT ![c] = u]
  BY <1>1 DEF Expire, ArmyInv
<1>6. UNCHANGED << online, queue, stored, army, count, curPopu, dying >>
  BY DEF Expire, soldiers
<1> QED
  BY <1>3, <1>4, <1>5, <1>6, OneTimer

\* timeIsUp: a soldier more, or the retry, or nothing for a queue that is gone.
LEMMA TimeIsUpKeeps ==
    ASSUME ArmyInv, NEW c \in Camps, TimeIsUp(c)
    PROVE  ArmyInv' /\ StepOK
<1> DEFINE q == queue[c]
           t == [timer[c] EXCEPT !.ready = @ - 1]
           k == Head(q.armys).kind
           fits == Fits(k)
           rest == IF Head(q.armys).num = 1 THEN Tail(q.armys)
                   ELSE [q.armys EXCEPT ![1].num = @ - 1]
           built == [q EXCEPT !.block = FALSE, !.armys = rest]
           r == IF fits THEN RegisterTime(built, t, -t.exp, 0)
                ELSE RegisterTime([q EXCEPT !.block = TRUE], t, -t.exp, RetryTime)
<1>6. \/ /\ ~Busy(c)
         /\ timer' = [timer EXCEPT ![c] = t]
         /\ UNCHANGED <<online, queue, stored, soldiers>>
      \/ /\ Busy(c) /\ fits
         /\ SetArmy(Insert(Army, k))
         /\ \E end \in Ends : /\ Written(c, built, end)
                             /\ Leaves(end, [queue EXCEPT ![c] = r.q], [timer EXCEPT ![c] = r.t])
      \/ /\ Busy(c) /\ ~fits
         /\ queue' = [queue EXCEPT ![c] = r.q]
         /\ timer' = [timer EXCEPT ![c] = r.t]
         /\ UNCHANGED <<online, stored, soldiers>>
  BY DEF TimeIsUp, SendSoldierIsComplete
<1> HIDE DEF r
<1>5. r = IF fits THEN RegisterTime(built, t, -t.exp, 0)
          ELSE RegisterTime([q EXCEPT !.block = TRUE], t, -t.exp, RetryTime)
  BY DEF r
<1> HIDE DEF built
<1>3. built = [q EXCEPT !.block = FALSE, !.armys = rest]
  BY DEF built
<1> HIDE DEF rest
<1>2. rest = IF Head(q.armys).num = 1 THEN Tail(q.armys)
             ELSE [q.armys EXCEPT ![1].num = @ - 1]
  BY DEF rest
<1> HIDE DEF fits, k, t, q
<1>1. q = queue[c] /\ t = [timer[c] EXCEPT !.ready = @ - 1] /\ k = Head(q.armys).kind
  BY DEF q, t, k
<1>7. t \in DeadlineTimers /\ t.exp \in Int
  <2>1. PICK u : u = timer[c]
    OBVIOUS
  <2>2. u \in DeadlineTimers /\ u.ready > 0
    BY <2>1 DEF ArmyInv, TimeIsUp
  <2>3. u.ready - 1 \in Nat
    BY <2>2 DEF DeadlineTimers
  <2> QED
    BY <1>1, <2>1, <2>2, <2>3 DEF DeadlineTimers
<1>8. dying' = dying
  BY DEF TimeIsUp
<1>9. CASE ~Busy(c) /\ timer' = [timer EXCEPT ![c] = t] /\ UNCHANGED << online, queue, stored, soldiers >>
  <2>1. queue[c] # None => QueueOK(queue[c], t)
    <3>1. q # None => q \in TimerQueues /\ q.armys = << >>
      BY <1>1, <1>9 DEF Busy, ArmyInv
    <3> QED
      BY <1>1, <1>7, <3>1, QueueRests
  <2>2. UNCHANGED << online, queue, stored, army, count, curPopu, dying >>
    BY <1>8, <1>9 DEF soldiers
  <2> QED
    BY <1>7, <1>9, <2>1, <2>2, OneTimer
<1>10. CASE Busy(c)
  <2>1. q \in TimerQueues /\ q.armys # << >> /\ q # None /\ q.armys \in Seq(Entries) /\ QueueOK(q, timer[c])
    BY <1>1, <1>10 DEF Busy, ArmyInv, TimerQueues
  <2>2. k \in Kinds
    <3>1. PICK e : e = Head(q.armys)
      OBVIOUS
    <3>2. e \in Entries
      BY <2>1, <3>1, FrontOf
    <3> QED
      BY <1>1, <3>1, <3>2 DEF Entries
  <2>3. PICK a, d : a = [s |-> Army, q |-> queue, t |-> timer] /\ d = Tally
    OBVIOUS
  <2>4. a \in Loads(Tally) /\ a.q = queue /\ a.t = timer /\ a.s = Army
    BY <2>3, InTable
  <2>5. PICK p, u : p = r.q /\ u = r.t
    OBVIOUS
  <2>7. PICK x : x = -t.exp
    OBVIOUS
  <2>8. x \in Int
    BY <1>7, <2>7
  <2>9. CASE fits
    <3>1. rest \in Seq(Entries)
      <4>1. PICK b : b = q.armys
        OBVIOUS
      <4>2. b \in Seq(Entries) /\ b # << >> /\ 1 \in 1 .. Len(b)
        <5>1. b \in Seq(Entries) /\ b # << >>
          BY <2>1, <4>1
        <5>2. Len(b) \in Nat /\ Len(b) # 0
          BY <5>1
        <5> QED
          BY <5>1, <5>2
      <4>3. CASE Head(b).num = 1
        <5>1. rest = Tail(b)
          BY <1>2, <4>1, <4>3
        <5> QED
          BY <4>2, <5>1
      <4>4. CASE Head(b).num # 1
        <5>1. PICK e : e = [b[1] EXCEPT !.num = @ - 1]
          OBVIOUS
        <5>2. b[1] \in Entries
          BY <4>2
        <5>3. e \in Entries
          BY <5>1, <5>2 DEF Entries
        <5>4. rest = [b EXCEPT ![1] = e]
          BY <1>2, <4>1, <4>4, <5>1
        <5> QED
          BY <4>2, <5>3, <5>4
      <4> QED
        BY <4>3, <4>4
    <3>2. built \in TimerQueues /\ built.armys = rest
      BY <1>3, <2>1, <3>1 DEF TimerQueues
    <3>3. r = RegisterTime(built, t, x, 0)
      BY <1>5, <2>7, <2>9
    <3>4. QueueOK(p, u) /\ p.armys = built.armys
      <4>1. 0 \in Nat
        OBVIOUS
      <4> QED
        BY <1>7, <2>5, <2>8, <3>2, <3>3, <4>1, Registered
    <3>5. PICK s0, s : s0 = Army /\ s = Insert(s0, k)
      OBVIOUS
    <3>6. ArmyOK(s0, d)
      BY <2>3, <3>5 DEF ArmyInv
    <3>7. ArmyOK(s, d)
      BY <2>2, <3>5, <3>6, InsertOK
    <3>8. ArmyOK(s, Tally) /\ SetArmy(s)
      BY <1>6, <1>10, <2>3, <2>9, <3>5, <3>7
    <3>9. PICK end \in Ends :
             /\ Written(c, built, end)
             /\ Leaves(end, [a.q EXCEPT ![c] = p], [a.t EXCEPT ![c] = u])
      BY <1>6, <1>10, <2>4, <2>5, <2>9
    <3> QED
      BY <1>8, <2>4, <3>2, <3>4, <3>8, <3>9, OneCamp
  <2>10. CASE ~fits
    <3>1. PICK b : b = [q EXCEPT !.block = TRUE]
      OBVIOUS
    <3>2. b \in TimerQueues /\ b.armys = q.armys /\ b.block
      BY <2>1, <3>1 DEF TimerQueues
    <3>3. r = RegisterTime(b, t, x, RetryTime)
      BY <1>5, <2>7, <2>10, <3>1
    <3>4. QueueOK(p, u) /\ p.armys = b.armys
      <4>1. RetryTime \in Nat
        BY ArmyAssumption
      <4> QED
        BY <1>7, <2>5, <2>8, <3>2, <3>3, <4>1, Registered
    <3>5. PICK s : s = Army
      OBVIOUS
    <3>6. ArmyOK(s, Tally) /\ SetArmy(s) /\ stored' = stored
      <4>1. UNCHANGED << stored, soldiers >>
        BY <1>6, <1>10, <2>10
      <4> QED
        BY <3>5, <4>1 DEF ArmyInv, SetArmy, Army, soldiers
    <3>7. p.armys = Orders(a.q[c])
      BY <1>1, <2>1, <2>4, <3>2, <3>4 DEF Orders
    <3>8. queue' = [a.q EXCEPT ![c] = p] /\ timer' = [a.t EXCEPT ![c] = u]
      BY <1>6, <1>10, <2>4, <2>5, <2>10
    <3> QED
      BY <1>8, <2>4, <3>2, <3>4, <3>6, <3>7, <3>8, OneCampDone
  <2> QED
    BY <2>9, <2>10
<1> QED
  BY <1>6, <1>9, <1>10

\* A second passes for a queue and for its timer.
LEMMA TickOK ==
    ASSUME NEW q \in TimerQueues \cup {None}, NEW t \in DeadlineTimers
    PROVE  /\ Older(q) \in TimerQueues \cup {None} /\ Nearer(t) \in DeadlineTimers
           /\ Older(q) = None <=> q = None
           /\ q # None => Older(q).armys = q.armys
           /\ q # None /\ QueueOK(q, t) => QueueOK(Older(q), Nearer(t))
<1>h. Horizon \in Nat
  BY ArmyAssumption
<1>1. Nearer(t) \in DeadlineTimers /\ Nearer(t).armed = t.armed /\ Nearer(t).ready = t.ready
      /\ (t.armed \/ t.ready > 0 => Nearer(t).exp = Most(t.exp - 1, -Horizon))
  <2>1. PICK m : m = Most(t.exp - 1, -Horizon)
    OBVIOUS
  <2>2. m \in Int
    BY <1>h, <2>1 DEF Most, DeadlineTimers
  <2>3. CASE t.armed \/ t.ready > 0
    <3>1. Nearer(t) = [t EXCEPT !.exp = m]
      BY <2>1, <2>3 DEF Nearer
    <3> QED
      BY <2>1, <2>2, <2>3, <3>1 DEF DeadlineTimers
  <2>4. CASE ~(t.armed \/ t.ready > 0)
    <3>1. Nearer(t) = t
      BY <2>4 DEF Nearer
    <3> QED
      BY <2>4, <3>1
  <2> QED
    BY <2>3, <2>4
<1>2. CASE q = None
  BY <1>1, <1>2 DEF Older
<1>3. CASE q # None /\ q.armys = << >>
  <2>1. Older(q) = q
    BY <1>3 DEF Older
  <2> QED
    BY <1>1, <1>3, <2>1, QueueRests
<1>4. CASE q # None /\ q.armys # << >>
  <2>1. q \in TimerQueues /\ q.age \in Int
    BY <1>4 DEF TimerQueues
  <2>2. PICK g : g = Least(q.age + 1, Horizon)
    OBVIOUS
  <2>3. g \in Int
    BY <1>h, <2>1, <2>2 DEF Least
  <2>4. Older(q) = [q EXCEPT !.age = g]
    BY <1>4, <2>2 DEF Older
  <2>5. PICK p : p = [q EXCEPT !.age = g]
    OBVIOUS
  <2>6. p \in TimerQueues /\ p.armys = q.armys /\ p.block = q.block /\ p.age = g
    BY <2>1, <2>3, <2>5 DEF TimerQueues
  <2>7. p # None
    BY <2>6, IsQueue
  <2>8. ASSUME QueueOK(q, t) PROVE QueueOK(p, Nearer(t))
    <3>1. PICK w, u : w = BuildTime[Head(q.armys).kind] /\ u = Nearer(t)
      OBVIOUS
    <3>2. w \in Nat
      BY <1>4, <2>1, <3>1, FrontOf
    <3>3. ASSUME ~q.block, g < Horizon
          PROVE  u.exp = w - g /\ (u.armed \/ u.ready > 0)
      <4>1. g = q.age + 1 /\ q.age < Horizon
        BY <1>h, <2>1, <2>2, <3>3 DEF Least
      <4>2. t.exp = w - q.age /\ (t.armed \/ t.ready > 0)
        BY <1>4, <2>8, <3>1, <3>3, <4>1 DEF QueueOK
      <4>3. u.exp = Most(t.exp - 1, -Horizon)
        BY <1>1, <3>1, <4>2
      <4>4. t.exp - 1 = w - g /\ w - g >= -Horizon /\ t.exp \in Int
        BY <1>h, <2>1, <2>3, <3>2, <3>3, <4>1, <4>2
      <4>5. u.exp = w - g
        BY <1>h, <4>3, <4>4 DEF Most
      <4> QED
        BY <1>1, <3>1, <4>2, <4>5
    <3>4. u \in DeadlineTimers
      BY <1>1, <3>1
    <3> QED
      BY <2>6, <3>1, <3>3, <3>4 DEF QueueOK
  <2> QED
    BY <1>1, <1>4, <2>4, <2>5, <2>6, <2>7, <2>8
<1> QED
  BY <1>2, <1>3, <1>4

\* A second passes for all.
LEMMA TickKeeps == ASSUME ArmyInv, Tick PROVE ArmyInv' /\ StepOK
<1>1. /\ queue' = [c \in Camps |-> Older(queue[c])] /\ stored' = [c \in Camps |-> Older(stored[c])]
      /\ timer' = [c \in Camps |-> Nearer(timer[c])] /\ online' = online
      /\ UNCHANGED << army, count, curPopu, dying >>
  BY DEF Tick, soldiers
<1>2. ASSUME NEW c \in Camps
      PROVE  /\ Older(queue[c]) \in TimerQueues \cup {None} /\ Nearer(timer[c]) \in DeadlineTimers
             /\ Older(stored[c]) \in TimerQueues \cup {None}
             /\ queue'[c] # None => QueueOK(queue'[c], timer'[c])
             /\ Orders(queue'[c]) = Orders(queue[c])
             /\ stored[c] # None => Intact(c)
  <2>1. PICK q, t, l : q = queue[c] /\ t = timer[c] /\ l = stored[c]
    OBVIOUS
  <2>2. q \in TimerQueues \cup {None} /\ t \in DeadlineTimers /\ l \in TimerQueues \cup {None}
        /\ (q # None => QueueOK(q, t))
    BY <2>1 DEF ArmyInv
  <2>3. /\ Older(q) \in TimerQueues \cup {None} /\ Nearer(t) \in DeadlineTimers
        /\ Older(q) = None <=> q = None
        /\ q # None => Older(q).armys = q.armys
        /\ q # None => QueueOK(Older(q), Nearer(t))
    BY <2>2, TickOK
  <2>4. /\ Older(l) \in TimerQueues \cup {None}
        /\ Older(l) = None <=> l = None
        /\ l # None => Older(l).armys = l.armys
    BY <2>2, TickOK
  <2>5. queue'[c] = Older(q) /\ timer'[c] = Nearer(t) /\ stored'[c] = Older(l)
    BY <1>1, <2>1
  <2>6. Orders(queue'[c]) = Orders(queue[c])
    BY <2>1, <2>3, <2>5 DEF Orders
  <2>7. stored[c] # None => Intact(c)
    BY <2>1, <2>4, <2>5 DEF Intact, Orders
  <2>8. Older(queue[c]) = Older(q) /\ Nearer(timer[c]) = Nearer(t) /\ Older(stored[c]) = Older(l)
    BY <2>1
  <2> QED
    BY <2>1, <2>3, <2>4, <2>5, <2>6, <2>7, <2>8
<1>3. ArmyOK(Army', Tally') /\ CountStep
  BY <1>1, SameArmy
<1>4. SavedStep
  BY <1>2 DEF SavedStep
<1>5. /\ queue' \in [Camps -> TimerQueues \cup {None}] /\ timer' \in [Camps -> DeadlineTimers]
      /\ stored' \in [Camps -> TimerQueues \cup {None}]
  BY <1>1, <1>2
<1>6. ArmyInv'
  BY <1>1, <1>2, <1>3, <1>5 DEF ArmyInv
<1> QED
  BY <1>3, <1>4, <1>6 DEF StepOK

\* The worker is started again.
LEMMA CrashKeeps == ASSUME ArmyInv, Crash PROVE ArmyInv' /\ StepOK
<1>1. /\ ~online' /\ queue' = NoQueues /\ timer' = NoTimers
      /\ stored' = stored /\ UNCHANGED << army, count, curPopu, dying >>
  BY DEF Crash, soldiers
<1>2. \A c \in Camps : stored[c] # None => Intact(c)
  BY <1>1 DEF Intact
<1>3. /\ timer' \in [Camps -> DeadlineTimers]
      /\ stored' \in [Camps -> TimerQueues \cup {None}]
  BY <1>1, TimersIdle DEF ArmyInv
<1>4. PICK s : s = Army
  OBVIOUS
<1>5. ArmyOK(s, Tally) /\ SetArmy(s) /\ dying' = dying
  BY <1>1, <1>4 DEF ArmyInv, SetArmy, Army
<1> QED
  BY <1>1, <1>2, <1>3, <1>5, WorkerGone

\* What changes only who dies, the army list and the numbers.
LEMMA OnlyArmy ==
    ASSUME ArmyInv, UNCHANGED << online, queue, timer, stored >>,
           NEW s, NEW d, ArmyOK(s, d), s = Army', d.death = dying',
           \A k \in Kinds : d.over[k] = Surplus(k) + (IF Erased(k) THEN 1 ELSE 0)
    PROVE  ArmyInv' /\ StepOK
<1>1. ArmyOK(Army', Tally') /\ \A k \in Kinds : Surplus(k)' = d.over[k]
  BY CountedNext
<1>2. ArmyInv'
  BY <1>1 DEF ArmyInv
<1>3. SavedStep
  BY NothingWritten
<1>4. CountStep
  BY <1>1 DEF CountStep
<1> QED
  BY <1>2, <1>3, <1>4 DEF StepOK

\* setSoldierDie reads a slot.
LEMMA ReadKeeps ==
    ASSUME ArmyInv, NEW i \in 1 .. Len(army), ReadSlot(i)
    PROVE  ArmyInv' /\ StepOK
<1>1. PICK s, t, e, o, d :
         /\ s = Army /\ t = Tally /\ e = [slot |-> i, kind |-> army[i], freed |-> FALSE]
         /\ o = t.over /\ d = [death |-> e, over |-> o]
  OBVIOUS
<1>2. /\ s \in [army : Seq(ArmySlots), count : [Kinds -> Int], popu : Nat]
      /\ o \in [Kinds -> Int]
      /\ \A k \in Kinds : s.count[k] = SlotNum(s.army, k) + Dead(t.death, k) + o[k]
  BY <1>1 DEF ArmyInv, ArmyOK
<1>3. s.army = army /\ t.death = dying
  BY <1>1 DEF Army, Tally
<1>4. army \in Seq(ArmySlots) /\ dying = None
  BY <1>2, <1>3 DEF ReadSlot
<1>5. army[i] \in ArmySlots /\ i \in Nat
  BY <1>4
<1>6. e \in Deaths /\ e.slot = i /\ e.kind = army[i] /\ e.freed = FALSE
  BY <1>1, <1>5 DEF Deaths
<1>7. \A k \in Kinds : Dead(t.death, k) = 0 /\ Dead(e, k) = 0
  BY <1>3, <1>4, <1>6 DEF Dead
<1>8. d.death = e /\ d.over = o
  BY <1>1
<1>9. ArmyOK(s, d)
  BY <1>2, <1>3, <1>6, <1>7, <1>8 DEF ArmyOK
<1>10. Army' = s /\ dying' = e /\ UNCHANGED << online, queue, timer, stored >>
  BY <1>1 DEF ReadSlot, soldiers, Army
<1>11. ASSUME NEW k \in Kinds PROVE d.over[k] = Surplus(k) + (IF Erased(k) THEN 1 ELSE 0)
  <2>1. d.over[k] = Surplus(k)
    BY <1>1, <1>8, TallyIs
  <2> QED
    BY <1>4, <2>1, NotErased, SurplusNumber
<1> QED
  BY <1>8, <1>9, <1>10, <1>11, OnlyArmy

\* The army list a is b with slot i free.
Frees(b, a, i) == a = [b EXCEPT ![i] = Hole]

\* What is in a slot.
LEMMA SlotHolds == ASSUME NEW b \in Seq(ArmySlots), NEW i \in 1 .. Len(b) PROVE b[i] \in ArmySlots
  OBVIOUS

\* A slot that is freed is one soldier less, when it was not free.
LEMMA SlotFreed ==
    ASSUME NEW b \in Seq(ArmySlots), NEW i \in 1 .. Len(b), NEW a, Frees(b, a, i)
    PROVE  /\ a \in Seq(ArmySlots) /\ Len(a) = Len(b)
           /\ \A l \in Kinds : SlotNum(b, l) = SlotNum(a, l) + (IF l = b[i] THEN 1 ELSE 0)
<1>1. a \in Seq(ArmySlots) /\ Len(a) = Len(b) /\ a[i] = Hole /\ \A j \in 1 .. Len(b) : a[j] = IF j = i THEN Hole ELSE b[j]
  <2>1. Hole \in ArmySlots
    BY DEF ArmySlots
  <2> QED
    BY <2>1 DEF Frees
<1>2. PICK k : k = b[i]
  OBVIOUS
<1>3. k \in ArmySlots
  BY <1>2, SlotHolds
<1>4. b = [a EXCEPT ![i] = k]
  <2>1. b = [j \in 1 .. Len(b) |-> b[j]] /\ a = [j \in 1 .. Len(b) |-> a[j]]
    BY <1>1
  <2>3. \A j \in 1 .. Len(b) : [a EXCEPT ![i] = k][j] = b[j]
    BY <1>1, <1>2, <2>1
  <2>4. [a EXCEPT ![i] = k] = [j \in 1 .. Len(b) |-> [a EXCEPT ![i] = k][j]]
    BY <2>1
  <2> QED
    BY <2>1, <2>3, <2>4
<1>5. CASE k \in Kinds
  <2>1. i \in 1 .. Len(a)
    BY <1>1
  <2>2. Fills(a, b, i, k)
    BY <1>1, <1>4, <2>1 DEF Fills
  <2>3. \A l \in Kinds : SlotNum(b, l) = SlotNum(a, l) + (IF l = k THEN 1 ELSE 0)
    BY <1>1, <1>5, <2>2, SlotFilled
  <2> QED
    BY <1>1, <1>2, <2>3
<1>6. CASE k = Hole
  <2>1. a = b
    <3>1. b = [j \in 1 .. Len(b) |-> b[j]] /\ a = [j \in 1 .. Len(b) |-> a[j]]
      BY <1>1
    <3>2. \A j \in 1 .. Len(b) : a[j] = b[j]
      BY <1>1, <1>2, <1>6
    <3> QED
      BY <3>1, <3>2
  <2>2. \A l \in Kinds : l # k
    BY <1>6, ArmyAssumption
  <2>3. \A l \in Kinds : SlotNum(b, l) \in Int
    BY SlotNumber
  <2>4. \A l \in Kinds : SlotNum(b, l) = SlotNum(b, l) + 0
    BY <2>3
  <2> QED
    BY <1>1, <1>2, <2>1, <2>2, <2>4
<1> QED
  BY <1>3, <1>5, <1>6 DEF ArmySlots

\* It frees the slot.
LEMMA FreeKeeps ==
    ASSUME ArmyInv, FreeSlot
    PROVE  ArmyInv' /\ StepOK
<1>1. PICK s, t, d, e : s = Army /\ t = Tally /\ d = dying /\ e = [d EXCEPT !.freed = TRUE]
  OBVIOUS
<1>0. t.death = d /\ (\A k \in Kinds : t.over[k] = Surplus(k))
  BY <1>1, TallyIs DEF Tally
<1>2. /\ s \in [army : Seq(ArmySlots), count : [Kinds -> Int], popu : Nat]
      /\ t.over \in [Kinds -> Int]
      /\ \A k \in Kinds : s.count[k] = SlotNum(s.army, k) + Dead(d, k) + t.over[k]
      /\ d # None /\ ~d.freed /\ d \in Deaths
      /\ d.slot \in 1 .. Len(s.army) /\ (d.kind # Hole => s.army[d.slot] = d.kind)
  BY <1>0, <1>1 DEF ArmyInv, ArmyOK, FreeSlot
<1>3. PICK i, k, a, b : i = d.slot /\ k = d.kind /\ b = army /\ a = [b EXCEPT ![i] = Hole]
  OBVIOUS
<1>4. s.army = b /\ s.count = count /\ s.popu = curPopu
  BY <1>1, <1>3 DEF Army
<1>5. b \in Seq(ArmySlots) /\ i \in 1 .. Len(b) /\ (k # Hole => b[i] = k) /\ k \in ArmySlots
  BY <1>2, <1>3, <1>4 DEF Deaths
<1>6. /\ a \in Seq(ArmySlots) /\ Len(a) = Len(b)
      /\ \A l \in Kinds : SlotNum(b, l) = SlotNum(a, l) + (IF l = b[i] THEN 1 ELSE 0)
  <2>1. Frees(b, a, i)
    BY <1>3 DEF Frees
  <2> QED
    BY <1>5, <2>1, SlotFreed
<1>7. \A l \in Kinds : Erased(l) <=> k = Hole /\ b[i] = l
  BY <1>1, <1>3 DEF Erased
<1>8. PICK gone : gone = [l \in Kinds |-> IF k = Hole /\ b[i] = l THEN 1 ELSE 0]
  OBVIOUS
<1>9. /\ gone \in [Kinds -> Int]
      /\ \A l \in Kinds : gone[l] = IF Erased(l) THEN 1 ELSE 0
  BY <1>7, <1>8
<1>10. e \in Deaths /\ e.slot = i /\ e.kind = k /\ e.freed /\ e # None
  <2>1. e \in Deaths /\ e.slot = i /\ e.kind = k /\ e.freed
    BY <1>1, <1>2, <1>3 DEF Deaths
  <2> QED
    BY <2>1, ArmyAssumption DEF Deaths, ArmySlots
<1>11. PICK r, o, f : /\ r = [army |-> a, count |-> count, popu |-> curPopu]
                      /\ o = [l \in Kinds |-> t.over[l] + gone[l]]
                      /\ f = [death |-> e, over |-> o]
  OBVIOUS
<1>12. /\ r \in [army : Seq(ArmySlots), count : [Kinds -> Int], popu : Nat]
       /\ r.army = a /\ r.count = s.count /\ f.death = e /\ f.over = o
  BY <1>2, <1>4, <1>6, <1>11
<1>o. o \in [Kinds -> Int] /\ \A l \in Kinds : o[l] = t.over[l] + gone[l]
  BY <1>2, <1>9, <1>11
<1>13. ASSUME NEW l \in Kinds PROVE r.count[l] = SlotNum(r.army, l) + Dead(e, l) + o[l]
  <2>1. s.count[l] = SlotNum(b, l) + Dead(d, l) + t.over[l] /\ Dead(d, l) = 0
    BY <1>2, <1>4 DEF Dead
  <2>2. Dead(e, l) = IF l = k THEN 1 ELSE 0
    BY <1>10 DEF Dead
  <2>3. s.count[l] \in Int /\ t.over[l] \in Int /\ gone[l] \in Int
    BY <1>2, <1>9
  <2>4. SlotNum(b, l) = SlotNum(a, l) + Dead(e, l) + gone[l]
    <3>1. SlotNum(b, l) = SlotNum(a, l) + (IF l = b[i] THEN 1 ELSE 0) /\ SlotNum(a, l) \in Int
      BY <1>6, SlotNumber
    <3>2. gone[l] = IF k = Hole /\ b[i] = l THEN 1 ELSE 0
      BY <1>8
    <3>3. CASE k = Hole
      <4>1. l # k
        BY <3>3, ArmyAssumption
      <4>2. Dead(e, l) = 0
        BY <2>2, <4>1
      <4> QED
        BY <3>1, <3>2, <3>3, <4>2
    <3>4. CASE k # Hole
      <4>1. b[i] = k /\ gone[l] = 0
        BY <1>5, <3>2, <3>4
      <4> QED
        BY <2>2, <3>1, <4>1
    <3> QED
      BY <3>3, <3>4
  <2>5. SlotNum(b, l) \in Int /\ SlotNum(a, l) \in Int /\ Dead(e, l) \in Int
    BY <1>5, <1>6, <2>2, SlotNumber
  <2>6. r.count[l] = s.count[l] /\ r.army = a /\ o[l] = t.over[l] + gone[l]
    BY <1>12, <1>o
  <2> QED
    BY <2>1, <2>3, <2>4, <2>5, <2>6
<1>14. ArmyOK(r, f)
  BY <1>5, <1>6, <1>10, <1>12, <1>13, <1>o DEF ArmyOK
<1>15. Army' = r /\ dying' = e /\ UNCHANGED << online, queue, timer, stored >>
  BY <1>1, <1>3, <1>11 DEF FreeSlot, Army
<1>16. \A l \in Kinds : f.over[l] = Surplus(l) + (IF Erased(l) THEN 1 ELSE 0)
  BY <1>0, <1>9, <1>12, <1>o
<1> QED
  BY <1>12, <1>14, <1>15, <1>16, OnlyArmy

\* It takes the number of the kind down.
LEMMA CountKeeps ==
    ASSUME ArmyInv, CountDown
    PROVE  ArmyInv' /\ StepOK
<1>1. PICK s, t, d, o : s = Army /\ t = Tally /\ d = dying /\ o = t.over
  OBVIOUS
<1>0. t.death = d /\ (\A k \in Kinds : o[k] = Surplus(k))
  BY <1>1, TallyIs DEF Tally
<1>2. /\ s \in [army : Seq(ArmySlots), count : [Kinds -> Int], popu : Nat]
      /\ o \in [Kinds -> Int]
      /\ \A k \in Kinds : s.count[k] = SlotNum(s.army, k) + Dead(d, k) + o[k]
      /\ d # None /\ d.freed /\ d \in Deaths
  BY <1>0, <1>1 DEF ArmyInv, ArmyOK, CountDown
<1>3. s.army = army /\ s.count = count /\ s.popu = curPopu
  BY <1>1 DEF Army
<1>4. PICK k, c : k = d.kind /\ c = [l \in Kinds |-> IF l = k THEN count[l] - 1 ELSE count[l]]
  OBVIOUS
<1>6. /\ c \in [Kinds -> Int]
      /\ \A l \in Kinds : c[l] = count[l] - (IF l = k THEN 1 ELSE 0)
  BY <1>2, <1>3, <1>4
<1>7. PICK r, f : r = [army |-> army, count |-> c, popu |-> curPopu] /\ f = [death |-> None, over |-> o]
  OBVIOUS
<1>8. /\ r \in [army : Seq(ArmySlots), count : [Kinds -> Int], popu : Nat] /\ r.army = army /\ r.count = c
      /\ f.death = None /\ f.over = o
  BY <1>2, <1>3, <1>6, <1>7
<1>9. ASSUME NEW l \in Kinds PROVE r.count[l] = SlotNum(r.army, l) + Dead(None, l) + o[l]
  <2>1. Dead(None, l) = 0 /\ Dead(d, l) = IF l = k THEN 1 ELSE 0
    BY <1>2, <1>4 DEF Dead
  <2>2. count[l] = SlotNum(army, l) + Dead(d, l) + o[l] /\ c[l] = count[l] - Dead(d, l)
    BY <1>2, <1>3, <1>6, <2>1
  <2>3. SlotNum(army, l) \in Int /\ o[l] \in Int
    BY <1>2, <1>3, SlotNumber
  <2>4. Dead(d, l) \in Int
    BY <2>1
  <2> QED
    BY <1>8, <2>1, <2>2, <2>3, <2>4
<1>10. ArmyOK(r, f)
  BY <1>2, <1>8, <1>9 DEF ArmyOK
<1>11. Army' = r /\ dying' = None /\ UNCHANGED << online, queue, timer, stored >>
  BY <1>1, <1>4, <1>7 DEF CountDown, Army
<1>12. ASSUME NEW l \in Kinds PROVE f.over[l] = Surplus(l) + (IF Erased(l) THEN 1 ELSE 0)
  <2>1. f.over[l] = Surplus(l)
    BY <1>0, <1>8
  <2> QED
    BY <1>11, <2>1, NotErased, SurplusNumber
<1> QED
  BY <1>8, <1>10, <1>11, <1>12, OnlyArmy

\* Every step keeps it, and saves what it changes.
LEMMA ArmyKeeps == ArmyInv /\ [Next]_vars => ArmyInv' /\ (StepOK \/ UNCHANGED vars)
<1> SUFFICES ASSUME ArmyInv, [Next]_vars PROVE ArmyInv' /\ (StepOK \/ UNCHANGED vars)
  OBVIOUS
<1>1. CASE UNCHANGED vars
  <2>1. ArmyOK(Army', Tally')
    BY <1>1, SameArmy DEF vars
  <2> QED
    BY <1>1, <2>1 DEF vars, ArmyInv
<1>2. CASE PlayerRequest
  BY <1>2, ArmyLoginKeeps, ArmyLogoutKeeps, AddKeeps, DelKeeps, CompleteKeeps DEF PlayerRequest
<1>3. CASE Timers
  BY <1>3, ExpireKeeps, TimeIsUpKeeps DEF Timers
<1>4. CASE Tick
  BY <1>4, TickKeeps
<1>5. CASE Crash
  BY <1>5, CrashKeeps
<1>6. CASE SoldierDie
  BY <1>6, ReadKeeps, FreeKeeps, CountKeeps DEF SoldierDie
<1> QED
  BY <1>1, <1>2, <1>3, <1>4, <1>5, <1>6 DEF Next

\* It is an invariant.
LEMMA ArmyAlways == Spec => []ArmyInv
  BY ArmyStart, ArmyKeeps, PTL DEF Spec

\* What it says of the time shown.
LEMMA ArmyAgrees == ArmyInv => TimeShown
<1> SUFFICES ASSUME ArmyInv, NEW c \in Camps, Busy(c), ~queue[c].block, queue[c].age < Horizon
             PROVE  /\ CampInfo(c).time_remain = timer[c].exp
                    /\ timer[c].armed \/ timer[c].ready > 0
  BY DEF TimeShown
<1>1. QueueOK(queue[c], timer[c]) /\ queue[c] # None /\ queue[c].armys # << >>
  BY DEF Busy, ArmyInv
<1>2. /\ timer[c].exp = BuildTime[Head(queue[c].armys).kind] - queue[c].age
      /\ timer[c].armed \/ timer[c].ready > 0
  BY <1>1 DEF QueueOK
<1>3. CampInfo(c).time_remain = TimeRemain(c)
  BY DEF CampInfo
<1>4. TimeRemain(c) = BuildTime[Head(queue[c].armys).kind] - queue[c].age
  BY <1>1 DEF TimeRemain
<1> QED
  BY <1>2, <1>3, <1>4

\* CountAgrees: in every step that the small map worker or the PvP worker makes, however
\* building, completion, restoration, ends of the worker and deaths in three commands
\* interleave, the number kept per kind changes as the slots of the kind do; but for the
\* freeing of a slot that a death reported twice had read as free, and that was filled.
THEOREM SoldiersCounted == Spec => CountAgrees
<1>1. ArmyInv /\ [Next]_vars => [CountStep]_vars
  BY ArmyKeeps DEF StepOK
<1> QED
  BY <1>1, ArmyAlways, PTL DEF Spec, CountAgrees, CountStep

\* SavedAtOnce: whatever changes the orders of a player who is there writes them to redis,
\* and when the worker ends, in a handler or between two commands of a write, one camp at
\* most is left without its list.
THEOREM OrdersSaved == Spec => SavedAtOnce
<1>1. ArmyInv /\ [Next]_vars => [SavedStep]_vars
  BY ArmyKeeps DEF StepOK
<1> QED
  BY <1>1, ArmyAlways, PTL DEF Spec, SavedAtOnce, SavedStep

-----------------------------------------------------------------------------
(* All that one player has.                                                *)

PlayerInv == ArmyInv /\ CityInv /\ GoodsInv /\ HeroesInv

\* The parts take turns, so what each keeps is kept.
LEMMA PlayerKeeps == PlayerInv /\ [PlayerNext]_playerVars => PlayerInv'
<1> SUFFICES ASSUME ArmyInv, CityInv, GoodsInv, HeroesInv, [PlayerNext]_playerVars
             PROVE  ArmyInv' /\ CityInv' /\ GoodsInv' /\ HeroesInv'
  BY DEF PlayerInv
<1>1. [Next]_vars /\ [CityNext]_cityVars /\ [GoodsNext]_goodsVars /\ [HeroesNext]_heroVars
  BY DEF PlayerNext, InArmy, InCity, InGoods, InHeroes, playerVars
<1>2. ArmyInv'
  BY <1>1, ArmyKeeps
<1>3. CityInv'
  BY <1>1, CityKeeps
<1>4. GoodsInv'
  BY <1>1, GoodsAssumption, StepGoods
<1>5. HeroesInv'
  BY <1>1, HeroesStep
<1> QED
  BY <1>2, <1>3, <1>4, <1>5

\* MemoryAgrees: what gateway and army worker hold of a player who is online is what redis
\* has, and what he is shown is what the timers have to go, after any of his requests,
\* logouts and logins, timers, restarts and deaths.
THEOREM PlayerRemembered == PlayerSpec => []MemoryAgrees
<1>1. PlayerInit => PlayerInv
  BY ArmyStart, CityStart, GoodsAssumption, InitGoods, HeroesStart DEF PlayerInit, PlayerInv
<1>2. PlayerInv => MemoryAgrees
  BY ArmyAgrees, CityAgrees, GoodsAssumption, MarketAgrees, MemoryAndRedis, HeroesInPlace
     DEF PlayerInv, MemoryAgrees
<1> QED
  BY <1>1, <1>2, PlayerKeeps, PTL DEF PlayerSpec

=============================================================================
