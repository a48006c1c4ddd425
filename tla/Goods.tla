------------------------------- MODULE Goods -------------------------------
(***************************************************************************)
(* Equipment and the market of the gateway: what players find in boxes,    *)
(* wear, put on sale, buy from each other and get back by e-mail.          *)
(*                                                                         *)
(* A LoginWorker holds its player's backpack, worn equipment and e-mails   *)
(* in memory; the market is one vector with an index; redis holds it all.  *)
(* A handler runs in the gateway's one thread and sends redis one command  *)
(* after the other, so that nothing comes between them but the end of the  *)
(* gateway: the actions named Cut.  A player has one hero in service; the  *)
(* time goods may stay on the market is left out: a good may come back at  *)
(* any time.  Left out too is the e-mail that comes back without an equip  *)
(* when the gateway ends between the two records of set_email_sale, or     *)
(* between the two deletions of GetEmailGoods; the equip itself is not.    *)
(***************************************************************************)
EXTENDS Integers, Sequences, SequencesExt, FiniteSets

CONSTANTS
    Players,
    Equips,         \* serial numbers OpenBox may draw
    Nameless,       \* players who have chosen no name yet
    Nobody,         \* stands for a uuid that is no player's
    BackpackNum,    \* [Players -> backpack_num]
    HeroSlots,      \* slots of the hero
    Prices,
    PageSize,       \* goods on a page of the market, 5
    StartBalance,
    MaxMails,       \* bound on the e-mails sent
    MaxDiamonds,    \* bound on the diamonds of a player whose e-mail stays
    NoEquip

ASSUME GoodsAssumption ==
    /\ Nameless \subseteq Players /\ Nobody \notin Players
    /\ BackpackNum \in [Players -> Nat]
    /\ HeroSlots \subseteq Nat /\ HeroSlots # {}
    /\ Prices \subseteq Nat \ {0} /\ PageSize \in Nat \ {0}
    /\ NoEquip \notin Equips

VARIABLES
    connected,         \* players with an entry in UuidHandlerPoitiner
    diamond,        \* [Players -> balance], in memory and in mysql
    my_backpack,    \* [Players -> [Slots(p) -> equipment]], NoEquip: status false
    hero_equip,     \* [Players -> [HeroSlots -> equipment]]
    email_list,     \* [Players -> e-mails in memory]
    market,         \* gloabal_market
    market_index,   \* [serial number -> position in it]
    equip_records,  \* [Players -> equip#uid#sn], a set of records
    market_records, \* market#sn
    mail_records,   \* [Players -> email_sale#uid#id]
    made,           \* the equipment found so far
    mails,          \* e-mails sent so far, the next one's email_uuid
    lost,           \* equipment taken from one place and put in no other
    torn            \* [Players -> slots of the backpack that two equips have]

goodsVars == << connected, diamond, my_backpack, hero_equip, email_list,
                market, market_index, equip_records, market_records,
                mail_records,
                made, mails, lost, torn >>

shop == << market, market_index, market_records >>

Smallest(S) == CHOOSE x \in S : \A y \in S : x <= y
Slots(p) == 0 .. BackpackNum[p] - 1
Empty(slots) == [i \in slots |-> NoEquip]

(* GetBackpack: the free slots; the first one is taken. *)
Free(p) == {i \in Slots(p) : my_backpack[p][i] = NoEquip}

(* An equip record: witch_pannle 0 is the backpack, 1 a hero, 2 an e-mail. *)
EquipRecord(e, pannle, position, mail) ==
    [sn |-> e, pannle |-> pannle, position |-> position, mail |-> mail]

WithEquip(records, r) == {x \in records : x.sn # r.sn} \cup {r}
WithoutEquip(records, e) == {x \in records : x.sn # e}

Good(e, p, cost) == [sn |-> e, player |-> p, cost |-> cost]
Mail(id, amount, e) == [id |-> id, diamond |-> amount, equip |-> e]

GoodsInit ==
    /\ connected = {}
    /\ diamond = [p \in Players |-> StartBalance]
    /\ my_backpack = [p \in Players |-> Empty(Slots(p))]
    /\ hero_equip = [p \in Players |-> Empty(HeroSlots)]
    /\ email_list = [p \in Players |-> {}]
    /\ market = << >>
    /\ market_index = << >>
    /\ equip_records = [p \in Players |-> {}]
    /\ market_records = {}
    /\ mail_records = [p \in Players |-> {}]
    /\ made = {}
    /\ mails = 0
    /\ lost = {}
    /\ torn = [p \in Players |-> {}]

(***************************************************************************)
(* get_equip_list at the login reads the records in any order; the last    *)
(* one of a slot stays in it.  An equip of an e-mail brings the e-mail     *)
(* back even if its own record was deleted.                                *)
(***************************************************************************)
At(p, pannle, i) ==
    {r.sn : r \in {x \in equip_records[p] : x.pannle = pannle /\ x.position = i}}

Filled(p, pannle, slots) ==
    {f \in [slots -> Equips \cup {NoEquip}] :
        \A i \in slots : IF At(p, pannle, i) = {} THEN f[i] = NoEquip
                          ELSE f[i] \in At(p, pannle, i)}

MailsOf(p) ==
    {m \in mail_records[p] : m.diamond > 0}
    \cup {Mail(r.mail, 0, r.sn) : r \in {x \in equip_records[p] :
                                             x.pannle = 2}}

GoodsLogin(p) ==
    /\ p \notin connected
    /\ connected' = connected \cup {p}
    /\ \E b \in Filled(p, 0, Slots(p)) : my_backpack' = [my_backpack EXCEPT ![p] = b]
    /\ \E h \in Filled(p, 1, HeroSlots) : hero_equip' = [hero_equip EXCEPT ![p] = h]
    /\ email_list' = [email_list EXCEPT ![p] = MailsOf(p)]
    /\ UNCHANGED << diamond, shop, equip_records, mail_records, made, mails, lost,
                    torn >>

GoodsClose(p) ==
    /\ p \in connected
    /\ connected' = connected \ {p}
    /\ my_backpack' = [my_backpack EXCEPT ![p] = Empty(Slots(p))]
    /\ hero_equip' = [hero_equip EXCEPT ![p] = Empty(HeroSlots)]
    /\ email_list' = [email_list EXCEPT ![p] = {}]
    /\ UNCHANGED << diamond, shop, equip_records, mail_records, made, mails, lost,
                    torn >>

(* The gateway ends and starts again: get_market_list in any order. *)
Restart(records) ==
    /\ connected' = {}
    /\ my_backpack' = [p \in Players |-> Empty(Slots(p))]
    /\ hero_equip' = [p \in Players |-> Empty(HeroSlots)]
    /\ email_list' = [p \in Players |-> {}]
    /\ market_records' = records
    /\ \E order \in SetToSeqs(records) :
          /\ market' = order
          /\ market_index' = [e \in {g.sn : g \in records} |->
                                 CHOOSE i \in DOMAIN order : order[i].sn = e]

GatewayRestarts ==
    /\ Restart(market_records)
    /\ UNCHANGED << diamond, equip_records, mail_records, made, mails, lost, torn >>

(* OpenBoxRequestService *)
OpenBox(p) ==
    /\ p \in connected
    /\ Free(p) # {}
    /\ \E e \in Equips \ made :
          /\ made' = made \cup {e}
          /\ my_backpack' = [my_backpack EXCEPT ![p][Smallest(Free(p))] = e]
          /\ equip_records' = [equip_records EXCEPT ![p] =
                 WithEquip(@, EquipRecord(e, 0, Smallest(Free(p)), NoEquip))]
    /\ UNCHANGED << connected, diamond, hero_equip, email_list, shop,
                    mail_records, mails, lost, torn >>

\* Faulty variant: the equip that is taken off is not recorded.
PutBackOnly(records, dressed, undressed) ==
    IF undressed.sn = NoEquip
    THEN WithEquip(records, dressed)
    ELSE WithEquip(records, undressed)

(***************************************************************************)
(* DressEquipRequestService: the equip goes to the hero, and the one it    *)
(* takes the place of is written to the backpack first.                    *)
(***************************************************************************)
Exchanged(records, dressed, undressed) ==
    IF undressed.sn = NoEquip
    THEN WithEquip(records, dressed)
    ELSE WithEquip(WithEquip(records, undressed), dressed)

DressEquip(p, i, j) ==
    /\ p \in connected
    /\ my_backpack[p][i] # NoEquip
    /\ LET e == my_backpack[p][i]
           worn == hero_equip[p][j]
       IN /\ my_backpack' = [my_backpack EXCEPT ![p][i] = worn]
          /\ hero_equip' = [hero_equip EXCEPT ![p][j] = e]
          /\ equip_records' = [equip_records EXCEPT ![p] =
                 Exchanged(@, EquipRecord(e, 1, j, NoEquip),
                              EquipRecord(worn, 0, i, NoEquip))]
    /\ UNCHANGED << connected, diamond, email_list, shop, mail_records, made,
                    mails, lost, torn >>

(* Only the first of the two records was written. *)
DressCut(p, i, j) ==
    /\ p \in connected
    /\ my_backpack[p][i] # NoEquip /\ hero_equip[p][j] # NoEquip
    /\ equip_records' = [equip_records EXCEPT ![p] =
           WithEquip(@, EquipRecord(hero_equip[p][j], 0, i, NoEquip))]
    /\ torn' = [torn EXCEPT ![p] = @ \cup {i}]
    /\ Restart(market_records)
    /\ UNCHANGED << diamond, mail_records, made, mails, lost >>

(* UnloadEquipRequestService *)
UnloadEquip(p, j) ==
    /\ p \in connected
    /\ hero_equip[p][j] # NoEquip
    /\ Free(p) # {}
    /\ LET e == hero_equip[p][j]
           i == Smallest(Free(p))
       IN /\ my_backpack' = [my_backpack EXCEPT ![p][i] = e]
          /\ equip_records' = [equip_records EXCEPT ![p] =
                 WithEquip(@, EquipRecord(e, 0, i, NoEquip))]
    /\ hero_equip' = [hero_equip EXCEPT ![p][j] = NoEquip]
    /\ UNCHANGED << connected, diamond, email_list, shop, mail_records, made,
                    mails, lost, torn >>

(* set_market: one record, one element, one entry of the index. *)
SetMarket(g) ==
    /\ market_records' = market_records \cup {g}
    /\ market' = Append(market, g)
    /\ market_index' = [e \in DOMAIN market_index \cup {g.sn} |->
                           IF e = g.sn THEN Len(market) + 1
                           ELSE market_index[e]]

(***************************************************************************)
(* del_market: the last element takes the place of the deleted one.        *)
(***************************************************************************)
Reindex(e) ==
    [x \in DOMAIN market_index \ {e} |->
        IF x = Last(market).sn THEN market_index[e] ELSE market_index[x]]

DelMarket(e) ==
    /\ market' = Front([market EXCEPT ![market_index[e]] = Last(market)])
    /\ market_index' = Reindex(e)
    /\ market_records' = {g \in market_records : g.sn # e}

\* Faulty variant: the sold equip keeps its record.
KeepEquip(records, e) == records

(* RedisChatWorker::del_equip *)
DelEquip(records, e) == WithoutEquip(records, e)

(***************************************************************************)
(* SaleGoodsRequestService.  Its test of the position refuses nothing, but *)
(* a slot beyond backpack_num is never taken; positions outside of the     *)
(* arrays' 64 slots, which read other memory, are not modelled.            *)
(***************************************************************************)
SaleGoods(p, i, cost) ==
    /\ p \in connected
    /\ my_backpack[p][i] # NoEquip
    /\ equip_records' = [equip_records EXCEPT ![p] =
                             DelEquip(@, my_backpack[p][i])]
    /\ my_backpack' = [my_backpack EXCEPT ![p][i] = NoEquip]
    /\ SetMarket(Good(my_backpack[p][i], p, cost))
    /\ UNCHANGED << connected, diamond, hero_equip, email_list, mail_records,
                    made, mails, lost, torn >>

(* The record of the equip is deleted and that of the good not written. *)
SaleCut(p, i) ==
    /\ p \in connected
    /\ my_backpack[p][i] # NoEquip
    /\ equip_records' = [equip_records EXCEPT ![p] =
                             DelEquip(@, my_backpack[p][i])]
    /\ lost' = lost \cup {my_backpack[p][i]}
    /\ Restart(market_records)
    /\ UNCHANGED << diamond, mail_records, made, mails, torn >>

(***************************************************************************)
(* find_user_uuid by the seller's name, which is never taken from a player *)
(* who has one.  It does not find the "Not Exsit Name" of a player without *)
(* a name, and its callers use the uuid all the same: it was never set.    *)
(***************************************************************************)
Addressee(p) == IF p \in Nameless THEN Players \cup {Nobody} ELSE {p}

(* An e-mail to player p: in redis and, if p is online, in memory. *)
Send(p, m) ==
    /\ mails' = mails + 1
    /\ IF p = Nobody THEN UNCHANGED << mail_records, email_list >>
       ELSE /\ mail_records' = [mail_records EXCEPT ![p] = @ \cup {m}]
            /\ email_list' = [email_list EXCEPT ![p] =
                                  IF p \in connected THEN @ \cup {m} ELSE @]

(* LookMarketGoodsRequestService: a page of the market; pages out of range *)
(* are refused, the last one may be empty.                                 *)
AllPages == Len(market) \div PageSize + 1

MarketList(page) ==
    {market[i] : i \in {j \in DOMAIN market :
                           (page - 1) * PageSize < j /\ j <= page * PageSize}}

(***************************************************************************)
(* BuyMarketGoodsRequestService.  The e-mail's amount is read through a    *)
(* reference into the market after del_market: it is the price of the good *)
(* that took the place, or what the freed last element still holds.        *)
(***************************************************************************)
PriceLeft(e) == Last(market).cost

MayBuy(p, e) ==
    /\ p \in connected
    /\ e \in DOMAIN market_index
    /\ Free(p) # {}
    /\ diamond[p] >= market[market_index[e]].cost

Charge(p, e) ==
    diamond' = [diamond EXCEPT ![p] = @ - market[market_index[e]].cost]

Bought(p, e) == EquipRecord(e, 0, Smallest(Free(p)), NoEquip)

BuyMarketGoods(p, e) ==
    /\ MayBuy(p, e)
    /\ mails < MaxMails
    /\ Charge(p, e)
    /\ my_backpack' = [my_backpack EXCEPT ![p][Smallest(Free(p))] = e]
    /\ equip_records' = [equip_records EXCEPT ![p] = WithEquip(@, Bought(p, e))]
    /\ DelMarket(e)
    /\ \E q \in Addressee(market[market_index[e]].player) :
          Send(q, Mail(mails, PriceLeft(e), NoEquip))
    /\ UNCHANGED << connected, hero_equip, made, lost, torn >>

(***************************************************************************)
(* The buyer has paid, and that is all; or the good is deleted as well; or *)
(* the buyer has it and only the seller's e-mail is not written.           *)
(***************************************************************************)
BuyCut(p, e) ==
    /\ MayBuy(p, e)
    /\ Charge(p, e)
    /\ \/ /\ Restart(market_records)
          /\ UNCHANGED << equip_records, lost >>
       \/ /\ Restart({g \in market_records : g.sn # e})
          /\ lost' = lost \cup {e}
          /\ UNCHANGED equip_records
       \/ /\ Restart({g \in market_records : g.sn # e})
          /\ equip_records' = [equip_records EXCEPT ![p] =
                                   WithEquip(@, Bought(p, e))]
          /\ UNCHANGED lost
    /\ UNCHANGED << mail_records, made, mails, torn >>

(* HeartCheck finds a good whose time is over: PushNotify. *)
PushNotify(e) ==
    /\ e \in DOMAIN market_index
    /\ mails < MaxMails
    /\ \E q \in Addressee(market[market_index[e]].player) :
          /\ IF q = Nobody
             THEN lost' = lost \cup {e} /\ UNCHANGED equip_records
             ELSE /\ equip_records' = [equip_records EXCEPT ![q] =
                         WithEquip(@, EquipRecord(e, 2, 0, mails))]
                  /\ UNCHANGED lost
          /\ Send(q, Mail(mails, 0, e))
    /\ DelMarket(e)
    /\ UNCHANGED << connected, diamond, my_backpack, hero_equip, made, torn >>

(* The good is deleted and the record of the equip not written. *)
PushCut(e) ==
    /\ e \in DOMAIN market_index
    /\ lost' = lost \cup {e}
    /\ Restart({g \in market_records : g.sn # e})
    /\ UNCHANGED << diamond, equip_records, mail_records, made, mails, torn >>

\* Faulty variant: the e-mail is deleted in memory only.
MailKept(records, m) == records

(***************************************************************************)
(* GetEmailGoodsRequestService.  With a full backpack the e-mail is        *)
(* deleted all the same; the equip's record stays and brings it back.      *)
(***************************************************************************)
MailDropped(records, m) == {x \in records : x.id # m.id}

GetEmailGoods(p, m) ==
    /\ p \in connected
    /\ m \in email_list[p]
    /\ diamond' = [diamond EXCEPT ![p] = @ + m.diamond]
    /\ IF m.diamond <= 0 /\ Free(p) # {}
       THEN /\ my_backpack' = [my_backpack EXCEPT
                                   ![p][Smallest(Free(p))] = m.equip]
            /\ equip_records' = [equip_records EXCEPT ![p] =
                   WithEquip(@, EquipRecord(m.equip, 0, Smallest(Free(p)),
                                            NoEquip))]
       ELSE UNCHANGED << my_backpack, equip_records >>
    /\ mail_records' = [mail_records EXCEPT ![p] = MailDropped(@, m)]
    /\ email_list' = [email_list EXCEPT ![p] = @ \ {m}]
    /\ UNCHANGED << connected, hero_equip, shop, made, mails, lost, torn >>

(* The diamonds are the player's and the e-mail is not deleted. *)
EmailCut(p, m) ==
    /\ p \in connected
    /\ m \in email_list[p]
    /\ m.diamond > 0
    /\ diamond[p] < MaxDiamonds /\ mails < MaxMails
    /\ diamond' = [diamond EXCEPT ![p] = @ + m.diamond]
    /\ Restart(market_records)
    /\ UNCHANGED << equip_records, mail_records, made, mails, lost, torn >>

GoodsNext ==
    \/ GatewayRestarts
    \/ \E p \in Players :
          \/ GoodsLogin(p)
          \/ GoodsClose(p)
          \/ OpenBox(p)
          \/ \E i \in Slots(p), j \in HeroSlots :
                DressEquip(p, i, j) \/ DressCut(p, i, j)
          \/ \E j \in HeroSlots : UnloadEquip(p, j)
          \/ \E i \in Slots(p), c \in Prices : SaleGoods(p, i, c)
          \/ \E i \in Slots(p) : SaleCut(p, i)
          \/ \E e \in DOMAIN market_index : BuyMarketGoods(p, e) \/ BuyCut(p, e)
          \/ \E m \in email_list[p] : GetEmailGoods(p, m) \/ EmailCut(p, m)
    \/ \E e \in DOMAIN market_index : PushNotify(e) \/ PushCut(e)

GoodsSpec == GoodsInit /\ [][GoodsNext]_goodsVars

-----------------------------------------------------------------------------
(* Whatever is dressed, sold, bought and sent back in between, and at      *)
(* whatever command the gateway ends, no equip is ever doubled: redis has  *)
(* one record of it, at one player or on the market.  None is lost but     *)
(* where the code loses it: the gateway ends between the deletion of one   *)
(* record and the other one, or a good goes back to a uuid never set.      *)
KeptOnce ==
    \A e \in made :
        Cardinality({p \in Players :
                        \E r \in equip_records[p] : r.sn = e})
        + Cardinality({g \in market_records : g.sn = e})
            = IF e \in lost THEN 0 ELSE 1

(* What an online player sees in a slot is what redis has for that slot,   *)
(* and no second equip has the slot: a login would hide one of the two.    *)
(* That is what an exchange of equip cut in two leaves behind: of such a   *)
(* slot what is seen is in redis, but not all of it is seen.               *)
SlotsAgree ==
    \A p \in connected : \A e \in Equips :
        /\ \A i \in Slots(p) :
              /\ my_backpack[p][i] = e =>
                    \E r \in equip_records[p] :
                        r.sn = e /\ r.pannle = 0 /\ r.position = i
              /\ i \notin torn[p] =>
                    \A r \in equip_records[p] :
                        r.sn = e /\ r.pannle = 0 /\ r.position = i
                            => my_backpack[p][i] = e
        /\ \A j \in HeroSlots :
              hero_equip[p][j] = e <=>
                 \E r \in equip_records[p] :
                     r.sn = e /\ r.pannle = 1 /\ r.position = j

(* The index leads to every good of the market and nowhere else, and the   *)
(* market in memory is the one in redis, after any sales and removals.  A  *)
(* good is on one of the pages that clients may ask for.                   *)
MarketIndexed ==
    /\ DOMAIN market_index = {g.sn : g \in market_records}
    /\ \A e \in DOMAIN market_index :
          /\ market_index[e] \in DOMAIN market
          /\ market[market_index[e]].sn = e
    /\ ToSet(market) = market_records
    /\ \A good \in market_records :
          Cardinality({n \in 1 .. AllPages : good \in MarketList(n)}) = 1

(* An e-mail is in memory of its online player exactly while redis has it. *)
(* So its diamonds are taken once, unless the gateway ends between the     *)
(* payment and the deletion: then they can be taken again.                 *)
MailsAgree ==
    \A p \in connected :
        {m \in email_list[p] : m.diamond > 0}
            = {m \in mail_records[p] : m.diamond > 0}
=============================================================================
