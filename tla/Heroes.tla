------------------------------- MODULE Heroes -------------------------------
(***************************************************************************)
(* The heroes of one player in the gateway: three offered ones that a      *)
(* recruitment replaces, and those in service, each in a position.  Redis  *)
(* has one record a hero; its `where` says where the hero is: 0 in         *)
(* service, 1 offered, and, set by an appointment, the number of a job.    *)
(***************************************************************************)
EXTENDS Integers, FiniteSets

CONSTANTS
    HeroIds,        \* hero_uuid, the bound on the heroes drawn
    Positions,      \* indices of my_hero a hero may be taken to, 1 .. n
    Offers,         \* indices of rand_hero, 1 .. n
    Jobs,           \* job_title of AppointHeroRequest
    RecruitCost, HeroDiamonds,
    NoHero

ASSUME HeroesAssumption ==
    /\ Positions \subseteq Nat /\ Offers \subseteq Nat
    /\ Jobs \subseteq Nat \ {0}
    /\ NoHero \notin HeroIds
    /\ RecruitCost \in Nat /\ HeroDiamonds \in Nat

VARIABLES
    hero_here,      \* the player is logged in
    my_hero,        \* [Positions -> hero], in memory
    rand_hero,      \* [Offers -> hero], in memory
    where,          \* [heroes in memory -> where]
    hero_records,   \* [heroes with a record -> [hero_sn, where]], in redis
    drawn,          \* the heroes drawn so far
    purse           \* my_attribute.diamond

heroVars == << hero_here, my_hero, rand_hero, where, hero_records, drawn,
               purse >>

Recorded == DOMAIN hero_records
InService == {my_hero[i] : i \in Positions} \ {NoHero}
Offered == {rand_hero[i] : i \in Offers} \ {NoHero}

(* A HeroResponse: its attributes are drawn at random and only carried     *)
(* along; hero_sn is the place, where 0 in service, 1 offered, or a job.   *)
HeroRecord(i, w) == [hero_sn |-> i, where |-> w]

Put(f, x, v) == [y \in DOMAIN f \cup {x} |-> IF y = x THEN v ELSE f[y]]
First(S) == CHOOSE x \in S : \A y \in S : x <= y

HeroesInit ==
    /\ hero_here = TRUE
    /\ my_hero = [i \in Positions |-> NoHero]
    /\ rand_hero = [i \in Offers |-> NoHero]
    /\ where = << >>
    /\ hero_records = << >>
    /\ drawn = {}
    /\ purse = HeroDiamonds

(***************************************************************************)
(* get_all_hero: where <= 0 goes to its position, 1 among the offers, any  *)
(* other is left out.  Two records for one place: the later one stays.     *)
(***************************************************************************)
Candidates(i, w) ==
    {x \in Recorded : hero_records[x].hero_sn = i /\ hero_records[x].where = w}

Loaded(places, w) ==
    {f \in [places -> HeroIds \cup {NoHero}] :
        \A i \in places : IF Candidates(i, w) = {} THEN f[i] = NoHero
                          ELSE f[i] \in Candidates(i, w)}

HeroesLogin ==
    /\ ~hero_here
    /\ hero_here' = TRUE
    /\ my_hero' \in Loaded(Positions, 0)
    /\ rand_hero' \in Loaded(Offers, 1)
    /\ where' = [x \in InService' \cup Offered' |-> hero_records[x].where]
    /\ UNCHANGED << hero_records, drawn, purse >>

HeroesClose ==
    /\ hero_here
    /\ hero_here' = FALSE
    /\ my_hero' = [i \in Positions |-> NoHero]
    /\ rand_hero' = [i \in Offers |-> NoHero]
    /\ where' = << >>
    /\ UNCHANGED << hero_records, drawn, purse >>

(* Three new heroes: quality, attributes and growth are drawn at random    *)
(* and change nothing below; the ids are fresh.                            *)
Drawn ==
    {new \in [Offers -> HeroIds \ drawn] :
        \A i, j \in Offers : new[i] = new[j] => i = j}

(* RecruitRequestService, refresh_random_hero: the offers are replaced,    *)
(* the records of the old ones deleted.                                    *)
Recruit ==
    /\ hero_here
    /\ purse >= RecruitCost
    /\ \E new \in Drawn :
          LET drawnNow == {new[i] : i \in Offers}
              kept == Recorded \ Offered
          IN /\ rand_hero' = new
             /\ drawn' = drawn \cup drawnNow
             /\ where' = [x \in InService \cup drawnNow |->
                             IF x \in drawnNow THEN 1 ELSE where[x]]
             /\ hero_records' = [x \in kept \cup drawnNow |->
                   IF x \in drawnNow
                   THEN HeroRecord(CHOOSE i \in Offers : new[i] = x, 1)
                   ELSE hero_records[x]]
    /\ purse' = purse - RecruitCost
    /\ UNCHANGED << hero_here, my_hero >>

\* Faulty variant: the hero stays among the offers.
OfferKept(i) == rand_hero

(* GetRandHeroRequestService: an offered hero takes the first position     *)
(* that is free in memory.                                                 *)
OfferTaken(i) == [rand_hero EXCEPT ![i] = NoHero]

GetRandHero(i) ==
    /\ hero_here
    /\ rand_hero[i] # NoHero
    /\ LET free == {j \in Positions : my_hero[j] = NoHero}
           x == rand_hero[i]
       IN /\ free # {}
          /\ my_hero' = [my_hero EXCEPT ![First(free)] = x]
          /\ where' = [where EXCEPT ![x] = 0]
          /\ hero_records' = Put(hero_records, x, HeroRecord(First(free), 0))
    /\ rand_hero' = OfferTaken(i)
    /\ UNCHANGED << hero_here, drawn, purse >>

(* AppointHeroRequestService: whoever has the job returns to service, even *)
(* when the appointed hero is not found.                                   *)
PositionOf(x) == First({i \in Positions : my_hero[i] = x})

Appoint(x, job) ==
    /\ hero_here
    /\ LET holders == {i \in Positions : /\ my_hero[i] # NoHero
                                         /\ where[my_hero[i]] = job}
           back == IF holders = {} THEN {} ELSE {my_hero[First(holders)]}
           changed == back \cup ({x} \cap InService)
           title(y) == IF y = x THEN job ELSE 0
       IN /\ changed # {}
          /\ where' = [y \in DOMAIN where |->
                          IF y \in changed THEN title(y) ELSE where[y]]
          /\ hero_records' = [y \in Recorded \cup changed |->
                IF y \in changed
                THEN HeroRecord(PositionOf(y), title(y))
                ELSE hero_records[y]]
    /\ UNCHANGED << hero_here, my_hero, rand_hero, drawn, purse >>

(* CancelHeroRequestService *)
Cancel(x) ==
    /\ hero_here
    /\ x \in InService
    /\ where' = [where EXCEPT ![x] = 0]
    /\ hero_records' = Put(hero_records, x, HeroRecord(PositionOf(x), 0))
    /\ UNCHANGED << hero_here, my_hero, rand_hero, drawn, purse >>

HeroesNext ==
    \/ HeroesLogin
    \/ HeroesClose
    \/ Recruit
    \/ \E i \in Offers : GetRandHero(i)
    \/ \E x \in InService : Cancel(x)
    \/ \E x \in HeroIds, job \in Jobs : Appoint(x, job)

HeroesSpec == HeroesInit /\ [][HeroesNext]_heroVars

-----------------------------------------------------------------------------
(* Every hero in memory has one place, so that OnClose deletes it once,    *)
(* and a record that says the same: the next login finds the heroes that   *)
(* are in service where they stand now.                                    *)
HeroesAgree ==
    hero_here =>
      /\ \A i \in Positions : my_hero[i] # NoHero =>
            /\ my_hero[i] \notin Offered
            /\ my_hero[i] \in Recorded
            /\ hero_records[my_hero[i]] = HeroRecord(i, where[my_hero[i]])
      /\ \A x \in Recorded : hero_records[x].where = 0 =>
            my_hero[hero_records[x].hero_sn] = x
=============================================================================
