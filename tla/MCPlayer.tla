------------------------------ MODULE MCPlayer ------------------------------
(***************************************************************************)
(* What one player builds, trains, owns and commands: the gateway's player *)
(* logic and the army queues of the small map worker in one instance.      *)
(* The parts touch each other only through the balances of resources and   *)
(* diamonds, of which each part has its own here, so that a behaviour of   *)
(* all is one of each; `part` names the part that moves.                   *)
(***************************************************************************)
EXTENDS Army, City, Goods, Heroes, TLC

VARIABLE part

CONSTANTS hall, mill, plot, civil, factory, p1, p2, quick, slow, elite

\* City: a hall and a factory at the start and a plot for a second factory.
\* A hall takes longer than the longest timer, a factory does not.
Started == (hall :> civil) @@ (mill :> factory)
AtLevelOne == [s \in {hall, mill} |-> 1]
BuildCosts == (civil :> 1) @@ (factory :> 1)
Gems == (civil :> 0) @@ (factory :> 1)
BuildTimes == (civil :> 2) @@ (factory :> 1)
NumOf(level, kind) == level
Highest(level) == 2

\* Goods: one player with a single slot in the backpack, one with two.
Sizes == (p1 :> 1) @@ (p2 :> 2)

\* Army: a quick soldier, a slow one that takes more population, and one
\* that is refused.
Times == (quick :> 1) @@ (slow :> 2) @@ (elite :> 1)
SoldierPrices == (quick :> 2) @@ (slow :> 3) @@ (elite :> 1)
Others == {[armys |-> << [kind |-> quick, num |-> 1] >>, age |-> 1, block |-> FALSE]}
Places == (quick :> 1) @@ (slow :> 2) @@ (elite :> 1)

playerVars == << vars, cityVars, goodsVars, heroVars, part >>

PlayerInit ==
    /\ Init /\ CityInit /\ GoodsInit /\ HeroesInit
    /\ part \in {"army", "city", "goods", "heroes"}

InArmy(A) == /\ part = "army" /\ A
             /\ UNCHANGED << cityVars, goodsVars, heroVars, part >>
InCity(A) == /\ part = "city" /\ A
             /\ UNCHANGED << vars, goodsVars, heroVars, part >>
InGoods(A) == /\ part = "goods" /\ A
              /\ UNCHANGED << vars, cityVars, heroVars, part >>
InHeroes(A) == /\ part = "heroes" /\ A
               /\ UNCHANGED << vars, cityVars, goodsVars, part >>

PlayerNext ==
    InArmy(Next) \/ InCity(CityNext) \/ InGoods(GoodsNext)
      \/ InHeroes(HeroesNext)

\* The fairness of Army and City: time passes, and what is due is run.
PlayerSpec ==
    /\ PlayerInit /\ [][PlayerNext]_playerVars
    /\ WF_playerVars(InArmy(Tick))
    /\ \A c \in Camps : /\ WF_playerVars(InArmy(Expire(c)))
                         /\ WF_playerVars(InArmy(TimeIsUp(c)))
    /\ WF_playerVars(InCity(CityTick))
    /\ \A s \in Sns : /\ WF_playerVars(InCity(WaitExpires(s)))
                       /\ WF_playerVars(InCity(TimerFires(s)))

-----------------------------------------------------------------------------
(* What the gateway holds of an online player is what redis has, whatever  *)
(* handler or timer wrote it last: the buildings with the time left and    *)
(* the output due, the items and the slot of each, the e-mails, the heroes *)
(* in service.  Timers are those of constructions under way, the index of  *)
(* the market leads to every good, and a player who logs in to the army    *)
(* worker is shown the time that each camp's timer has to go.              *)
MemoryAgrees ==
    /\ BuildsSaved /\ NoStrayTimer
    /\ SlotsAgree /\ MailsAgree /\ MarketIndexed
    /\ HeroesAgree
    /\ TimeShown
=============================================================================
