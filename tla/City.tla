-------------------------------- MODULE City --------------------------------
(***************************************************************************)
(* The buildings of one player, as the gateway's LoginWorker keeps them:   *)
(* creating, upgrading, finishing early, collecting what factories make,   *)
(* and bringing it all back from redis at the next login.                  *)
(*                                                                         *)
(* Handlers and timers run in the gateway's one io_service thread, so each *)
(* is a step.  What the code stores as ctime and time is kept here as its  *)
(* distance from now: `left` ticks to the end of a construction, `age`     *)
(* ticks since a factory was last emptied.  The four resources are one.    *)
(***************************************************************************)
EXTENDS Integers, Sequences, SequencesExt, FiniteSets

CONSTANTS
    Sns,            \* serial numbers of buildings
    BuildKinds,     \* build_type
    Hall,           \* the city hall, city_hall_uuid
    Union,          \* the combat union, combat_uuid
    StartKind,      \* [buildings of a new player -> BuildKinds]
    StartLevel,     \* [buildings of a new player -> level]
    Uncounted,      \* kinds init_new_player does not count in build_num
    Factories,      \* kinds with big_type 2
    BuildCost,      \* [BuildKinds -> resources a level costs]
    DiamondCost,    \* [BuildKinds -> diamonds a new building costs]
    BuildSeconds,      \* [BuildKinds -> ticks]
    NumLimit(_, _), \* city_limit: most buildings of a kind under a city hall
    LevelLimit(_),  \* city_limit: highest level under a city hall of a level
    TimerTime,      \* longest construction that gets a timer, 1100 s
    PriceUnit,      \* ticks a diamond buys, 300 s
    Space,          \* most a factory holds
    ArmKinds,       \* arm types, 1 .. n
    ArmTop,         \* highest level of an arm type
    StartAsset, StartDiamonds,
    TopLevel,       \* bound on the level of a building
    MaxAsset,        \* bound on the resources
    MaxStale,       \* bound on the waits whose timer is deleted
    NoBuild

ASSUME CityAssumption ==
    /\ Hall \in DOMAIN StartKind /\ Union \in DOMAIN StartKind
    /\ DOMAIN StartKind \subseteq Sns
    /\ StartKind \in [DOMAIN StartKind -> BuildKinds]
    /\ StartLevel \in [DOMAIN StartKind -> Nat]
    /\ Factories \subseteq BuildKinds /\ Uncounted \subseteq BuildKinds
    /\ BuildSeconds \in [BuildKinds -> Nat \ {0}]
    /\ BuildCost \in [BuildKinds -> Nat] /\ DiamondCost \in [BuildKinds -> Nat]
    /\ TimerTime \in Nat /\ PriceUnit \in Nat \ {0, 1} /\ Space \in Nat \ {0}
    /\ StartDiamonds \in Nat
    /\ NoBuild \notin [kind : BuildKinds, status : {0, 1}, level : Nat, left : Nat, age : Nat]

VARIABLES
    here,           \* the player is logged in
    my_build,       \* my_attribute.my_build, in memory
    building,       \* [Sns -> how often the list `building` names it]
    building_timer, \* buildings the map of timers has an entry for
    live,           \* [Sns -> its timers, the newest last: ticks to go, or Due]
    stale,          \* expired waits whose timer is deleted
    build_num,      \* [BuildKinds -> buildings counted], in memory
    num_records,    \* buildnum#uid, the same in redis
    asset,          \* the four resources in memory, as one
    money,          \* my_attribute.diamond
    build_records,         \* the build#uid#sn records in redis
    timer_keys,     \* the fields of timer#uid in redis
    arm             \* [ArmKinds -> army#type#max], in redis

cityVars == << here, my_build, building, building_timer, live, stale,
               build_num, num_records, asset, money, build_records, timer_keys, arm >>

Nothing == [s \in Sns |-> NoBuild]
Built(builds) == {s \in Sns : builds[s] # NoBuild}
IsFactory(b) == b.kind \in Factories

Building(kind, status, level, left) ==
    [kind |-> kind, status |-> status, level |-> level,
     left |-> left, age |-> 0]

(* build_timer_handle's changes to the record: done, one level up. *)
Finished(b) == Building(b.kind, 0, b.level + 1, 0)

\* Faulty variant: the timer of a finished construction stays.
TimerKept(sn, timers) == timers

(* The wait has expired and is in the io_service's queue. *)
Due == -1

(***************************************************************************)
(* `delete building_timer[build_sn]` deletes the newest timer, if any.     *)
(* Its destructor aborts a wait that is still armed; one that has expired  *)
(* is in the io_service's queue, and will run for a timer that is gone.    *)
(***************************************************************************)
WithoutTimer(sn, timers) ==
    IF sn \in building_timer /\ timers # << >> THEN Front(timers) ELSE timers

LeftBehind(sn, timers) ==
    IF sn \in building_timer /\ timers # << >> /\ Last(timers) = Due THEN 1 ELSE 0

(* redis.set_build, set_build_timer, set_my_build_num *)
SetBuild(sn, b) == build_records' = [build_records EXCEPT ![sn] = b]
SetBuildTimer(sn) == timer_keys' = timer_keys \cup {sn}
SetMyBuildNum(kind, n) == num_records' = [num_records EXCEPT ![kind] = n]

(***************************************************************************)
(* build_timer_handle, called by a timer or by FastFinish: `timers` are    *)
(* the timers whose waits remain, and `known` says that the one which      *)
(* building_timer points to is among them.  It is deleted, the list loses  *)
(* every occurrence; the field in timer#uid stays, nobody calls            *)
(* del_build_timer.                                                        *)
(***************************************************************************)
BuildTimerHandle(sn, timers, known) ==
    /\ my_build' = [my_build EXCEPT ![sn] = Finished(@)]
    /\ SetBuild(sn, Finished(my_build[sn]))
    /\ building' = [building EXCEPT ![sn] = 0]
    /\ building_timer' = building_timer \ {sn}
    /\ live' = [live EXCEPT ![sn] = IF known THEN WithoutTimer(sn, timers) ELSE timers]

(* en_timer: the entry is overwritten, a timer it pointed to stays alive. *)
EnTimer(sn, left) ==
    /\ building_timer' = building_timer \cup {sn}
    /\ live' = [live EXCEPT ![sn] = Append(@, left)]

(* A construction is started: listed, saved, and given a timer if short. *)
Start(sn, b) ==
    /\ my_build' = [my_build EXCEPT ![sn] = b]
    /\ SetBuild(sn, b)
    /\ SetBuildTimer(sn)
    /\ building' = [building EXCEPT ![sn] = @ + 1]
    /\ IF b.left <= TimerTime
       THEN EnTimer(sn, b.left)
       ELSE UNCHANGED << building_timer, live >>

-----------------------------------------------------------------------------
(* init_new_player: a finished building each, one kind left uncounted. *)
InitialBuilds ==
    [s \in Sns |-> IF s \in DOMAIN StartKind
                   THEN Building(StartKind[s], 0, StartLevel[s], 0)
                   ELSE NoBuild]

InitialNum ==
    [k \in BuildKinds |-> IF k \in Uncounted THEN 0
                     ELSE Cardinality({s \in DOMAIN StartKind :
                                           StartKind[s] = k})]

CityInit ==
    /\ here = TRUE
    /\ my_build = InitialBuilds
    /\ building = [s \in Sns |-> 0]
    /\ building_timer = {}
    /\ live = [s \in Sns |-> << >>] /\ stale = 0
    /\ build_num = InitialNum /\ num_records = InitialNum
    /\ asset = StartAsset /\ money = StartDiamonds
    /\ build_records = InitialBuilds
    /\ timer_keys = {}
    /\ arm = [t \in ArmKinds |-> 0]

\* Faulty variant: login does not look at the time that passed.
NeverOver(sn) == FALSE

(***************************************************************************)
(* login_handle2: the records are read back; a listed construction is      *)
(* finished if its time is over, and gets a timer if little is left.  The  *)
(* workers changed the resources while the player was away.                *)
(***************************************************************************)
BuildTimerList == timer_keys

Over(sn) == /\ sn \in BuildTimerList /\ build_records[sn] # NoBuild
            /\ build_records[sn].status = 1 /\ build_records[sn].left = 0

Short(sn) == /\ sn \in BuildTimerList /\ build_records[sn] # NoBuild
             /\ build_records[sn].status = 1
             /\ build_records[sn].left \in 1 .. TimerTime

(* get_player: what the record says of the player's resources by now. *)
GetPlayer == {0, StartAsset}

(* get_my_build_num *)
GetMyBuildNum == num_records

Restored ==
    [s \in Sns |-> IF Over(s) THEN Finished(build_records[s])
                   ELSE build_records[s]]

CityLogin ==
    /\ ~here
    /\ here' = TRUE
    /\ my_build' = Restored
    /\ build_records' = Restored
    /\ building' = [s \in Sns |-> IF s \in BuildTimerList /\ ~Over(s)
                                  THEN 1 ELSE 0]
    /\ building_timer' = {s \in Sns : Short(s)}
    /\ live' = [s \in Sns |-> IF Short(s) THEN << build_records[s].left >>
                              ELSE << >>]
    /\ asset' \in GetPlayer
    /\ build_num' = GetMyBuildNum
    /\ UNCHANGED << stale, num_records, money, timer_keys, arm >>

(* What is only in memory is gone. *)
Forgotten ==
    /\ here' = FALSE
    /\ my_build' = Nothing
    /\ building' = [s \in Sns |-> 0]
    /\ building_timer' = {}
    /\ live' = [s \in Sns |-> << >>]
    /\ asset' = 0
    /\ build_num' = [k \in BuildKinds |-> 0]

(* OnClose deletes the timers. *)
Expired == {s \in building_timer : live[s] # << >> /\ Last(live[s]) = Due}

CityClose ==
    /\ here
    /\ Forgotten
    /\ stale' = stale + Cardinality(Expired) /\ stale' <= MaxStale
    /\ UNCHANGED << num_records, money, build_records, timer_keys, arm >>

(* The gateway ends, with these buildings, keys and diamonds saved. *)
CityEnds(builds, keys, diamonds_left) ==
    /\ Forgotten
    /\ stale' = 0
    /\ build_records' = builds /\ timer_keys' = keys /\ money' = diamonds_left
    /\ UNCHANGED << num_records, arm >>

(***************************************************************************)
(* BuildCreateRequestService.  Saved in this order: the price, the field   *)
(* of timer#uid, the building, the number of its kind; the gateway may end *)
(* on the way.                                                             *)
(***************************************************************************)
MayCreate(kind) ==
    /\ here
    /\ asset >= BuildCost[kind] /\ money >= DiamondCost[kind]
    /\ my_build[Hall] # NoBuild
    /\ build_num[kind] < NumLimit(my_build[Hall].level, kind)

Unused == Sns \ (Built(build_records) \cup timer_keys)
New(kind) == Building(kind, 1, 0, BuildSeconds[kind])

BuildCreate(kind) ==
    /\ MayCreate(kind)
    /\ \E sn \in Unused : Start(sn, New(kind))
    /\ asset' = asset - BuildCost[kind]
    /\ money' = money - DiamondCost[kind]
    /\ build_num' = [build_num EXCEPT ![kind] = @ + 1]
    /\ SetMyBuildNum(kind, build_num[kind] + 1)
    /\ UNCHANGED << here, stale, arm >>

CreateCut(kind) ==
    /\ MayCreate(kind)
    /\ \E sn \in Unused :
          \E builds \in {build_records, [build_records EXCEPT ![sn] = New(kind)]} :
             CityEnds(builds, timer_keys \cup {sn}, money - DiamondCost[kind])

(* BuildUpgradeRequestService, and its end between the field and the record. *)
AtRest(b) == b.status # 1

MayUpgrade(sn) ==
    /\ here
    /\ my_build[Hall] # NoBuild /\ my_build[sn] # NoBuild
    /\ my_build[sn].level < LevelLimit(my_build[Hall].level)
    /\ AtRest(my_build[sn])
    /\ asset >= BuildCost[my_build[sn].kind]

BuildUpgrade(sn) ==
    /\ MayUpgrade(sn)
    /\ Start(sn, Building(my_build[sn].kind, 1, my_build[sn].level,
                          BuildSeconds[my_build[sn].kind]))
    /\ asset' = asset - BuildCost[my_build[sn].kind]
    /\ UNCHANGED << here, stale, money, build_num, num_records, arm >>

UpgradeCut(sn) == MayUpgrade(sn) /\ CityEnds(build_records, timer_keys \cup {sn}, money)

(* BuildStatusListRequestService: reads the records again to move some. *)
BuildStatusList ==
    /\ here
    /\ my_build' = build_records
    /\ UNCHANGED << here, building, building_timer, live, stale, build_num, num_records, asset,
                    money, build_records, timer_keys, arm >>

(* GetMyAssetRequestService on a factory at rest. *)
GetMyAsset(sn) ==
    /\ here
    /\ my_build[sn] # NoBuild
    /\ IsFactory(my_build[sn]) /\ my_build[sn].status = 0
    /\ asset + my_build[sn].age <= MaxAsset
    /\ asset' = asset + my_build[sn].age
    /\ my_build' = [my_build EXCEPT ![sn].age = 0]
    /\ SetBuild(sn, [my_build[sn] EXCEPT !.age = 0])
    /\ UNCHANGED << here, building, building_timer, live, stale, build_num, num_records, money,
                    timer_keys, arm >>

(***************************************************************************)
(* FastFinishRequestService.  It does not ask whether the building is      *)
(* under construction: after a login the list names finished ones too.     *)
(* The diamonds are saved last; the gateway may end before that.           *)
(***************************************************************************)
Price(b) == (IF b.left > 0 THEN b.left ELSE 1) \div PriceUnit + 1

MayFinish(sn) ==
    /\ here
    /\ my_build[sn] # NoBuild
    /\ my_build[sn].level < TopLevel
    /\ money >= Price(my_build[sn])
    /\ sn \in building_timer \/ building[sn] > 0

FastFinish(sn) ==
    /\ MayFinish(sn)
    /\ \/ /\ sn \in building_timer
          /\ BuildTimerHandle(sn, live[sn], TRUE)
          /\ stale' = stale + LeftBehind(sn, live[sn]) /\ stale' <= MaxStale
       \/ /\ sn \notin building_timer
          /\ my_build' = [my_build EXCEPT ![sn] = Finished(@)]
          /\ SetBuild(sn, Finished(my_build[sn]))
          /\ building' = [building EXCEPT ![sn] = @ - 1]
          /\ UNCHANGED << building_timer, live, stale >>
    /\ money' = money - Price(my_build[sn])
    /\ UNCHANGED << here, build_num, num_records, asset, timer_keys, arm >>

FinishCut(sn) ==
    /\ MayFinish(sn)
    /\ CityEnds([build_records EXCEPT ![sn] = Finished(my_build[sn])], timer_keys, money)

(* The wait of a timer expires. *)
WaitExpires(sn) ==
    /\ \E i \in DOMAIN live[sn] :
          /\ live[sn][i] = 0
          /\ live' = [live EXCEPT ![sn][i] = Due]
    /\ UNCHANGED << here, my_build, building, building_timer, stale, build_num, num_records,
                    asset, money, build_records, timer_keys, arm >>

(* OnTimeout of an expired wait: build_timer_handle, if the building is there. *)
TimerFires(sn) ==
    /\ \E i \in DOMAIN live[sn] :
          /\ live[sn][i] = Due
          /\ LET others == RemoveAt(live[sn], i)
                 known == i # Len(live[sn])
             IN /\ BuildTimerHandle(sn, others, known)
                /\ stale' = stale + (IF known THEN LeftBehind(sn, others) ELSE 0)
    /\ UNCHANGED << here, build_num, num_records, asset, money, timer_keys, arm >>

(***************************************************************************)
(* OnTimeout for a timer that is gone.  The destructor has emptied         *)
(* handler_ (the gateway is built without optimisation), and calling an    *)
(* empty function throws: nobody catches it, and the gateway ends.  When a *)
(* timer made later has got the memory, it is that timer's handler which   *)
(* runs, before its time; or one of another player.                        *)
(***************************************************************************)
StaleFires ==
    /\ stale > 0
    /\ \/ CityEnds(build_records, timer_keys, money)
       \/ /\ \E sn \in building_timer :
                /\ BuildTimerHandle(sn, live[sn], TRUE)
                /\ stale' = stale - 1 + LeftBehind(sn, live[sn])
          /\ UNCHANGED << here, build_num, num_records, asset, money, timer_keys, arm >>
       \/ /\ stale' = stale - 1
          /\ UNCHANGED << here, my_build, building, building_timer, live, build_num,
                          num_records, asset, money, build_records, timer_keys, arm >>

(* The gateway ends between two handlers, or in one. *)
GatewayEnds ==
    \/ CityEnds(build_records, timer_keys, money)
    \/ \E k \in BuildKinds : CreateCut(k)
    \/ \E s \in Sns : UpgradeCut(s) \/ FinishCut(s)

(***************************************************************************)
(* UpgradeArmTypeRequestService.  The first type of three follows the      *)
(* level of the combat union, the other two the first type's last level.   *)
(***************************************************************************)
FirstOfThree(t) == ((t - 1) \div 3) * 3 + 1

Unlocked(t) ==
    \/ arm[t] # 0
    \/ /\ t % 3 = 1
       /\ my_build[Union] # NoBuild
       /\ my_build[Union].level > t \div 3
    \/ /\ t % 3 # 1
       /\ arm[FirstOfThree(t)] = ArmTop

UpgradeArmType(t) ==
    /\ here
    /\ arm[t] < ArmTop
    /\ Unlocked(t)
    /\ arm' = [arm EXCEPT ![t] = @ + 1]
    /\ UNCHANGED << here, my_build, building, building_timer, live, stale,
                    build_num, num_records, asset, money, build_records, timer_keys >>

(* Time passes, for what is in memory and what is in redis alike. *)
Aged(b) ==
    IF b = NoBuild THEN b
    ELSE [b EXCEPT !.left = IF @ > 0 THEN @ - 1 ELSE 0,
                   !.age = IF IsFactory(b) /\ b.status = 0 /\ @ < Space
                           THEN @ + 1 ELSE @]

CityTick ==
    /\ \A s \in Sns : \A i \in DOMAIN live[s] : live[s][i] # 0
    /\ my_build' = [s \in Sns |-> Aged(my_build[s])]
    /\ build_records' = [s \in Sns |-> Aged(build_records[s])]
    /\ live' = [s \in Sns |-> [i \in DOMAIN live[s] |->
                                     IF live[s][i] = Due THEN Due ELSE live[s][i] - 1]]
    /\ UNCHANGED << here, building, building_timer, stale, build_num, num_records, asset, money,
                    timer_keys, arm >>

CityNext ==
    \/ CityLogin
    \/ CityClose
    \/ \E k \in BuildKinds : BuildCreate(k)
    \/ \E s \in Sns : BuildUpgrade(s)
    \/ BuildStatusList
    \/ \E s \in Sns : GetMyAsset(s)
    \/ \E s \in Sns : FastFinish(s)
    \/ \E s \in Sns : WaitExpires(s) \/ TimerFires(s)
    \/ StaleFires
    \/ GatewayEnds
    \/ \E t \in ArmKinds : UpgradeArmType(t)
    \/ CityTick

(* Time goes on and the io_service runs the timers that are due. *)
CityFairness ==
    /\ WF_cityVars(CityTick)
    /\ \A s \in Sns : WF_cityVars(WaitExpires(s)) /\ WF_cityVars(TimerFires(s))

CitySpec == CityInit /\ [][CityNext]_cityVars /\ CityFairness

-----------------------------------------------------------------------------
(* Every handler saves what it changes before it returns: whenever the     *)
(* connection closes or the gateway dies, redis holds the same buildings   *)
(* as memory, with the same time left and the same output due, and the     *)
(* same numbers that limit how many of a kind may be built.                *)
BuildsSaved == here => my_build = build_records /\ build_num = num_records

(* A construction has at most one timer, known to building_timer, and a    *)
(* building at rest has none: of the timer of a finished or an abandoned   *)
(* construction nothing is left but a wait that had expired.               *)
NoStrayTimer ==
    \A s \in Sns :
        /\ Len(live[s]) = IF s \in building_timer THEN 1 ELSE 0
        /\ s \in building_timer => my_build[s].status = 1

(* A level is gained one at a time, and by a construction under way,       *)
(* whatever timers, logins, early finishes and waits of deleted timers     *)
(* come between.  One request raises a building at rest: an early finish   *)
(* of one that the list still names, which takes it off the list and costs *)
(* its price, unless the gateway ends before it has saved the charge.      *)
RaisedAtRest(s) ==
    /\ here /\ building[s] > 0 /\ building'[s] < building[s]
    /\ money' = money - Price(build_records[s]) \/ (~here' /\ money' = money)

LevelsEarned ==
    [][\A s \in Sns :
          build_records[s] # NoBuild /\ build_records'[s] # build_records[s] =>
             \/ build_records'[s].level = build_records[s].level
             \/ /\ build_records'[s].level = build_records[s].level + 1
                /\ build_records[s].status = 1 \/ RaisedAtRest(s)]_cityVars

(* A player who keeps coming back sees every construction finished: by     *)
(* its timer or, the long ones that never get a timer, at a login.         *)
ConstructionsEnd ==
    \A s \in Sns :
        []<>here /\ []<>~here =>
            (build_records[s] # NoBuild /\ build_records[s].status = 1
                ~> build_records[s] # NoBuild /\ build_records[s].status = 0)
=============================================================================
