------------------------------- MODULE Config -------------------------------
(***************************************************************************)
(* What the gateway reads from MySQL when it starts, before it accepts the *)
(* first connection (InitGlobalData): tables of soldiers, buildings and    *)
(* skills by type and level, each also packed into pages that are sent to  *)
(* clients as they are; the limits of cities and of combat unions; the     *)
(* heroes; and the versions.                                               *)
(*                                                                         *)
(* A table is read with two queries, the highest type and the rows, between *)
(* which others may write, so that types of rows are not bounded by it.    *)
(* A row is its type, level and packed size, and a number to tell it apart. *)
(***************************************************************************)
EXTENDS Integers, Sequences, FiniteSets, SequencesExt

CONSTANTS
    Tops,       \* highest types MySQL may answer
    Levels,
    Widths,     \* packed sizes of rows
    PageSize,   \* 6500
    MaxRows,    \* bound on the rows read
    NoRow

Steps == <<"version", "arms", "build", "city", "combat", "hero", "skill">>
Paged == {"arms", "build", "skill"}
Limits == {"city", "combat"}
Fields == {"arms_version", "build_version", "client_version", "update_URL", "skill_version"}

ASSUME ConfigAssumption ==
    /\ Tops \subseteq Nat /\ Levels \subseteq Nat /\ Widths \subseteq Nat
    /\ PageSize \in Nat /\ MaxRows \in Nat

VARIABLES
    step,       \* index in Steps of the function that runs; beyond it the gateway serves
    query,      \* "max" or "rows"
    top,        \* the highest type
    global,     \* global_arms, global_build, global_skill: list -> type -> rows by level
    pages,      \* config_buffer: list -> pages
    page,       \* the list response that fills, its flags and packed size
    limit,      \* city_limit, combat_union_limit: list -> type -> row
    cityList,   \* res.city_limit of ReadCityLimit
    cityPage,   \* config_buffer.city_config
    heroes,     \* hero_update_config, hero_base_config
    version,    \* game_version
    rows,       \* how many rows have been read
    good        \* per list, the rows whose type was in range

configVars == <<step, query, top, global, pages, page, limit, cityList, cityPage, heroes,
                version, rows, good>>
paging == <<global, pages, page, good>>
city == <<cityList, cityPage>>
single == <<heroes, version>>

In(list) == step <= Len(Steps) /\ Steps[step] = list
Finished == step' = step + 1 /\ query' = "max"
Fetch == rows < MaxRows /\ rows' = rows + 1
Rows == [type : 0..(top + 1), level : Levels, width : Widths, n : {rows + 1}]
Empty == [done |-> <<>>, flags |-> 0, rows |-> <<>>, size |-> 0]

\* The vector of a type is made long enough for the level.
PutAt(levels, r) ==
    [i \in 1..(IF r.level < Len(levels) THEN Len(levels) ELSE r.level + 1) |->
        IF i = r.level + 1 THEN r ELSE IF i <= Len(levels) THEN levels[i] ELSE NoRow]

\* Faulty variant: the rows of the full page stay.
FlushKeepsRows(p) ==
    [done |-> Append(p.done, [flags |-> p.flags, rows |-> p.rows]),
     flags |-> 1, rows |-> p.rows, size |-> 0]

\* A full page is packed and the next one begun.  The first page has flags 0, those in
\* the middle 1, the last 2, and the only one 3.
Flush(p) ==
    [done |-> Append(p.done, [flags |-> p.flags, rows |-> p.rows]),
     flags |-> 1, rows |-> <<>>, size |-> 0]
WithRow(p, r) ==
    LET q == IF p.size + r.width > PageSize THEN Flush(p) ELSE p
    IN [done |-> q.done, flags |-> q.flags, rows |-> Append(q.rows, r),
        size |-> q.size + r.width]
LastPage(p) ==
    IF p.rows = <<>> THEN p.done
    ELSE Append(p.done, [flags |-> IF p.flags = 0 THEN 3 ELSE 2, rows |-> p.rows])
-----------------------------------------------------------------------------
ConfigInit ==
    /\ step = 1 /\ query = "max" /\ top = 0
    /\ global = [l \in Paged |-> <<>>] /\ pages = [l \in Paged |-> <<>>] /\ page = Empty
    /\ limit = [l \in Limits |-> <<>>] /\ cityList = <<>> /\ cityPage = <<>>
    /\ heroes = <<>> /\ version = [f \in Fields |-> 0]
    /\ rows = 0 /\ good = [l \in Paged |-> <<>>]

\* ReadGameVersion.  Where skill_version should be tested, update_URL is once more.
ReadGameVersion(f) ==
    /\ In("version") /\ Fetch
    /\ version' = IF f = "skill_version" THEN version ELSE [version EXCEPT ![f] = rows + 1]
    /\ UNCHANGED <<step, query, top, paging, limit, city, heroes>>

\* ReadHeroUpdateConfig, ReadHeroBaseConfig: rows in order.
ReadHeroConfig ==
    /\ In("hero") /\ Fetch
    /\ heroes' = Append(heroes, rows + 1)
    /\ UNCHANGED <<step, query, top, paging, limit, city, version>>

EndSingle ==
    /\ In("version") \/ In("hero")
    /\ Finished
    /\ UNCHANGED <<top, paging, limit, city, single, rows>>

\* The first query: a vector for each type.  When it fails, the function returns.
MaxType(list) ==
    /\ In(list) /\ query = "max"
    /\ \E t \in Tops :
         /\ query' = "rows" /\ top' = t
         /\ IF list \in Paged
            THEN global' = [global EXCEPT ![list] = [i \in 0..t |-> <<>>]] /\ UNCHANGED limit
            ELSE limit' = [limit EXCEPT ![list] = [i \in 0..t |-> NoRow]] /\ UNCHANGED global
    /\ page' = Empty
    /\ UNCHANGED <<step, pages, good, city, single, rows>>
NoMaxType(list) ==
    /\ In(list) /\ query = "max" /\ Finished
    /\ UNCHANGED <<top, paging, limit, city, single, rows>>

\* One row of a paged list.  A type out of range is only logged.
PagedRow(list, r) ==
    /\ In(list) /\ query = "rows" /\ Fetch
    /\ IF r.type \in 1..top
       THEN /\ global' = [global EXCEPT ![list][r.type] = PutAt(@, r)]
            /\ page' = WithRow(page, r)
            /\ good' = [good EXCEPT ![list] = Append(@, r)]
       ELSE UNCHANGED <<global, page, good>>
    /\ UNCHANGED <<step, query, top, pages, limit, city, single>>
ReadArmsData(r) == PagedRow("arms", r)
ReadBuildData(r) == PagedRow("build", r)
ReadSkillConfig(r) == PagedRow("skill", r)

EndPaged(list) ==
    /\ In(list) /\ query = "rows" /\ Finished
    /\ pages' = [pages EXCEPT ![list] = LastPage(page)]
    /\ UNCHANGED <<top, global, page, good, limit, city, single, rows>>

\* A row of limits whose type is out of range ends the function.
LimitRow(list, r) ==
    /\ In(list) /\ query = "rows" /\ Fetch
    /\ IF r.type <= top
       THEN limit' = [limit EXCEPT ![list][r.type] = r] /\ UNCHANGED <<step, query>>
       ELSE Finished /\ UNCHANGED limit
    /\ UNCHANGED <<top, paging, cityPage, single>>
ReadCityLimit(r) ==
    /\ LimitRow("city", r)
    /\ cityList' = IF r.type <= top THEN Append(cityList, r) ELSE cityList
ReadCombatLimit(r) == LimitRow("combat", r) /\ UNCHANGED cityList

\* The limits of cities are packed at the end only.
EndLimit(list) ==
    /\ In(list) /\ query = "rows" /\ Finished
    /\ cityPage' = IF list = "city" THEN cityList ELSE cityPage
    /\ UNCHANGED <<top, paging, limit, cityList, single, rows>>

ConfigNext ==
    \/ \E f \in Fields : ReadGameVersion(f)
    \/ ReadHeroConfig \/ EndSingle
    \/ \E list \in Paged \cup Limits : MaxType(list) \/ NoMaxType(list)
    \/ \E r \in Rows : \/ ReadArmsData(r) \/ ReadBuildData(r) \/ ReadSkillConfig(r)
                       \/ ReadCityLimit(r) \/ ReadCombatLimit(r)
    \/ \E list \in Paged : EndPaged(list)
    \/ \E list \in Limits : EndLimit(list)

ConfigSpec == ConfigInit /\ [][ConfigNext]_configVars
-----------------------------------------------------------------------------
Served(list) == \A i \in 1..Len(Steps) : Steps[i] = list => step > i
Latest(list, r) ==
    \A x \in ToSet(good[list]) : x.type = r.type /\ x.level = r.level => x.n <= r.n

\* PagesComplete: what clients are sent is what the gateway plays by.  The pages of a list
\* hold every row of the right types once and in order, they are marked so that a
\* client finds the last, none is longer than the limit unless it has one row, and
\* the table has the latest row of each type and level and nothing else, however
\* types, levels and sizes follow each other.
PagesComplete ==
    \A list \in Paged : Served(list) =>
        LET ps == pages[list] IN
        /\ FlattenSeq([i \in DOMAIN ps |-> ps[i].rows]) = good[list]
        /\ \A i \in DOMAIN ps : ps[i].flags =
              IF Len(ps) = 1 THEN 3 ELSE IF i = 1 THEN 0 ELSE IF i = Len(ps) THEN 2 ELSE 1
        /\ \A i \in DOMAIN ps : Len(ps[i].rows) > 1 =>
              FoldLeft(LAMBDA sum, r : sum + r.width, 0, ps[i].rows) <= PageSize
        /\ \A r \in ToSet(good[list]) : Latest(list, r) =>
              global[list][r.type][r.level + 1] = r
        /\ \A type \in DOMAIN global[list] : \A r \in ToSet(global[list][type]) :
              r = NoRow \/ r \in ToSet(good[list])
=============================================================================
