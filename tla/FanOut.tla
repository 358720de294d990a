------------------------------- MODULE FanOut -------------------------------
(***************************************************************************)
(* One HTTP request over the shards of the fleet. A handler walks the      *)
(* shards in order and takes the read lock of one at a time, so between    *)
(* two reads a region may stop or start being ready and rows may come, go  *)
(* or move to another region. Requests only read: one of them and the rest *)
(* of the system stand for any number.                                     *)
(*                                                                         *)
(* A region's rows are the ones that answer the request: Key is the row of *)
(* the player or the claim it names, Profile the experience and login rows *)
(* of the player, the Bags what it lists (bags, crafts, names, deposits),  *)
(* and the number k the player_housing row of a house in region k.         *)
(***************************************************************************)
EXTENDS Naturals, Sequences, FiniteSets

CONSTANTS
    N,           \* number of shards; shard k serves region k
    Bags,        \* what a request lists
    Key, Profile,
    MaxChanges   \* bound on the changes of the fleet during the request

ASSUME FanOutAssumption ==
    /\ N \in Nat \ {0} /\ MaxChanges \in Nat /\ IsFiniteSet(Bags)
    /\ Key # Profile /\ {Key, Profile} \cap Bags = {}
    /\ (Bags \cup {Key, Profile}) \cap (0..N) = {}

Regions == 1..N
RowIds == Bags \cup {Key, Profile} \cup Regions

\* The loops over the shards that the handlers run one after the other.
LookupLoops    == <<"find">>                    \* player, claim, its inventory or crafts
ListLoops      == <<"gather">>                  \* claims by name, deposits, storage logs
NamesLoops     == <<"gather">>                  \* players by name
InventoryLoops == <<"find", "gather">>          \* player inventory
HomeLoops      == <<"find", "visit">>           \* player crafts, player skills
HousingLoops   == <<"find", "house", "visit">>  \* player housing
MembersLoops   == <<"find", "others">>          \* claim members, citizens, hexcoins
HealthLoops    == <<"check">>                   \* cache-health, internal stats

Program ==
    [lookup |-> LookupLoops, list |-> ListLoops, names |-> NamesLoops,
     inventory |-> InventoryLoops, home |-> HomeLoops, housing |-> HousingLoops,
     members |-> MembersLoops, health |-> HealthLoops]

Kinds == DOMAIN Program

VARIABLES
    ready,     \* the regions whose store is ready
    rows,      \* rows[k]: the rows of region k, none while it is not ready
    pressure,  \* memory_pressure
    changes,   \* changes of the fleet so far
    req,       \* the request
    always,    \* the rows visible ever since the request began, by region
    ever,      \* the rows visible at some moment since then, by region
    up, was    \* what was fit ever since then, and at some moment

fleet == <<ready, rows, pressure, changes>>
ghosts == <<always, ever, up, was>>
vars == <<fleet, req, ghosts>>

\* What cache_health looks at: the ready regions, and 0 for the memory.
Fit(r, p) == r \cup (IF p THEN {} ELSE {0})

Visible(f) == {p \in Regions \X RowIds : p[2] \in f[p[1]]}

\* The rows a handler reads.
Relevant ==
    [lookup |-> {Key}, list |-> Bags, names |-> Bags, inventory |-> {Key} \cup Bags,
     home |-> {Key} \cup Bags, housing |-> {Key} \cup Bags \cup Regions,
     members |-> {Key, Profile} \cup Bags, health |-> {}]

\* A list tells how often each of the Bags is in it; readers sort lists.
Nothing == [b \in Bags |-> 0]

\* stage counts from 1; pos is the next shard; at is the region of the Key row
\* and home the region to visit, 0 while unknown; ok is what cache_health
\* accumulates, from the pressure it reads first.
Begin(kind) ==
    [kind |-> kind, stage |-> 1, pos |-> 1, at |-> 0, home |-> 0, got |-> Nothing,
     coins |-> 0, profile |-> 0, ok |-> ~pressure, status |-> "open"]

\* A request begins in a fleet with any regions ready and any rows in them.
Init ==
    /\ \E kind \in Kinds :
        /\ pressure \in IF kind = "health" THEN BOOLEAN ELSE {FALSE}
        /\ ready \in SUBSET Regions
        /\ rows \in [Regions -> SUBSET Relevant[kind]]
        /\ \A k \in Regions \ ready : rows[k] = {}
        /\ req = Begin(kind)
    /\ changes = 0
    /\ always = Visible(rows) /\ ever = Visible(rows)
    /\ up = Fit(ready, pressure) /\ was = Fit(ready, pressure)

-----------------------------------------------------------------------------
(* The fleet.                                                              *)

Watch ==
    /\ changes < MaxChanges /\ changes' = changes + 1
    /\ req.status = "open"
    /\ always' = always \cap Visible(rows') /\ ever' = ever \cup Visible(rows')
    /\ up' = up \cap Fit(ready', pressure') /\ was' = was \cup Fit(ready', pressure')
    /\ UNCHANGED req

\* A session loads its rows and becomes ready, or ends.
Load(k) ==
    /\ k \notin ready
    /\ ready' = ready \cup {k}
    /\ \E R \in SUBSET Relevant[req.kind] : rows' = [rows EXCEPT ![k] = R]
    /\ UNCHANGED pressure
    /\ Watch

End(k) ==
    /\ k \in ready
    /\ ready' = ready \ {k} /\ rows' = [rows EXCEPT ![k] = {}]
    /\ UNCHANGED pressure
    /\ Watch

\* A transaction of a ready region inserts a row or deletes one; a row that
\* moves to another region is one of each, in either order.
Apply(k) ==
    /\ k \in ready
    /\ \E x \in Relevant[req.kind] :
        rows' = [rows EXCEPT ![k] = IF x \in @ THEN @ \ {x} ELSE @ \cup {x}]
    /\ UNCHANGED <<ready, pressure>>
    /\ Watch

\* run_memory_sampler finds the resident set over or under the ceiling; only
\* cache_health reads what it finds.
Sample ==
    /\ req.kind = "health"
    /\ pressure' = ~pressure
    /\ UNCHANGED <<ready, rows>>
    /\ Watch

-----------------------------------------------------------------------------
(* The request.                                                            *)

StageOf(q) == Program[q.kind][q.stage]
Enter(q) == [q EXCEPT !.stage = @ + 1, !.pos = 1]
Done(q, status) == [q EXCEPT !.status = status]
Advance(q) == IF q.stage = Len(Program[q.kind]) THEN Done(q, "ok") ELSE Enter(q)
Skip(q) == [q EXCEPT !.pos = @ + 1]

\* The rows of a region that are listed.
Listed(k) == [b \in Bags |-> IF b \in rows[k] THEN 1 ELSE 0]
Coins(k) == Cardinality(rows[k] \cap Bags)
LargerMutant(a, b) == a + b
Larger(a, b) == IF a < b THEN b ELSE a
Elements(s) == {b \in Bags : s[b] > 0}

\* Operators named ...Mutant are plausible bugs; PROJECT.json pairs each with
\* the definition it replaces and the property that must catch it.
DedupsMutant(q) == q.kind = "names"
GatherMutant(q, k) == Advance([q EXCEPT !.got = [b \in Bags |-> @[b] + Listed(k)[b]]])
VisitMutant(q, k) == Done([q EXCEPT !.got = Listed(k)], "ok")
CheckMutant(q, k) == Skip([q EXCEPT !.ok = k \in ready])
ExhaustedMutant(q) == IF StageOf(q) = "find" THEN Done(q, "notFound") ELSE Done(q, "ok")

\* The first loop of build_claim_members takes what the claim's region knows
\* of a member.
Enrolled(q, k) ==
    [q EXCEPT !.coins = Coins(k), !.profile = IF Profile \in rows[k] THEN k ELSE 0]

\* find_player, and the first loop of the claim handlers: the first ready
\* shard that holds the row, whose other rows are read under the same lock.
Find(q, k) ==
    IF Key \notin rows[k] THEN Skip(q)
    ELSE LET f == [q EXCEPT !.at = k, !.home = k] IN
         Advance(IF q.kind = "members" THEN Enrolled(f, k) ELSE f)

\* The listing handlers, and collect_player_bags: every ready shard. Players
\* and bags are kept once, the other lists as they come.
Dedups(q) == q.kind \in {"names", "inventory"}
Gather(q, k) ==
    Skip([q EXCEPT !.got = [b \in Bags |->
        IF Dedups(q) /\ @[b] > 0 THEN @[b] ELSE @[b] + Listed(k)[b]]])

\* The second loop of build_player_housing: the first housing row names the
\* region of the house.
House(q, h) == Enter([q EXCEPT !.home = h])

\* The last loop of the crafts, the skills and the housing of a player.
Visit(q, k) == IF k # q.home THEN Skip(q) ELSE Done([q EXCEPT !.got = Listed(k)], "ok")

\* The second loop of build_claim_members: the player's other regions. The
\* profile is the first one found and the coins those of the richest region.
Others(q, k) ==
    IF k = q.at THEN Skip(q)
    ELSE Skip([q EXCEPT !.coins = Larger(@, Coins(k)),
                        !.profile = IF @ = 0 /\ Profile \in rows[k] THEN k ELSE @])

\* cache_health and internal_stats.
Check(q, k) == Skip([q EXCEPT !.ok = @ /\ k \in ready])

\* The loop under way reads its next shard; one that is not ready is skipped.
Read ==
    LET k == req.pos
        At(stage) == StageOf(req) = stage /\ k \in ready
    IN
    /\ req.status = "open" /\ k \in Regions
    /\ \/ StageOf(req) = "check" /\ req' = Check(req, k)
       \/ StageOf(req) # "check" /\ k \notin ready /\ req' = Skip(req)
       \/ At("find") /\ req' = Find(req, k)
       \/ At("gather") /\ req' = Gather(req, k)
       \/ At("house") /\ rows[k] \cap Regions = {} /\ req' = Skip(req)
       \/ At("house") /\ \E h \in rows[k] \cap Regions : req' = House(req, h)
       \/ At("visit") /\ req' = Visit(req, k)
       \/ At("others") /\ req' = Others(req, k)
    /\ UNCHANGED <<fleet, ghosts>>

\* A loop ran out of shards: not found, no house, or nothing more to read. A
\* player inventory goes on without the player and answers if it finds bags.
Exhausted(q) ==
    CASE StageOf(q) = "find" /\ q.kind = "inventory" -> Enter(q)
      [] StageOf(q) = "find" /\ q.kind # "inventory" -> Done(q, "notFound")
      [] StageOf(q) = "house" -> Done(q, "noHouse")
      [] StageOf(q) = "gather" /\ q.kind = "inventory" /\ q.at = 0 /\ q.got = Nothing ->
            Done(q, "notFound")
      [] OTHER -> Done(q, "ok")

RunOut ==
    /\ req.status = "open" /\ req.pos = N + 1
    /\ req' = Exhausted(req)
    /\ UNCHANGED <<fleet, ghosts>>

Next ==
    \/ \E k \in Regions : Load(k) \/ End(k) \/ Apply(k)
    \/ Sample
    \/ Read
    \/ RunOut

Spec == Init /\ [][Next]_vars

-----------------------------------------------------------------------------
(* Properties.                                                             *)

Requests ==
    [kind : Kinds, stage : 1..3, pos : 1..(N + 1), at : 0..N, home : 0..N,
     got : [Bags -> Nat], coins : 0..Cardinality(Bags), profile : 0..N,
     ok : BOOLEAN, status : {"open", "ok", "notFound", "noHouse"}]

TypeOK ==
    /\ ready \subseteq Regions /\ rows \in [Regions -> SUBSET RowIds]
    /\ pressure \in BOOLEAN /\ changes \in 0..MaxChanges
    /\ req \in Requests /\ req.stage <= Len(Program[req.kind])
    /\ always \subseteq ever /\ ever \subseteq Regions \X RowIds
    /\ up \subseteq was /\ was \subseteq 0..N

Held(S, X) == {p \in S : p[2] \in X}
Rows(S) == {p[2] : p \in S}
BagsOf(S, k) == {b \in Bags : <<k, b>> \in S}

\* "Not found" and "noHouse" are answers about the world only for rows that
\* stayed where they were: no ready region held the row all along. A row that
\* moves behind the walk, or whose region is reloading, may be missed.
NotFoundIsTrue ==
    /\ req.status = "notFound" =>
        /\ Held(always, {Key}) = {}
        /\ req.kind = "inventory" => Held(always, Bags) = {}
    /\ req.status = "noHouse" => Held(always, Regions) = {}

\* Whatever is answered was visible in a ready region while the request ran:
\* the list, the region of the player, the profile, and no more coins than one
\* region held; what is read at home was visible at home.
NothingInvented ==
    /\ Elements(req.got) \subseteq Rows(ever)
    /\ req.at # 0 => <<req.at, Key>> \in ever
    /\ req.profile # 0 => <<req.profile, Profile>> \in ever
    /\ req.coins > 0 =>
        \E k \in Regions : req.coins <= Cardinality(BagsOf(ever, k))
    /\ req.kind \in {"home", "housing"} =>
        \A b \in Elements(req.got) : <<req.home, b>> \in ever

\* What stayed visible all along is in the answer: in every region for a list,
\* at home for a visit, and for a member the profile of some region and the
\* coins of the richest.
CompleteIfSettled ==
    req.status = "ok" =>
        /\ req.kind \in {"list", "names", "inventory"} =>
            Rows(Held(always, Bags)) \subseteq Elements(req.got)
        /\ req.kind \in {"home", "housing"} =>
            BagsOf(always, req.home) \subseteq Elements(req.got)
        /\ req.kind = "members" =>
            /\ req.profile = 0 => Held(always, {Profile}) = {}
            /\ \A k \in Regions :
                Cardinality(BagsOf(always, k)) <= req.coins

\* A player or a bag that two regions hold while it moves is listed once.
ListedOnce ==
    req.kind # "list" => \A b \in Bags : req.got[b] <= 1

\* /cache-health says ready only if every region was ready, and the memory
\* under its ceiling, at some moment of the request, and says not ready only if
\* one of them was not all along. That there was one moment when all of them
\* were is more than the walk can promise.
HealthIsTrue ==
    req.kind = "health" /\ req.status = "ok" =>
        /\ req.ok => was = 0..N
        /\ up = 0..N => req.ok

=============================================================================
