---------------------------- MODULE FanOutProofs ----------------------------
(***************************************************************************)
(* Requests over the fleet, for any number of shards, rows and changes of  *)
(* the fleet while the request runs: what the answers are worth.           *)
(***************************************************************************)
EXTENDS FanOut, FiniteSetTheorems, TLAPS

\* The history variables frame the fleet as it is, and a region that is not
\* ready has no rows.
Framed ==
    /\ \A k \in Regions : \A x \in RowIds :
        /\ <<k, x>> \in always => x \in rows[k]
        /\ x \in rows[k] => <<k, x>> \in ever
    /\ \A k \in Regions \ ready : rows[k] = {}
    /\ up \subseteq Fit(ready, pressure) /\ Fit(ready, pressure) \subseteq was

In(stage) == req.status = "open" /\ StageOf(req) = stage
Passed == {k \in Regions : k < req.pos}

\* Where the walk has been, what it looks for was not there all along, and
\* what was there all along it has.
Walked ==
    /\ In("find") => \A k \in Passed : <<k, Key>> \notin always
    /\ In("gather") /\ req.kind = "inventory" /\ req.at = 0 =>
            \A k \in Regions : <<k, Key>> \notin always
    /\ In("gather") => \A k \in Passed : BagsOf(always, k) \subseteq Elements(req.got)
    /\ In("house") => \A k \in Passed : \A x \in Regions : <<k, x>> \notin always
    /\ In("visit") => \A k \in Passed : k = req.home => BagsOf(always, k) = {}
    /\ In("others") => \A k \in Regions : k \in Passed \/ k = req.at =>
            /\ req.profile = 0 => <<k, Profile>> \notin always
            /\ Cardinality(BagsOf(always, k)) <= req.coins
    /\ In("check") =>
        /\ req.ok => \A k \in Passed \cup {0} : k \in was
        /\ ~req.ok => \E k \in 0..N : k \notin up

\* Only the gathering handlers have a list before they are done.
Unlisted ==
    req.status = "open" /\ req.kind \notin {"list", "names", "inventory"} => req.got = Nothing

Inv ==
    /\ TypeOK /\ Framed /\ Walked /\ Unlisted
    /\ NotFoundIsTrue /\ NothingInvented /\ CompleteIfSettled /\ ListedOnce /\ HealthIsTrue

-----------------------------------------------------------------------------
(* The program of a handler.                                               *)

\* Every stage of every handler, and whether it is the last one.
LEMMA Stages ==
    ASSUME NEW q \in Requests, q.stage <= Len(Program[q.kind])
    PROVE  \/ StageOf(q) = "find" /\ q.stage = 1 /\ q.kind = "lookup" /\ Len(Program[q.kind]) = 1
           \/ StageOf(q) = "gather" /\ q.stage = 1 /\ q.kind \in {"list", "names"}
              /\ Len(Program[q.kind]) = 1
           \/ StageOf(q) = "check" /\ q.stage = 1 /\ q.kind = "health" /\ Len(Program[q.kind]) = 1
           \/ StageOf(q) = "find" /\ q.stage = 1 /\ q.kind \in {"inventory", "home", "members"}
              /\ Len(Program[q.kind]) = 2
           \/ StageOf(q) = "gather" /\ q.stage = 2 /\ q.kind = "inventory"
              /\ Len(Program[q.kind]) = 2
           \/ StageOf(q) = "visit" /\ q.stage = 2 /\ q.kind = "home" /\ Len(Program[q.kind]) = 2
           \/ StageOf(q) = "others" /\ q.stage = 2 /\ q.kind = "members"
              /\ Len(Program[q.kind]) = 2
           \/ StageOf(q) = "find" /\ q.stage = 1 /\ q.kind = "housing" /\ Len(Program[q.kind]) = 3
           \/ StageOf(q) = "house" /\ q.stage = 2 /\ q.kind = "housing"
              /\ Len(Program[q.kind]) = 3
           \/ StageOf(q) = "visit" /\ q.stage = 3 /\ q.kind = "housing"
              /\ Len(Program[q.kind]) = 3
<1>1. q.kind \in Kinds /\ q.stage \in 1..3
  BY DEF Requests
<1>2. Kinds = {"lookup", "list", "names", "inventory", "home", "housing", "members", "health"}
  BY DEF Kinds, Program
<1>3. CASE q.kind = "lookup"
  BY <1>1, <1>3 DEF Program, LookupLoops, StageOf
<1>4. CASE q.kind \in {"list", "names"}
  BY <1>1, <1>4 DEF Program, ListLoops, NamesLoops, StageOf
<1>5. CASE q.kind = "inventory"
  BY <1>1, <1>5 DEF Program, InventoryLoops, StageOf
<1>6. CASE q.kind = "home"
  BY <1>1, <1>6 DEF Program, HomeLoops, StageOf
<1>7. CASE q.kind = "housing"
  BY <1>1, <1>7 DEF Program, HousingLoops, StageOf
<1>8. CASE q.kind = "members"
  BY <1>1, <1>8 DEF Program, MembersLoops, StageOf
<1>9. CASE q.kind = "health"
  BY <1>1, <1>9 DEF Program, HealthLoops, StageOf
<1>10. QED
  BY <1>1, <1>2, <1>3, <1>4, <1>5, <1>6, <1>7, <1>8, <1>9

-----------------------------------------------------------------------------
(* The fleet changes while the request waits.                              *)

LEMMA BagCounts ==
    ASSUME NEW S, NEW k
    PROVE  /\ IsFiniteSet(BagsOf(S, k))
           /\ Cardinality(BagsOf(S, k)) \in 0..Cardinality(Bags)
<1>1. BagsOf(S, k) \subseteq Bags /\ IsFiniteSet(Bags)
  BY FanOutAssumption DEF BagsOf
<1>2. QED
  BY <1>1, FS_Subset, FS_CardinalityType

LEMMA FewerBags ==
    ASSUME NEW S, NEW T, S \subseteq T, NEW k
    PROVE  /\ BagsOf(S, k) \subseteq BagsOf(T, k)
           /\ Cardinality(BagsOf(S, k)) <= Cardinality(BagsOf(T, k))
<1>1. BagsOf(S, k) \subseteq BagsOf(T, k)
  BY DEF BagsOf
<1>2. QED
  BY <1>1, BagCounts, FS_Subset

\* A row of a region is a bag of its store, or a number of those.
LEMMA CoinTypes ==
    ASSUME NEW k
    PROVE  Coins(k) \in 0..Cardinality(Bags)
<1>1. rows[k] \cap Bags \subseteq Bags /\ IsFiniteSet(Bags)
  BY FanOutAssumption
<1>2. QED
  BY <1>1, FS_Subset, FS_CardinalityType DEF Coins

LEMMA CoinsAreNat ==
    ASSUME NEW q \in Requests
    PROVE  q.coins \in Nat
<1>1. Cardinality(Bags) \in Nat
  BY FanOutAssumption, FS_CardinalityType
<1>2. QED
  BY <1>1 DEF Requests

LEMMA WatchKeeps ==
    ASSUME Inv, Watch,
           ready' \subseteq Regions, rows' \in [Regions -> SUBSET RowIds], pressure' \in BOOLEAN,
           \A k \in Regions \ ready' : rows'[k] = {}
    PROVE  Inv'
<1>1. /\ req' = req /\ req.status = "open"
      /\ always' \subseteq always /\ ever \subseteq ever' /\ up' \subseteq up /\ was \subseteq was'
      /\ changes' \in 0..MaxChanges
  BY FanOutAssumption DEF Inv, TypeOK, Watch
<1>2. TypeOK'
  <2>1. always' \subseteq ever' /\ ever' \subseteq Regions \X RowIds
    BY DEF Inv, TypeOK, Watch, Visible
  <2>2. up' \subseteq was'
    BY DEF Inv, TypeOK, Watch
  <2>3. Fit(ready', pressure') \subseteq 0..N
    BY FanOutAssumption DEF Fit, Regions
  <2>4. was' \subseteq 0..N
    BY <2>3 DEF Inv, TypeOK, Watch
  <2>5. (req \in Requests /\ req.stage <= Len(Program[req.kind]))'
    BY <1>1 DEF Inv, TypeOK, Requests
  <2>6. QED
    BY <1>1, <2>1, <2>2, <2>4, <2>5 DEF TypeOK
<1>3. Framed'
  BY DEF Watch, Framed, Visible
<1>4. \A k : /\ BagsOf(always', k) \subseteq BagsOf(always, k)
             /\ Cardinality(BagsOf(always', k)) <= Cardinality(BagsOf(always, k))
             /\ Cardinality(BagsOf(ever, k)) <= Cardinality(BagsOf(ever', k))
             /\ BagsOf(ever, k) \subseteq BagsOf(ever', k)
  BY <1>1, FewerBags
<1>5. \A k : /\ Cardinality(BagsOf(always', k)) \in Nat /\ Cardinality(BagsOf(always, k)) \in Nat
             /\ Cardinality(BagsOf(ever', k)) \in Nat /\ Cardinality(BagsOf(ever, k)) \in Nat
  BY BagCounts
<1>6. req.coins \in Nat
  BY CoinsAreNat DEF Inv, TypeOK
<1>7. Walked'
  BY <1>1, <1>4, <1>5, <1>6 DEF Inv, Walked, In, StageOf, Passed, Elements
<1>8. (Unlisted /\ NotFoundIsTrue /\ CompleteIfSettled /\ ListedOnce /\ HealthIsTrue)'
  BY <1>1 DEF Inv, Unlisted, NotFoundIsTrue, CompleteIfSettled, ListedOnce, HealthIsTrue
<1>9. NothingInvented'
  <2>1. Rows(ever) \subseteq Rows(ever')
    BY <1>1 DEF Rows
  <2>2. NothingInvented
    BY DEF Inv
  <2>3. (req.coins > 0 => \E k \in Regions : req.coins <= Cardinality(BagsOf(ever, k)))'
    BY <1>1, <1>4, <1>5, <1>6, <2>2 DEF NothingInvented
  <2>4. QED
    BY <1>1, <2>1, <2>2, <2>3 DEF NothingInvented, Elements
<1>10. QED
  BY <1>2, <1>3, <1>7, <1>8, <1>9 DEF Inv

LEMMA FleetStep ==
    ASSUME Inv, (\E k \in Regions : Load(k) \/ End(k) \/ Apply(k)) \/ Sample
    PROVE  Inv'
<1>1. /\ ready \subseteq Regions /\ rows \in [Regions -> SUBSET RowIds] /\ pressure \in BOOLEAN
      /\ \A k \in Regions \ ready : rows[k] = {}
  BY DEF Inv, TypeOK, Framed
<1>2. Relevant[req.kind] \subseteq RowIds
  BY DEF Inv, TypeOK, Requests, Kinds, Program, Relevant, RowIds
<1>3. ASSUME NEW k \in Regions, Load(k) PROVE Inv'
  <2>1. Watch /\ ready' \subseteq Regions /\ pressure' \in BOOLEAN
    BY <1>1, <1>3 DEF Load
  <2>2. PICK R \in SUBSET Relevant[req.kind] : rows' = [rows EXCEPT ![k] = R]
    BY <1>3 DEF Load
  <2>3. rows' \in [Regions -> SUBSET RowIds] /\ \A j \in Regions \ ready' : rows'[j] = {}
    BY <1>1, <1>2, <1>3, <2>2 DEF Load
  <2>4. QED
    BY <2>1, <2>3, WatchKeeps
<1>4. ASSUME NEW k \in Regions, End(k) PROVE Inv'
  <2>1. Watch /\ ready' \subseteq Regions /\ pressure' \in BOOLEAN
    BY <1>1, <1>4 DEF End
  <2>2. rows' \in [Regions -> SUBSET RowIds] /\ \A j \in Regions \ ready' : rows'[j] = {}
    BY <1>1, <1>4 DEF End
  <2>3. QED
    BY <2>1, <2>2, WatchKeeps
<1>5. ASSUME NEW k \in Regions, Apply(k) PROVE Inv'
  <2>1. Watch /\ ready' \subseteq Regions /\ pressure' \in BOOLEAN
    BY <1>1, <1>5 DEF Apply
  <2>2. PICK x \in Relevant[req.kind] :
            rows' = [rows EXCEPT ![k] = IF x \in @ THEN @ \ {x} ELSE @ \cup {x}]
    BY <1>5 DEF Apply
  <2>3. x \in RowIds
    BY <1>2
  <2>4. rows' \in [Regions -> SUBSET RowIds] /\ \A j \in Regions \ ready' : rows'[j] = {}
    BY <1>1, <1>5, <2>2, <2>3 DEF Apply
  <2>5. QED
    BY <2>1, <2>4, WatchKeeps
<1>6. ASSUME Sample PROVE Inv'
  <2>1. Watch /\ ready' = ready /\ rows' = rows /\ pressure' = ~pressure
    BY <1>6 DEF Sample
  <2>2. pressure' \in BOOLEAN
    BY <2>1
  <2>3. QED
    BY <1>1, <2>1, <2>2, WatchKeeps
<1>7. QED
  BY <1>3, <1>4, <1>5, <1>6

-----------------------------------------------------------------------------
(* The request reads a shard.                                              *)

LEMMA SkipFields ==
    ASSUME NEW q \in Requests, q.pos \in Regions
    PROVE  /\ Skip(q) \in Requests /\ Skip(q).pos = q.pos + 1
           /\ Skip(q).kind = q.kind /\ Skip(q).stage = q.stage /\ Skip(q).at = q.at
           /\ Skip(q).home = q.home /\ Skip(q).got = q.got /\ Skip(q).coins = q.coins
           /\ Skip(q).profile = q.profile /\ Skip(q).ok = q.ok /\ Skip(q).status = q.status
BY FanOutAssumption DEF Requests, Skip, Regions

LEMMA PassedGrows ==
    ASSUME req \in Requests, req.pos \in Regions, req'.pos = req.pos + 1
    PROVE  Passed' = Passed \cup {req.pos}
BY FanOutAssumption DEF Passed, Requests, Regions

\* What is left to show of a step of the request.
LEMMA RequestStep ==
    ASSUME Inv, UNCHANGED <<fleet, ghosts>>,
           req' \in Requests, req'.stage <= Len(Program[req'.kind]),
           (Walked /\ Unlisted /\ NotFoundIsTrue /\ NothingInvented /\ CompleteIfSettled
              /\ ListedOnce /\ HealthIsTrue)'
    PROVE  Inv'
BY DEF Inv, TypeOK, Framed, fleet, ghosts

\* The walk passes a shard that has nothing of what it looks for.
LEMMA Pass ==
    ASSUME Inv, UNCHANGED <<fleet, ghosts>>, req.status = "open",
           NEW k \in Regions, k = req.pos, req' = Skip(req),
           ~In("check"),
           In("find") => <<k, Key>> \notin always,
           In("gather") => BagsOf(always, k) = {},
           In("house") => \A x \in Regions : <<k, x>> \notin always,
           In("visit") => (k = req.home => BagsOf(always, k) = {}),
           In("others") => k = req.at \/ (<<k, Profile>> \notin always /\ BagsOf(always, k) = {})
    PROVE  Inv'
<1>1. /\ req' \in Requests /\ req'.pos = req.pos + 1
      /\ req'.kind = req.kind /\ req'.stage = req.stage /\ req'.at = req.at
      /\ req'.home = req.home /\ req'.got = req.got /\ req'.coins = req.coins
      /\ req'.profile = req.profile /\ req'.ok = req.ok /\ req'.status = req.status
  BY SkipFields DEF Inv, TypeOK, Requests
<1>2. Passed' = Passed \cup {k}
  BY <1>1, PassedGrows DEF Inv, TypeOK
<1>3. \A stage : In(stage)' <=> In(stage)
  BY <1>1 DEF In, StageOf
<1>4. always' = always /\ ever' = ever /\ up' = up /\ was' = was
  BY DEF ghosts
<1>5. In("others") => (k # req.at => Cardinality(BagsOf(always, k)) <= req.coins)
  <2>1. Cardinality({}) = 0
    BY FS_EmptySet
  <2>2. req.coins \in Nat
    BY CoinsAreNat DEF Inv, TypeOK
  <2>3. QED
    BY <2>1, <2>2
<1>6. Walked'
  BY <1>1, <1>2, <1>3, <1>4, <1>5 DEF Inv, Walked, Elements
<1>7. (Unlisted /\ NotFoundIsTrue /\ NothingInvented /\ CompleteIfSettled /\ ListedOnce
         /\ HealthIsTrue)'
  BY <1>1, <1>4 DEF Inv, Unlisted, NotFoundIsTrue, NothingInvented, CompleteIfSettled, ListedOnce,
                    HealthIsTrue, Elements
<1>8. req'.stage <= Len(Program[req'.kind])
  BY <1>1 DEF Inv, TypeOK
<1>9. QED
  BY <1>1, <1>6, <1>7, <1>8, RequestStep

\* A region whose store holds no row of a set held none of them all along.
LEMMA NotHeld ==
    ASSUME Inv, NEW k \in Regions
    PROVE  /\ Key \notin rows[k] => <<k, Key>> \notin always
           /\ Profile \notin rows[k] => <<k, Profile>> \notin always
           /\ rows[k] \cap Regions = {} => \A x \in Regions : <<k, x>> \notin always
           /\ BagsOf(always, k) \subseteq rows[k] \cap Bags
           /\ k \notin ready => rows[k] = {}
BY DEF Inv, Framed, BagsOf, RowIds

LEMMA NotReady ==
    ASSUME Inv, UNCHANGED <<fleet, ghosts>>, req.status = "open",
           NEW k \in Regions, k = req.pos, k \notin ready, StageOf(req) # "check", req' = Skip(req)
    PROVE  Inv'
BY NotHeld, Pass DEF In

LEMMA EnterFields ==
    ASSUME NEW q \in Requests, q.stage < 3
    PROVE  /\ Enter(q) \in Requests /\ Enter(q).pos = 1 /\ Enter(q).stage = q.stage + 1
           /\ Enter(q).kind = q.kind /\ Enter(q).at = q.at
           /\ Enter(q).home = q.home /\ Enter(q).got = q.got /\ Enter(q).coins = q.coins
           /\ Enter(q).profile = q.profile /\ Enter(q).ok = q.ok /\ Enter(q).status = q.status
<1> DEFINE r == [q EXCEPT !.stage = q.stage + 1]
<1>1. q.stage + 1 \in 1..3 /\ 1 \in 1..(N + 1)
  BY FanOutAssumption DEF Requests
<1>2. /\ r \in Requests /\ r.stage = q.stage + 1 /\ r.kind = q.kind /\ r.at = q.at
      /\ r.home = q.home /\ r.got = q.got /\ r.coins = q.coins
      /\ r.profile = q.profile /\ r.ok = q.ok /\ r.status = q.status
  BY <1>1 DEF Requests
<1>3. Enter(q) = [r EXCEPT !.pos = 1]
  BY DEF Enter
<1> HIDE DEF r
<1>4. QED
  BY <1>1, <1>2, <1>3 DEF Requests

LEMMA DoneFields ==
    ASSUME NEW q \in Requests, NEW s \in {"ok", "notFound", "noHouse"}
    PROVE  /\ Done(q, s) \in Requests /\ Done(q, s).status = s
           /\ Done(q, s).kind = q.kind /\ Done(q, s).stage = q.stage /\ Done(q, s).at = q.at
           /\ Done(q, s).home = q.home /\ Done(q, s).got = q.got /\ Done(q, s).coins = q.coins
           /\ Done(q, s).profile = q.profile /\ Done(q, s).ok = q.ok
BY DEF Requests, Done

\* What a region's store holds is held now, and what it held all along it holds.
LEMMA HeldNow ==
    ASSUME Inv, NEW k \in Regions
    PROVE  /\ \A x \in RowIds : x \in rows[k] => <<k, x>> \in ever
           /\ Key \in rows[k] => <<k, Key>> \in ever
           /\ Profile \in rows[k] => <<k, Profile>> \in ever
           /\ BagsOf(always, k) \subseteq rows[k] \cap Bags
           /\ rows[k] \cap Bags \subseteq BagsOf(ever, k)
           /\ Cardinality(BagsOf(always, k)) <= Coins(k)
           /\ Coins(k) <= Cardinality(BagsOf(ever, k))
<1>1. /\ \A x \in RowIds : x \in rows[k] => <<k, x>> \in ever
      /\ Key \in RowIds /\ Profile \in RowIds /\ Bags \subseteq RowIds
  BY DEF Inv, Framed, RowIds
<1>2. /\ BagsOf(always, k) \subseteq rows[k] \cap Bags
      /\ rows[k] \cap Bags \subseteq BagsOf(ever, k)
  BY <1>1, NotHeld DEF BagsOf
<1>3. IsFiniteSet(rows[k] \cap Bags) /\ IsFiniteSet(BagsOf(ever, k))
  BY FanOutAssumption, BagCounts, FS_Subset
<1>4. QED
  BY <1>1, <1>2, <1>3, FS_Subset DEF Coins

\* The key is found: a lookup is done and the others enter their next stage.
LEMMA FoundStep ==
    ASSUME Inv, UNCHANGED <<fleet, ghosts>>, req.status = "open",
           NEW k \in Regions, StageOf(req) = "find", Key \in rows[k], req' = Find(req, k)
    PROVE  Inv'
<1> DEFINE f == [req EXCEPT !.at = k, !.home = k]
           g == IF req.kind = "members" THEN Enrolled(f, k) ELSE f
<1>1. /\ req \in Requests /\ req.stage = 1
      /\ req.kind \in {"lookup", "inventory", "home", "housing", "members"}
      /\ req.kind = "lookup" <=> req.stage = Len(Program[req.kind])
      /\ req.kind # "lookup" => 2 <= Len(Program[req.kind])
      /\ req.stage <= Len(Program[req.kind])
  BY Stages DEF Inv, TypeOK
<1>2. k \in 1..N /\ 1 \in 1..(N + 1) /\ k \in 0..N /\ 0 \in 0..N
  BY FanOutAssumption DEF Regions
<1>3. /\ f \in Requests /\ f.kind = req.kind /\ f.stage = 1 /\ f.at = k /\ f.home = k
      /\ f.got = req.got /\ f.coins = req.coins /\ f.profile = req.profile
      /\ f.ok = req.ok /\ f.status = "open"
  BY <1>1, <1>2 DEF Requests
<1>4. /\ g \in Requests /\ g.kind = req.kind /\ g.stage = 1 /\ g.at = k /\ g.home = k
      /\ g.got = req.got /\ g.ok = req.ok /\ g.status = "open"
      /\ req.kind # "members" => g.coins = req.coins /\ g.profile = req.profile
      /\ req.kind = "members" =>
            g.coins = Coins(k) /\ g.profile = IF Profile \in rows[k] THEN k ELSE 0
  <2>1. CASE req.kind # "members"
    BY <1>3, <2>1
  <2>2. CASE req.kind = "members"
    BY <1>2, <1>3, <2>2, CoinTypes DEF Requests, Enrolled
  <2>3. QED
    BY <2>1, <2>2
<1>5. req' = Advance(g)
  BY DEF Find
<1>7. /\ always' = always /\ ever' = ever
      /\ <<k, Key>> \in ever
      /\ Profile \in rows[k] => <<k, Profile>> \in ever
      /\ BagsOf(always, k) \subseteq rows[k] \cap Bags
      /\ rows[k] \cap Bags \subseteq BagsOf(ever, k)
      /\ Cardinality(BagsOf(always, k)) <= Coins(k)
      /\ Coins(k) <= Cardinality(BagsOf(ever, k))
  BY HeldNow DEF ghosts
<1> HIDE DEF g
<1>6. CASE req.kind = "lookup"
  <2>1. /\ req' \in Requests /\ req'.kind = "lookup" /\ req'.stage = 1 /\ req'.at = k
        /\ req'.got = req.got /\ req'.coins = req.coins /\ req'.profile = req.profile
        /\ req'.status = "ok" /\ req'.stage <= Len(Program[req'.kind])
    <3>1. req' = Done(g, "ok")
      BY <1>1, <1>4, <1>5, <1>6 DEF Advance
    <3>2. QED
      BY <1>1, <1>4, <1>6, <3>1, DoneFields
  <2>2. (Walked /\ Unlisted /\ NotFoundIsTrue /\ CompleteIfSettled /\ ListedOnce /\ HealthIsTrue)'
    <3>1. Walked'
      BY <2>1 DEF Walked, In
    <3>2. (Unlisted /\ NotFoundIsTrue)'
      BY <2>1 DEF Unlisted, NotFoundIsTrue
    <3>3. (CompleteIfSettled /\ HealthIsTrue)'
      BY <2>1 DEF CompleteIfSettled, HealthIsTrue
    <3>4. ListedOnce'
      BY <1>6, <2>1 DEF Inv, ListedOnce
    <3>5. QED
      BY <3>1, <3>2, <3>3, <3>4
  <2>3. NothingInvented'
    BY <1>7, <2>1 DEF Inv, NothingInvented, Elements
  <2>4. QED
    BY <1>1, <1>6, <2>1, <2>2, <2>3, RequestStep
<1>8. CASE req.kind # "lookup"
  <2>1. /\ req' \in Requests /\ req'.kind = req.kind /\ req'.stage = 2 /\ req'.at = k
        /\ req'.home = k /\ req'.pos = 1 /\ req'.got = req.got /\ req'.coins = g.coins
        /\ req'.profile = g.profile /\ req'.status = "open"
        /\ req'.stage <= Len(Program[req'.kind])
    <3>1. req' = Enter(g)
      BY <1>1, <1>4, <1>5, <1>8 DEF Advance
    <3>2. QED
      BY <1>1, <1>4, <1>8, <3>1, EnterFields
  <2>2. /\ StageOf(req') = "gather" <=> req.kind = "inventory"
        /\ StageOf(req') = "visit" <=> req.kind = "home"
        /\ StageOf(req') = "house" <=> req.kind = "housing"
        /\ StageOf(req') = "others" <=> req.kind = "members"
        /\ StageOf(req') \in {"gather", "visit", "house", "others"}
    BY <1>1, <1>8, <2>1, Stages
  <2>3. Passed' = {}
    BY <2>1 DEF Passed, Regions
  <2>4. Walked'
    <3>1. In("gather")' => req'.at # 0 \/ req'.kind # "inventory"
      BY <2>1 DEF Regions
    <3>2. In("others")' =>
            /\ g.profile = 0 => <<k, Profile>> \notin always
            /\ Cardinality(BagsOf(always, k)) <= g.coins
      BY <1>4, <1>7, <2>1, <2>2, NotHeld DEF In, Regions
    <3>3. ~In("find")' /\ ~In("check")'
      BY <2>2 DEF In
    <3>4. QED
      BY <1>7, <2>1, <2>3, <3>1, <3>2, <3>3 DEF Walked
  <2>5. (Unlisted /\ NotFoundIsTrue /\ CompleteIfSettled /\ ListedOnce /\ HealthIsTrue)'
    BY <2>1 DEF Inv, Unlisted, NotFoundIsTrue, CompleteIfSettled, ListedOnce, HealthIsTrue
  <2>6. NothingInvented'
    BY <1>4, <1>7, <2>1 DEF Inv, NothingInvented, Elements, Unlisted, Nothing
  <2>7. QED
    BY <2>1, <2>4, <2>5, <2>6, RequestStep
<1>9. QED
  BY <1>6, <1>8

LEMMA BagsAreRows ==
    ASSUME NEW S, NEW k
    PROVE  BagsOf(S, k) \subseteq Rows(S)
<1>1. ASSUME NEW b \in BagsOf(S, k) PROVE b \in Rows(S)
  <2>1. <<k, b>> \in S
    BY DEF BagsOf
  <2>2. <<k, b>>[2] = b
    OBVIOUS
  <2>3. QED
    BY <2>1, <2>2 DEF Rows
<1>2. QED
  BY <1>1

\* A list takes what the region holds.
LEMMA GatherStep ==
    ASSUME Inv, UNCHANGED <<fleet, ghosts>>, req.status = "open",
           NEW k \in Regions, k = req.pos, StageOf(req) = "gather", req' = Gather(req, k)
    PROVE  Inv'
<1> DEFINE G == [b \in Bags |-> IF Dedups(req) /\ req.got[b] > 0 THEN req.got[b]
                                ELSE req.got[b] + Listed(k)[b]]
           r == [req EXCEPT !.got = G]
<1>1. /\ req \in Requests /\ req.kind \in {"list", "names", "inventory"}
      /\ req.stage <= Len(Program[req.kind]) /\ req.got \in [Bags -> Nat]
  BY Stages DEF Inv, TypeOK, Requests
<1>2. G \in [Bags -> Nat]
  BY <1>1 DEF Listed
<1>3. Elements(G) = Elements(req.got) \cup (rows[k] \cap Bags)
  BY <1>1 DEF Elements, Listed
<1>4. req.kind # "list" => \A b \in Bags : G[b] <= 1
  <2>1. req.kind # "list" => Dedups(req) /\ \A b \in Bags : req.got[b] <= 1
    BY <1>1 DEF Inv, ListedOnce, Dedups
  <2>2. QED
    BY <1>1, <2>1 DEF Listed
<1> HIDE DEF G
<1>5. /\ r \in Requests /\ r.pos = k /\ r.kind = req.kind /\ r.stage = req.stage /\ r.at = req.at
      /\ r.home = req.home /\ r.got = G /\ r.coins = req.coins
      /\ r.profile = req.profile /\ r.ok = req.ok /\ r.status = "open"
  BY <1>1, <1>2 DEF Requests
<1>6. req' = Skip(r)
  BY DEF Gather, G
<1> HIDE DEF r
<1>7. /\ req' \in Requests /\ req'.pos = k + 1 /\ req'.kind = req.kind /\ req'.stage = req.stage
      /\ req'.at = req.at /\ req'.home = req.home /\ req'.got = G /\ req'.coins = req.coins
      /\ req'.profile = req.profile /\ req'.status = "open"
      /\ req'.stage <= Len(Program[req'.kind])
  BY <1>1, <1>5, <1>6, SkipFields
<1>8. /\ always' = always /\ ever' = ever
      /\ BagsOf(always, k) \subseteq rows[k] \cap Bags
      /\ \A b \in rows[k] \cap Bags : <<k, b>> \in ever
  BY HeldNow DEF ghosts, BagsOf
<1>9. Passed' = Passed \cup {k}
  BY <1>1, <1>7, PassedGrows
<1>10. In("gather") /\ (\A stage : In(stage)' <=> In(stage))
  BY <1>7 DEF In, StageOf
<1>11. Walked'
  <2>1. \A j \in Passed' : BagsOf(always, j) \subseteq Elements(G)
    BY <1>3, <1>8, <1>9, <1>10 DEF Inv, Walked
  <2>2. req.kind = "inventory" /\ req.at = 0 => \A j \in Regions : <<j, Key>> \notin always
    BY <1>10 DEF Inv, Walked
  <2>3. \A stage : In(stage)' => stage = "gather"
    BY <1>10 DEF In
  <2>4. QED
    BY <1>7, <1>8, <2>1, <2>2, <2>3 DEF Walked
<1>12. (Unlisted /\ NotFoundIsTrue /\ CompleteIfSettled)'
  BY <1>1, <1>7 DEF Unlisted, NotFoundIsTrue, CompleteIfSettled
<1>13. (ListedOnce /\ HealthIsTrue)'
  BY <1>4, <1>7 DEF ListedOnce, HealthIsTrue
<1>14. NothingInvented'
  <2>1. Elements(G) \subseteq Rows(ever)
    BY <1>3, HeldNow, BagsAreRows DEF Inv, NothingInvented
  <2>2. QED
    BY <1>1, <1>7, <1>8, <2>1 DEF Inv, NothingInvented
<1>15. QED
  BY <1>7, <1>11, <1>12, <1>13, <1>14, RequestStep

\* The first housing row names the region to visit.
LEMMA HouseStep ==
    ASSUME Inv, UNCHANGED <<fleet, ghosts>>, req.status = "open",
           NEW k \in Regions, k = req.pos, StageOf(req) = "house",
           NEW h \in rows[k] \cap Regions, req' = House(req, h)
    PROVE  Inv'
<1> DEFINE r == [req EXCEPT !.home = h]
<1>1. /\ req \in Requests /\ req.kind = "housing" /\ req.stage = 2
      /\ 3 <= Len(Program["housing"]) /\ req.got = Nothing
  BY Stages DEF Inv, TypeOK, Unlisted
<1>2. h \in 0..N
  BY FanOutAssumption DEF Regions
<1>3. /\ r \in Requests /\ r.kind = "housing" /\ r.stage = 2 /\ r.at = req.at /\ r.home = h
      /\ r.got = Nothing /\ r.coins = req.coins /\ r.profile = req.profile /\ r.status = "open"
  BY <1>1, <1>2 DEF Requests
<1>4. req' = Enter(r)
  BY DEF House
<1> HIDE DEF r
<1>5. /\ req' \in Requests /\ req'.pos = 1 /\ req'.kind = "housing" /\ req'.stage = 3
      /\ req'.at = req.at /\ req'.home = h /\ req'.got = Nothing /\ req'.coins = req.coins
      /\ req'.profile = req.profile /\ req'.status = "open"
      /\ req'.stage <= Len(Program[req'.kind])
  <2>1. r.stage < 3
    BY <1>3
  <2>2. QED
    BY <1>1, <1>3, <1>4, <2>1, EnterFields
<1>6. StageOf(req') = "visit" /\ Passed' = {}
  <2>1. StageOf(req') = "visit"
    BY <1>5, Stages
  <2>2. Passed' = {}
    BY <1>5 DEF Passed, Regions
  <2>3. QED
    BY <2>1, <2>2
<1>7. Walked'
  BY <1>5, <1>6 DEF Walked, In
<1>8. (Unlisted /\ NotFoundIsTrue /\ CompleteIfSettled)'
  BY <1>5 DEF Unlisted, NotFoundIsTrue, CompleteIfSettled
<1>9. (ListedOnce /\ HealthIsTrue)'
  BY <1>5 DEF ListedOnce, HealthIsTrue, Nothing
<1>10. NothingInvented'
  BY <1>5 DEF Inv, NothingInvented, Elements, Nothing, ghosts
<1>11. QED
  BY <1>5, <1>7, <1>8, <1>9, <1>10, RequestStep

\* The region of the player, or of the house, is read, and that is the answer.
LEMMA VisitStep ==
    ASSUME Inv, UNCHANGED <<fleet, ghosts>>, req.status = "open",
           NEW k \in Regions, StageOf(req) = "visit", k = req.home,
           req' = Visit(req, k)
    PROVE  Inv'
<1> DEFINE r == [req EXCEPT !.got = Listed(k)]
<1>1. /\ req \in Requests /\ req.kind \in {"home", "housing"}
      /\ req.stage <= Len(Program[req.kind])
  BY Stages DEF Inv, TypeOK
<1>2. /\ Listed(k) \in [Bags -> Nat] /\ Elements(Listed(k)) = rows[k] \cap Bags
      /\ \A b \in Bags : Listed(k)[b] <= 1
  BY DEF Listed, Elements
<1>3. /\ r \in Requests /\ r.kind = req.kind /\ r.stage = req.stage /\ r.at = req.at
      /\ r.home = k /\ r.got = Listed(k) /\ r.coins = req.coins /\ r.profile = req.profile
  BY <1>1, <1>2 DEF Requests
<1>4. req' = Done(r, "ok")
  BY DEF Visit
<1> HIDE DEF r
<1>5. /\ req' \in Requests /\ req'.kind = req.kind /\ req'.stage = req.stage
      /\ req'.at = req.at /\ req'.home = k /\ req'.got = Listed(k) /\ req'.coins = req.coins
      /\ req'.profile = req.profile /\ req'.status = "ok"
      /\ req'.stage <= Len(Program[req'.kind])
  BY <1>1, <1>3, <1>4, DoneFields
<1>6. /\ always' = always /\ ever' = ever
      /\ BagsOf(always, k) \subseteq rows[k] \cap Bags
      /\ \A b \in rows[k] \cap Bags : <<k, b>> \in ever
  BY HeldNow DEF ghosts, BagsOf
<1>7. (Walked /\ Unlisted /\ NotFoundIsTrue)'
  BY <1>5 DEF Walked, In, Unlisted, NotFoundIsTrue
<1>8. CompleteIfSettled'
  BY <1>1, <1>2, <1>5, <1>6 DEF CompleteIfSettled
<1>9. (ListedOnce /\ HealthIsTrue)'
  BY <1>1, <1>2, <1>5 DEF ListedOnce, HealthIsTrue
<1>10. NothingInvented'
  <2>1. Elements(Listed(k)) \subseteq Rows(ever)
    BY <1>2, HeldNow, BagsAreRows
  <2>2. QED
    BY <1>2, <1>5, <1>6, <2>1 DEF Inv, NothingInvented
<1>11. QED
  BY <1>5, <1>7, <1>8, <1>9, <1>10, RequestStep

\* Another region completes the member.
LEMMA OthersStep ==
    ASSUME Inv, UNCHANGED <<fleet, ghosts>>, req.status = "open",
           NEW k \in Regions, k = req.pos, StageOf(req) = "others", k # req.at,
           req' = Others(req, k)
    PROVE  Inv'
<1> DEFINE c == Larger(req.coins, Coins(k))
           p == IF req.profile = 0 /\ Profile \in rows[k] THEN k ELSE req.profile
           r == [req EXCEPT !.coins = c, !.profile = p]
<1>1. /\ req \in Requests /\ req.kind = "members" /\ req.got = Nothing
      /\ req.stage <= Len(Program[req.kind])
  BY Stages DEF Inv, TypeOK, Unlisted
<1>2. Cardinality(Bags) \in Nat /\ req.coins \in 0..Cardinality(Bags) /\ req.profile \in 0..N
  BY <1>1, FanOutAssumption, FS_CardinalityType DEF Requests
<1>3. /\ c \in 0..Cardinality(Bags) /\ c >= req.coins /\ c >= Coins(k)
      /\ c = req.coins \/ c = Coins(k)
  BY <1>2, CoinTypes DEF Larger
<1>4. /\ p \in 0..N
      /\ p = 0 => req.profile = 0 /\ Profile \notin rows[k]
      /\ p = req.profile \/ (p = k /\ Profile \in rows[k])
  BY <1>2, FanOutAssumption DEF Regions
<1> HIDE DEF c, p
<1>5. /\ r \in Requests /\ r.pos = k /\ r.kind = "members" /\ r.stage = req.stage
      /\ r.at = req.at /\ r.home = req.home /\ r.got = Nothing /\ r.coins = c
      /\ r.profile = p /\ r.ok = req.ok /\ r.status = "open"
  BY <1>1, <1>3, <1>4 DEF Requests
<1>6. req' = Skip(r)
  BY DEF Others, c, p
<1> HIDE DEF r
<1>7. /\ req' \in Requests /\ req'.pos = k + 1 /\ req'.kind = "members" /\ req'.stage = req.stage
      /\ req'.at = req.at /\ req'.home = req.home /\ req'.got = Nothing /\ req'.coins = c
      /\ req'.profile = p /\ req'.status = "open" /\ req'.stage <= Len(Program[req'.kind])
  BY <1>1, <1>5, <1>6, SkipFields
<1>8. /\ always' = always /\ ever' = ever
      /\ Profile \in rows[k] => <<k, Profile>> \in ever
      /\ Profile \notin rows[k] => <<k, Profile>> \notin always
      /\ Cardinality(BagsOf(always, k)) <= Coins(k)
      /\ Coins(k) <= Cardinality(BagsOf(ever, k))
  BY HeldNow, NotHeld DEF ghosts
<1>9. \A S, j : Cardinality(BagsOf(S, j)) \in Nat
  BY BagCounts
<1>10. Passed' = Passed \cup {k}
  BY <1>1, <1>7, PassedGrows
<1>11. In("others") /\ (\A stage : In(stage)' => stage = "others")
  BY <1>1, <1>7 DEF In, StageOf
<1>12. Walked'
  <2>1. ASSUME NEW j \in Regions, j \in Passed' \/ j = req.at
        PROVE  /\ p = 0 => <<j, Profile>> \notin always
               /\ Cardinality(BagsOf(always, j)) <= c
    <3>1. CASE j = k
      BY <1>2, <1>3, <1>4, <1>8, <1>9, CoinTypes, <3>1
    <3>2. CASE j # k
      <4>1. /\ req.profile = 0 => <<j, Profile>> \notin always
            /\ Cardinality(BagsOf(always, j)) <= req.coins
        BY <1>10, <1>11, <2>1, <3>2 DEF Inv, Walked
      <4>2. QED
        BY <1>2, <1>3, <1>4, <1>9, <4>1
    <3>3. QED
      BY <3>1, <3>2
  <2>2. QED
    BY <1>7, <1>8, <1>11, <2>1 DEF Walked
<1>13. (Unlisted /\ NotFoundIsTrue /\ CompleteIfSettled)'
  BY <1>7 DEF Unlisted, NotFoundIsTrue, CompleteIfSettled
<1>14. (ListedOnce /\ HealthIsTrue)'
  BY <1>7 DEF ListedOnce, HealthIsTrue, Nothing
<1>15. NothingInvented'
  <2>1. c > 0 => \E j \in Regions : c <= Cardinality(BagsOf(ever, j))
    BY <1>2, <1>3, <1>8 DEF Inv, NothingInvented
  <2>2. p # 0 => <<p, Profile>> \in ever
    BY <1>4, <1>8 DEF Inv, NothingInvented
  <2>3. Elements(Nothing) = {}
    BY DEF Elements, Nothing
  <2>4. QED
    BY <1>7, <1>8, <2>1, <2>2, <2>3 DEF Inv, NothingInvented
<1>16. QED
  BY <1>7, <1>12, <1>13, <1>14, <1>15, RequestStep

\* The readiness of one more region is looked at.
LEMMA CheckStep ==
    ASSUME Inv, UNCHANGED <<fleet, ghosts>>, req.status = "open",
           NEW k \in Regions, k = req.pos, StageOf(req) = "check", req' = Check(req, k)
    PROVE  Inv'
<1> DEFINE o == req.ok /\ k \in ready
           r == [req EXCEPT !.ok = o]
<1>1. /\ req \in Requests /\ req.kind = "health" /\ req.got = Nothing
      /\ req.stage <= Len(Program[req.kind])
  BY Stages DEF Inv, TypeOK, Unlisted
<1>2. o \in BOOLEAN
  OBVIOUS
<1>3. /\ o => req.ok /\ k \in ready
      /\ ~o => ~req.ok \/ k \notin ready
  OBVIOUS
<1>4. req' = Skip(r)
  BY DEF Check
<1> HIDE DEF o
<1>5. /\ r \in Requests /\ r.pos = k /\ r.kind = "health" /\ r.stage = req.stage
      /\ r.at = req.at /\ r.home = req.home /\ r.got = Nothing /\ r.coins = req.coins
      /\ r.profile = req.profile /\ r.ok = o /\ r.status = "open"
  BY <1>1, <1>2 DEF Requests
<1> HIDE DEF r
<1>6. /\ req' \in Requests /\ req'.pos = k + 1 /\ req'.kind = "health" /\ req'.stage = req.stage
      /\ req'.at = req.at /\ req'.home = req.home /\ req'.got = Nothing
      /\ req'.coins = req.coins /\ req'.profile = req.profile /\ req'.ok = o
      /\ req'.status = "open" /\ req'.stage <= Len(Program[req'.kind])
  BY <1>1, <1>4, <1>5, SkipFields
<1>7. always' = always /\ ever' = ever /\ up' = up /\ was' = was
  BY DEF ghosts
<1>8. (k \in ready => k \in was) /\ (k \notin ready => k \notin up)
  BY FanOutAssumption DEF Inv, Framed, Fit, Regions
<1>9. Passed' = Passed \cup {k}
  BY <1>1, <1>6, PassedGrows
<1>10. In("check") /\ (\A stage : In(stage)' => stage = "check")
  <2>1. StageOf(req') = "check"
    BY <1>1, <1>6 DEF StageOf
  <2>2. QED
    BY <2>1 DEF In
<1>11. k \in 0..N
  BY FanOutAssumption DEF Regions
<1>12. Walked'
  <2>1. o => \A j \in Passed' \cup {0} : j \in was
    BY <1>3, <1>8, <1>9, <1>10 DEF Inv, Walked
  <2>2. ~o => \E j \in 0..N : j \notin up
    BY <1>3, <1>8, <1>10, <1>11 DEF Inv, Walked
  <2>3. QED
    BY <1>6, <1>7, <1>10, <2>1, <2>2 DEF Walked
<1>13. (Unlisted /\ NotFoundIsTrue /\ CompleteIfSettled)'
  BY <1>6 DEF Unlisted, NotFoundIsTrue, CompleteIfSettled
<1>14. (ListedOnce /\ HealthIsTrue)'
  BY <1>6 DEF ListedOnce, HealthIsTrue, Nothing
<1>15. NothingInvented'
  BY <1>1, <1>6, <1>7 DEF Inv, NothingInvented
<1>16. QED
  BY <1>6, <1>12, <1>13, <1>14, <1>15, RequestStep


LEMMA ReadStep ==
    ASSUME Inv, Read
    PROVE  Inv'
<1> DEFINE k == req.pos
           At(stage) == StageOf(req) = stage /\ k \in ready
<1>1. UNCHANGED <<fleet, ghosts>> /\ req.status = "open" /\ k \in Regions
  BY DEF Read
<1>2. \/ StageOf(req) = "check" /\ req' = Check(req, k)
      \/ StageOf(req) # "check" /\ k \notin ready /\ req' = Skip(req)
      \/ At("find") /\ req' = Find(req, k)
      \/ At("gather") /\ req' = Gather(req, k)
      \/ At("house") /\ rows[k] \cap Regions = {} /\ req' = Skip(req)
      \/ At("house") /\ \E h \in rows[k] \cap Regions : req' = House(req, h)
      \/ At("visit") /\ req' = Visit(req, k)
      \/ At("others") /\ req' = Others(req, k)
  BY DEF Read
<1> HIDE DEF k
<1>3. CASE StageOf(req) = "check" /\ req' = Check(req, k)
  BY <1>1, <1>3, CheckStep DEF k
<1>4. CASE StageOf(req) # "check" /\ k \notin ready /\ req' = Skip(req)
  BY <1>1, <1>4, NotReady DEF k
<1>5. CASE At("find") /\ req' = Find(req, k)
  <2>1. CASE Key \in rows[k]
    BY <1>1, <1>5, <2>1, FoundStep
  <2>2. CASE Key \notin rows[k]
    <3>1. req' = Skip(req)
      BY <1>5, <2>2 DEF Find
    <3>2. QED
      BY <1>1, <1>5, <2>2, <3>1, NotHeld, Pass DEF In, k
  <2>3. QED
    BY <2>1, <2>2
<1>6. CASE At("gather") /\ req' = Gather(req, k)
  BY <1>1, <1>6, GatherStep DEF k
<1>7. CASE At("house") /\ rows[k] \cap Regions = {} /\ req' = Skip(req)
  BY <1>1, <1>7, NotHeld, Pass DEF In, k
<1>8. CASE At("house") /\ \E h \in rows[k] \cap Regions : req' = House(req, h)
  BY <1>1, <1>8, HouseStep DEF k
<1>9. CASE At("visit") /\ req' = Visit(req, k)
  <2>1. CASE k = req.home
    BY <1>1, <1>9, <2>1, VisitStep
  <2>2. CASE k # req.home
    <3>1. req' = Skip(req)
      BY <1>9, <2>2 DEF Visit
    <3>2. QED
      BY <1>1, <1>9, <2>2, <3>1, Pass DEF In, k
  <2>3. QED
    BY <2>1, <2>2
<1>10. CASE At("others") /\ req' = Others(req, k)
  <2>1. CASE k # req.at
    BY <1>1, <1>10, <2>1, OthersStep DEF k
  <2>2. CASE k = req.at
    <3>1. req' = Skip(req)
      BY <1>10, <2>2 DEF Others
    <3>2. QED
      BY <1>1, <1>10, <2>2, <3>1, Pass DEF In, k
  <2>3. QED
    BY <2>1, <2>2
<1>11. QED
  BY <1>2, <1>3, <1>4, <1>5, <1>6, <1>7, <1>8, <1>9, <1>10

-----------------------------------------------------------------------------
(* A loop has passed every shard.                                          *)

\* Nothing of a set was there all along if no region held it all along.
LEMMA NoneHeld ==
    ASSUME Inv, NEW X, \A k \in Regions : \A x \in X : <<k, x>> \notin always
    PROVE  Held(always, X) = {}
<1>1. ASSUME NEW p \in always, p[2] \in X PROVE FALSE
  <2>1. p \in Regions \X RowIds
    BY <1>1 DEF Inv, TypeOK
  <2>2. p = <<p[1], p[2]>> /\ p[1] \in Regions
    BY <2>1
  <2>3. QED
    BY <1>1, <2>2
<1>2. QED
  BY <1>1 DEF Held

\* What was there all along in some region is a bag of one region.
LEMMA HeldSomewhere ==
    ASSUME Inv, NEW b \in Rows(Held(always, Bags))
    PROVE  \E k \in Regions : b \in BagsOf(always, k)
<1>1. PICK p \in always : p[2] \in Bags /\ b = p[2]
  BY DEF Rows, Held
<1>2. p \in Regions \X RowIds
  BY DEF Inv, TypeOK
<1>3. p = <<p[1], b>> /\ p[1] \in Regions
  BY <1>1, <1>2
<1>4. QED
  BY <1>1, <1>3 DEF BagsOf

\* The request is over.
LEMMA DoneStep ==
    ASSUME Inv, UNCHANGED <<fleet, ghosts>>, req.status = "open", Passed = Regions,
           NEW s \in {"ok", "notFound", "noHouse"}, req' = Done(req, s),
           s = "notFound" =>
               /\ Held(always, {Key}) = {}
               /\ req.kind = "inventory" => Held(always, Bags) = {},
           s = "noHouse" => Held(always, Regions) = {},
           s = "ok" => StageOf(req) \in {"gather", "visit", "others", "check"}
    PROVE  Inv'
<1>1. /\ req \in Requests /\ req.stage <= Len(Program[req.kind])
      /\ StageOf(req) \in {"gather", "visit", "others", "check"} =>
            /\ StageOf(req) = "gather" <=> req.kind \in {"list", "names", "inventory"}
            /\ StageOf(req) = "visit" <=> req.kind \in {"home", "housing"}
            /\ StageOf(req) = "others" <=> req.kind = "members"
            /\ StageOf(req) = "check" <=> req.kind = "health"
  BY Stages DEF Inv, TypeOK
<1>2. /\ req' \in Requests /\ req'.kind = req.kind /\ req'.stage = req.stage
      /\ req'.at = req.at /\ req'.home = req.home /\ req'.got = req.got
      /\ req'.coins = req.coins /\ req'.profile = req.profile /\ req'.ok = req.ok
      /\ req'.status = s /\ req'.stage <= Len(Program[req'.kind])
  BY <1>1, DoneFields
<1>3. always' = always /\ ever' = ever /\ up' = up /\ was' = was
  BY DEF ghosts
<1>4. (Walked /\ Unlisted)'
  BY <1>2 DEF Walked, In, Unlisted
<1>5. NotFoundIsTrue'
  BY <1>2, <1>3 DEF NotFoundIsTrue
<1>6. (NothingInvented /\ ListedOnce)'
  BY <1>2, <1>3 DEF Inv, NothingInvented, ListedOnce, Elements
<1>7. CompleteIfSettled'
  <2>1. ASSUME s = "ok", req.kind \in {"list", "names", "inventory"}
        PROVE  Rows(Held(always, Bags)) \subseteq Elements(req.got)
    <3>1. \A k \in Regions : BagsOf(always, k) \subseteq Elements(req.got)
      BY <1>1, <2>1 DEF Inv, Walked, In
    <3>2. QED
      BY <3>1, HeldSomewhere
  <2>2. ASSUME s = "ok", req.kind \in {"home", "housing"}
        PROVE  BagsOf(always, req.home) = {}
    <3>1. CASE req.home \in Regions
      BY <1>1, <2>2, <3>1 DEF Inv, Walked, In
    <3>2. CASE req.home \notin Regions
      BY <3>2 DEF Inv, TypeOK, BagsOf
    <3>3. QED
      BY <3>1, <3>2
  <2>3. ASSUME s = "ok", req.kind = "members"
        PROVE  /\ req.profile = 0 => Held(always, {Profile}) = {}
               /\ \A k \in Regions : Cardinality(BagsOf(always, k)) <= req.coins
    <3>1. \A k \in Regions : /\ req.profile = 0 => <<k, Profile>> \notin always
                             /\ Cardinality(BagsOf(always, k)) <= req.coins
      BY <1>1, <2>3 DEF Inv, Walked, In
    <3>2. QED
      BY <3>1, NoneHeld
  <2>4. QED
    BY <1>2, <1>3, <2>1, <2>2, <2>3 DEF CompleteIfSettled, Elements
<1>8. HealthIsTrue'
  <2>1. ASSUME s = "ok", req.kind = "health"
        PROVE  /\ req.ok => was = 0..N
               /\ up = 0..N => req.ok
    <3>1. /\ req.ok => \A k \in Regions \cup {0} : k \in was
          /\ ~req.ok => \E k \in 0..N : k \notin up
      BY <1>1, <2>1 DEF Inv, Walked, In
    <3>2. 0..N = Regions \cup {0} /\ was \subseteq 0..N
      BY FanOutAssumption DEF Inv, TypeOK, Regions
    <3>3. QED
      BY <3>1, <3>2
  <2>2. QED
    BY <1>2, <1>3, <2>1 DEF HealthIsTrue
<1>9. QED
  BY <1>2, <1>4, <1>5, <1>6, <1>7, <1>8, RequestStep

\* A player without a username row may still have bags.
LEMMA OnwardStep ==
    ASSUME Inv, UNCHANGED <<fleet, ghosts>>, req.status = "open", Passed = Regions,
           StageOf(req) = "find", req.kind = "inventory", req' = Enter(req)
    PROVE  Inv'
<1>1. /\ req \in Requests /\ req.stage = 1 /\ 2 <= Len(Program["inventory"])
  BY Stages DEF Inv, TypeOK
<1>2. /\ req' \in Requests /\ req'.pos = 1 /\ req'.kind = "inventory" /\ req'.stage = 2
      /\ req'.at = req.at /\ req'.home = req.home /\ req'.got = req.got
      /\ req'.coins = req.coins /\ req'.profile = req.profile
      /\ req'.status = "open" /\ req'.stage <= Len(Program[req'.kind])
  BY <1>1, EnterFields
<1>3. always' = always /\ ever' = ever
  BY DEF ghosts
<1>4. StageOf(req') = "gather"
  BY <1>2, Stages
<1>5. Passed' = {}
  BY <1>2 DEF Passed, Regions
<1>6. \A k \in Regions : <<k, Key>> \notin always
  BY DEF Inv, Walked, In
<1>7. Walked'
  BY <1>2, <1>3, <1>4, <1>5, <1>6 DEF Walked, In
<1>8. (Unlisted /\ NotFoundIsTrue /\ CompleteIfSettled)'
  BY <1>2 DEF Unlisted, NotFoundIsTrue, CompleteIfSettled
<1>9. (ListedOnce /\ HealthIsTrue)'
  BY <1>2 DEF Inv, ListedOnce, HealthIsTrue
<1>10. NothingInvented'
  BY <1>2, <1>3 DEF Inv, NothingInvented, Elements
<1>11. QED
  BY <1>2, <1>7, <1>8, <1>9, <1>10, RequestStep

LEMMA RunOutStep ==
    ASSUME Inv, RunOut
    PROVE  Inv'
<1>1. UNCHANGED <<fleet, ghosts>> /\ req.status = "open" /\ req.pos = N + 1
      /\ req' = Exhausted(req)
  BY DEF RunOut
<1>2. Passed = Regions
  BY <1>1, FanOutAssumption DEF Passed, Regions
<1>3. StageOf(req) \in {"find", "gather", "house", "visit", "others", "check"}
  BY Stages DEF Inv, TypeOK
<1>4. CASE StageOf(req) = "find"
  <2>1. \A k \in Regions : \A x \in {Key} : <<k, x>> \notin always
    BY <1>1, <1>2, <1>4 DEF Inv, Walked, In
  <2>2. CASE req.kind = "inventory"
    <3>1. req' = Enter(req)
      BY <1>1, <1>4, <2>2 DEF Exhausted
    <3>2. QED
      BY <1>1, <1>2, <1>4, <2>2, <3>1, OnwardStep
  <2>3. CASE req.kind # "inventory"
    <3>1. req' = Done(req, "notFound")
      BY <1>1, <1>4, <2>3 DEF Exhausted
    <3>2. QED
      BY <1>1, <1>2, <2>1, <2>3, <3>1, NoneHeld, DoneStep
  <2>4. QED
    BY <2>2, <2>3
<1>5. CASE StageOf(req) = "house"
  <2>1. \A k \in Regions : \A x \in Regions : <<k, x>> \notin always
    BY <1>1, <1>2, <1>5 DEF Inv, Walked, In
  <2>2. req' = Done(req, "noHouse")
    BY <1>1, <1>5 DEF Exhausted
  <2>3. Held(always, Regions) = {}
    BY <2>1, NoneHeld
  <2>4. QED
    BY <1>1, <1>2, <2>2, <2>3, DoneStep
<1>6. CASE /\ StageOf(req) = "gather" /\ req.kind = "inventory"
           /\ req.at = 0 /\ req.got = Nothing
  <2>1. \A k \in Regions : \A x \in {Key} : <<k, x>> \notin always
    BY <1>1, <1>6 DEF Inv, Walked, In
  <2>2. \A k \in Regions : \A x \in Bags : <<k, x>> \notin always
    <3>1. \A k \in Regions : BagsOf(always, k) \subseteq Elements(req.got)
      BY <1>1, <1>2, <1>6 DEF Inv, Walked, In
    <3>2. Elements(req.got) = {}
      BY <1>6 DEF Elements, Nothing
    <3>3. QED
      BY <3>1, <3>2 DEF BagsOf
  <2>3. Held(always, {Key}) = {} /\ Held(always, Bags) = {}
    BY <2>1, <2>2, NoneHeld
  <2>4. req' = Done(req, "notFound")
    BY <1>1, <1>6 DEF Exhausted
  <2>5. QED
    BY <1>1, <1>2, <2>3, <2>4, DoneStep
<1>7. CASE /\ StageOf(req) \in {"gather", "visit", "others", "check"}
           /\ ~(/\ StageOf(req) = "gather" /\ req.kind = "inventory"
                /\ req.at = 0 /\ req.got = Nothing)
  <2>1. req' = Done(req, "ok")
    BY <1>1, <1>7 DEF Exhausted
  <2>2. QED
    BY <1>1, <1>2, <1>7, <2>1, DoneStep
<1>8. QED
  BY <1>3, <1>4, <1>5, <1>6, <1>7

-----------------------------------------------------------------------------
(* The theorems.                                                           *)

LEMMA InvInit == Init => Inv
<1> SUFFICES ASSUME Init PROVE Inv
  OBVIOUS
<1>1. PICK kind \in Kinds :
        /\ pressure \in IF kind = "health" THEN BOOLEAN ELSE {FALSE}
        /\ ready \in SUBSET Regions
        /\ rows \in [Regions -> SUBSET Relevant[kind]]
        /\ \A k \in Regions \ ready : rows[k] = {}
        /\ req = Begin(kind)
  BY DEF Init
<1>2. /\ changes = 0 /\ always = Visible(rows) /\ ever = Visible(rows)
      /\ up = Fit(ready, pressure) /\ was = Fit(ready, pressure)
  BY DEF Init
<1>3. pressure \in BOOLEAN
  BY <1>1
<1>4. Relevant[kind] \subseteq RowIds
  BY DEF Kinds, Program, Relevant, RowIds
<1>5. 0 \in 0..Cardinality(Bags)
  BY FanOutAssumption, FS_CardinalityType
<1>6. /\ req \in Requests /\ req.kind = kind /\ req.stage = 1 /\ req.pos = 1 /\ req.at = 0
      /\ req.got = Nothing /\ req.coins = 0 /\ req.profile = 0 /\ req.status = "open"
      /\ req.ok = ~pressure
  <2>1. /\ 1 \in 1..3 /\ 1 \in 1..(N + 1) /\ 0 \in 0..N /\ Nothing \in [Bags -> Nat]
    BY FanOutAssumption DEF Nothing
  <2>2. (~pressure) \in BOOLEAN
    OBVIOUS
  <2>3. QED
    BY <1>1, <1>5, <2>1, <2>2 DEF Begin, Requests
<1>7. TypeOK
  <2>1. req.stage <= Len(Program[req.kind])
    BY <1>6 DEF Kinds, Program, LookupLoops, ListLoops, NamesLoops, InventoryLoops, HomeLoops,
                HousingLoops, MembersLoops, HealthLoops
  <2>2. Fit(ready, pressure) \subseteq 0..N
    BY <1>1, FanOutAssumption DEF Fit, Regions
  <2>3. rows \in [Regions -> SUBSET RowIds]
    BY <1>1, <1>4
  <2>4. QED
    BY <1>1, <1>2, <1>3, <1>6, <2>1, <2>2, <2>3, FanOutAssumption DEF TypeOK, Visible
<1>8. Framed
  BY <1>1, <1>2 DEF Framed, Visible
<1>9. Passed = {}
  BY <1>6 DEF Passed, Regions
<1>10. StageOf(req) \in {"find", "gather", "check"} /\ req.stage <= Len(Program[req.kind])
       /\ (StageOf(req) = "gather" => req.kind # "inventory")
  BY <1>6, <1>7, Stages DEF TypeOK
<1>11. In("check") =>
         /\ req.ok => \A k \in Passed \cup {0} : k \in was
         /\ ~req.ok => \E k \in 0..N : k \notin up
  <2>1. /\ ~pressure => 0 \in was
        /\ pressure => 0 \notin up
    BY <1>1, <1>2 DEF Fit, Regions
  <2>2. 0 \in 0..N
    BY FanOutAssumption
  <2>3. QED
    BY <1>6, <1>9, <2>1, <2>2
<1>12. Walked
  BY <1>9, <1>10, <1>11 DEF Walked, In
<1>13. Unlisted /\ NotFoundIsTrue /\ CompleteIfSettled /\ HealthIsTrue
  BY <1>6 DEF Unlisted, NotFoundIsTrue, CompleteIfSettled, HealthIsTrue
<1>14. NothingInvented /\ ListedOnce
  BY <1>6 DEF NothingInvented, ListedOnce, Elements, Nothing
<1>15. QED
  BY <1>7, <1>8, <1>12, <1>13, <1>14 DEF Inv

LEMMA InvNext == Inv /\ [Next]_vars => Inv'
<1> SUFFICES ASSUME Inv, [Next]_vars PROVE Inv'
  OBVIOUS
<1>1. CASE UNCHANGED vars
  <2>1. /\ req' = req /\ always' = always /\ ever' = ever /\ up' = up /\ was' = was
        /\ ready' = ready /\ rows' = rows /\ pressure' = pressure /\ changes' = changes
    BY <1>1 DEF vars, fleet, ghosts
  <2>2. UNCHANGED <<fleet, ghosts>>
    BY <2>1 DEF fleet, ghosts
  <2>3. req' \in Requests /\ req'.stage <= Len(Program[req'.kind])
    BY <2>1 DEF Inv, TypeOK
  <2>4. Walked'
    <3>1. \A stage : In(stage)' <=> In(stage)
      BY <2>1 DEF In
    <3>2. Passed' = Passed
      BY <2>1 DEF Passed
    <3>3. QED
      BY <2>1, <3>1, <3>2 DEF Inv, Walked
  <2>5. (Unlisted /\ NotFoundIsTrue /\ NothingInvented)'
    BY <2>1 DEF Inv, Unlisted, NotFoundIsTrue, NothingInvented
  <2>6. (CompleteIfSettled /\ ListedOnce /\ HealthIsTrue)'
    BY <2>1 DEF Inv, CompleteIfSettled, ListedOnce, HealthIsTrue
  <2>7. QED
    BY <2>2, <2>3, <2>4, <2>5, <2>6, RequestStep
<1>2. CASE (\E k \in Regions : Load(k) \/ End(k) \/ Apply(k)) \/ Sample
  BY <1>2, FleetStep
<1>3. CASE Read
  BY <1>3, ReadStep
<1>4. CASE RunOut
  BY <1>4, RunOutStep
<1>5. QED
  BY <1>1, <1>2, <1>3, <1>4 DEF Next

LEMMA InvAlways == Spec => []Inv
  BY InvInit, InvNext, PTL DEF Spec

\* The variables hold what they are declared to hold; what was visible ever
\* since the request began was visible at some moment, and so for health.
THEOREM TypeCorrect == Spec => []TypeOK
  BY InvAlways, PTL DEF Inv

\* A handler that answers "not found", or "noHouse", passed every region, and
\* none of them held the row from beginning to end.
THEOREM NotFoundHolds == Spec => []NotFoundIsTrue
  BY InvAlways, PTL DEF Inv

\* Whatever a handler answers was visible while it ran.
THEOREM NothingIsInvented == Spec => []NothingInvented
  BY InvAlways, PTL DEF Inv

\* What stayed visible while a handler ran is in its answer.
THEOREM SettledIsComplete == Spec => []CompleteIfSettled
  BY InvAlways, PTL DEF Inv

\* Players and bags that two regions hold at different moments are listed once.
THEOREM NoDuplicates == Spec => []ListedOnce
  BY InvAlways, PTL DEF Inv

\* /cache-health is right about some moment when it says ready, and about some
\* part when it does not.
THEOREM HealthHolds == Spec => []HealthIsTrue
  BY InvAlways, PTL DEF Inv

=============================================================================
