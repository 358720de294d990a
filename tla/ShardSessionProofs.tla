------------------------ MODULE ShardSessionProofs ------------------------
(***************************************************************************)
(* The region session, for any rows, any number of transactions and        *)
(* connections and a wire of any length: what readers see is the mirror as *)
(* of one frame.                                                           *)
(***************************************************************************)
EXTENDS ShardSession, WellFoundedInduction, TLAPS

Update(m) == m.kind = "update"
Answer(q, m) == m.kind = "applied" /\ m.set = q

\* No session is open: nothing is asked for and nothing is on the wire.
Away == Places \ {"base", "hexite", "stream"}

AwayShape ==
    /\ link = "none"
    /\ asked = {} /\ served = {}
    /\ wire = <<>>

\* The base answer comes first, then the updates since, without locations.
BaseShape ==
    /\ asked \cup served \subseteq {"base"}
    /\ asked \cap served = {}
    /\ served = {} => wire = <<>>
    /\ link = "up" /\ served # {} => wire # <<>>
    /\ \A i \in DOMAIN wire : IF i = 1 THEN Answer("base", wire[i])
                                        ELSE Update(wire[i]) /\ wire[i].insLoc = {}

\* Updates, with the hexite answer among them once it is given; only an update
\* behind the answer says anything of a location.
HexiteShape ==
    /\ asked \subseteq {"hexite"}
    /\ \A i \in DOMAIN wire : Update(wire[i]) \/ Answer("hexite", wire[i])
    /\ asked \cap served = {}
    /\ asked # {} => \A i \in DOMAIN wire : Update(wire[i])
    /\ \A i, j \in DOMAIN wire :
          Answer("hexite", wire[i]) /\ Answer("hexite", wire[j]) => i = j
    /\ link = "up" /\ "hexite" \in served => \E i \in DOMAIN wire : Answer("hexite", wire[i])
    /\ \A i \in DOMAIN wire : Update(wire[i]) /\ wire[i].insLoc # {} =>
          \E j \in DOMAIN wire : j < i /\ Answer("hexite", wire[j])

StreamShape ==
    /\ asked = {}
    /\ \A i \in DOMAIN wire : Update(wire[i])

Shape ==
    /\ pc \in Away => AwayShape
    /\ pc = "base" => BaseShape
    /\ pc = "hexite" => HexiteShape
    /\ pc = "stream" => StreamShape

\* The rows of the base query set.
Bases == [claims : SUBSET Claims, hex : SUBSET Sites]
BaseOf(d) == [claims |-> d.claims, hex |-> d.hex]

\* A transaction leads from h to k.
Leads(h, m, k) ==
    /\ (h.claims \ m.delClaims) \cup m.insClaims = k.claims
    /\ (h.hex \ m.delHex) \cup m.insHex = k.hex

\* g[i]: the base rows of the mirror as of the i-th frame on the wire.
Steps(h, m, k) ==
    CASE m.kind = "update" -> k = BaseOf(m.rows) /\ Leads(h, m, k)
      [] m.kind = "applied" /\ m.set = "base" -> k = BaseOf(m.rows)
      [] OTHER -> k = h

Fits(g, w, h) ==
    /\ g \in [0..Len(w) -> Bases]
    /\ g[0] = h
    /\ \A i \in 1..Len(w) : Steps(g[i - 1], w[i], g[i])

\* The frames on the wire lead from what the shard has seen to the mirror.
Chained ==
    \E g \in [0..Len(wire) -> Bases] :
        /\ Fits(g, wire, BaseOf(seen))
        /\ link = "up" /\ "base" \in served => g[Len(wire)] = BaseOf(db)

\* The private store of a load holds the base rows seen, and no location yet.
Loading ==
    /\ pc # "hexite" => building = EmptyStore
    /\ pc = "hexite" =>
          /\ ~building.ready
          /\ building.claims = seen.claims /\ building.hex = seen.hex
          /\ building.located = {}

Live == pc \in {"stream", "torn"} => store.ready

Inv ==
    /\ TypeOK /\ Shape /\ Chained /\ Loading /\ Live
    /\ ReadyIsExact /\ NotReadyIsEmpty /\ LocatedUnlessReplaced

-----------------------------------------------------------------------------
(* Frames and stores.                                                      *)

LEMMA UpdateFields ==
    ASSUME NEW m \in Frames, Update(m)
    PROVE  /\ m.rows \in Databases /\ m.first \in QuerySets
           /\ m.delClaims \in SUBSET Claims /\ m.insClaims \in SUBSET Claims
           /\ m.delHex \in SUBSET Sites /\ m.insHex \in SUBSET Sites
           /\ m.delLoc \in SUBSET Sites /\ m.insLoc \in SUBSET Sites
BY DEF Frames, Update

LEMMA AnswerFields ==
    ASSUME NEW m \in Frames, m.kind = "applied"
    PROVE  m.rows \in Databases /\ m.set \in QuerySets
BY DEF Frames

LEMMA DatabaseFields ==
    ASSUME NEW d \in Databases
    PROVE  /\ d.claims \in SUBSET Claims /\ d.hex \in SUBSET Sites /\ d.loc \in SUBSET Sites
           /\ BaseOf(d) \in Bases /\ BaseOf(d).claims = d.claims /\ BaseOf(d).hex = d.hex
BY DEF Databases, Bases, BaseOf

LEMMA StoreFields ==
    ASSUME NEW s \in Stores
    PROVE  /\ s.ready \in BOOLEAN /\ s.claims \in SUBSET Claims /\ s.hex \in SUBSET Sites
           /\ s.located \in SUBSET Sites /\ s.located \subseteq s.hex
BY DEF Stores

LEMMA EmptyStoreFits ==
    /\ EmptyStore \in Stores /\ NoRows \in Databases
    /\ EmptyStore.ready = FALSE /\ EmptyStore.claims = {} /\ EmptyStore.hex = {}
    /\ EmptyStore.located = {} /\ NoRows.loc = {}
BY DEF EmptyStore, Stores, NoRows, Databases

LEMMA BaseKeeps ==
    ASSUME NEW s \in Stores, NEW m \in Frames, Update(m)
    PROVE  /\ ApplyBase(s, m) \in Stores
           /\ ApplyBase(s, m).ready = s.ready
           /\ ApplyBase(s, m).claims = (s.claims \ m.delClaims) \cup m.insClaims
           /\ ApplyBase(s, m).hex = (s.hex \ m.delHex) \cup m.insHex
           /\ ApplyBase(s, m).located = s.located \ m.delHex
<1>1. /\ m.delClaims \in SUBSET Claims /\ m.insClaims \in SUBSET Claims
      /\ m.delHex \in SUBSET Sites /\ m.insHex \in SUBSET Sites
  BY UpdateFields
<1>2. QED
  BY <1>1, StoreFields DEF ApplyBase, Stores

LEMMA LocationsKeep ==
    ASSUME NEW s \in Stores, NEW m \in Frames, Update(m)
    PROVE  /\ ApplyLocations(s, m) \in Stores
           /\ ApplyLocations(s, m).ready = s.ready
           /\ ApplyLocations(s, m).claims = s.claims
           /\ ApplyLocations(s, m).hex = s.hex
           /\ ApplyLocations(s, m).located = (s.located \ m.delLoc) \cup (m.insLoc \cap s.hex)
<1>1. m.delLoc \in SUBSET Sites /\ m.insLoc \in SUBSET Sites
  BY UpdateFields
<1>2. QED
  BY <1>1, StoreFields DEF ApplyLocations, Stores

\* A whole transaction: the base rows follow it, locations come from it or
\* stay, and only a row inserted anew loses its location.
LEMMA ApplyKeeps ==
    ASSUME NEW s \in Stores, NEW m \in Frames, Update(m)
    PROVE  LET t == ApplyUpdate(s, m)
           IN  /\ t \in Stores /\ t.ready = s.ready
               /\ t.claims = (s.claims \ m.delClaims) \cup m.insClaims
               /\ t.hex = (s.hex \ m.delHex) \cup m.insHex
               /\ t.located \subseteq (s.located \ m.delLoc) \cup m.insLoc
               /\ \A x \in t.hex \ m.insHex :
                     x \in s.located \ m.delLoc \/ x \in m.insLoc => x \in t.located
<1>1. CASE m.first = "base"
  <2> DEFINE a == ApplyBase(s, m)
  <2>1. /\ a \in Stores /\ a.ready = s.ready
        /\ a.claims = (s.claims \ m.delClaims) \cup m.insClaims
        /\ a.hex = (s.hex \ m.delHex) \cup m.insHex /\ a.located = s.located \ m.delHex
    BY BaseKeeps
  <2>2. ApplyUpdate(s, m) = ApplyLocations(a, m)
    BY <1>1 DEF ApplyUpdate
  <2> HIDE DEF a
  <2> DEFINE t == ApplyLocations(a, m)
  <2>3. /\ t \in Stores /\ t.ready = a.ready /\ t.claims = a.claims
        /\ t.hex = a.hex /\ t.located = (a.located \ m.delLoc) \cup (m.insLoc \cap a.hex)
    BY <2>1, LocationsKeep
  <2> HIDE DEF t
  <2>4. ApplyUpdate(s, m) = t
    BY <2>2 DEF t
  <2>5. QED
    BY <2>1, <2>3, <2>4
<1>2. CASE m.first # "base"
  <2> DEFINE a == ApplyLocations(s, m)
  <2>1. /\ a \in Stores /\ a.ready = s.ready /\ a.claims = s.claims
        /\ a.hex = s.hex /\ a.located = (s.located \ m.delLoc) \cup (m.insLoc \cap s.hex)
    BY LocationsKeep
  <2>2. ApplyUpdate(s, m) = ApplyBase(a, m)
    BY <1>2 DEF ApplyUpdate
  <2> HIDE DEF a
  <2> DEFINE t == ApplyBase(a, m)
  <2>3. /\ t \in Stores /\ t.ready = a.ready
        /\ t.claims = (a.claims \ m.delClaims) \cup m.insClaims
        /\ t.hex = (a.hex \ m.delHex) \cup m.insHex /\ t.located = a.located \ m.delHex
    BY <2>1, BaseKeeps
  <2> HIDE DEF t
  <2>4. ApplyUpdate(s, m) = t
    BY <2>2 DEF t
  <2>5. QED
    BY <2>1, <2>3, <2>4
<1>3. QED
  BY <1>1, <1>2

\* What a failed transaction leaves is a store, as ready as it was.
LEMMA TornKeeps ==
    ASSUME NEW s \in Stores, NEW m \in Frames, Update(m), NEW t \in TornUpdates(s, m)
    PROVE  t \in Stores /\ t.ready = s.ready
<1>1. PICK p \in Progress(m.first) : t = ApplyUpdate(s, Part(m, p))
  BY DEF TornUpdates
<1> DEFINE h == Part(m, p)
<1>2. h \in Frames /\ Update(h)
  BY UpdateFields DEF Part, Frames, Update
<1> HIDE DEF h
<1>3. ApplyUpdate(s, h) \in Stores /\ ApplyUpdate(s, h).ready = s.ready
  BY <1>2, ApplyKeeps
<1>4. QED
  BY <1>1, <1>3 DEF h

-----------------------------------------------------------------------------
(* The wire.                                                               *)

LEMMA TailWire ==
    ASSUME NEW w \in Seq(Frames), w # <<>>
    PROVE  /\ Head(w) = w[1] /\ 1 \in DOMAIN w /\ Head(w) \in Frames
           /\ Tail(w) \in Seq(Frames) /\ Len(w) \in Nat /\ DOMAIN w = 1..Len(w)
           /\ Len(w) >= 1
           /\ Len(Tail(w)) = Len(w) - 1 /\ DOMAIN Tail(w) = 1..(Len(w) - 1)
           /\ \A i \in DOMAIN Tail(w) : i + 1 \in DOMAIN w /\ Tail(w)[i] = w[i + 1]
OBVIOUS

LEMMA AppendWire ==
    ASSUME NEW w \in Seq(Frames), NEW m \in Frames
    PROVE  LET v == Append(w, m)
           IN  /\ v \in Seq(Frames) /\ Len(w) \in Nat /\ DOMAIN w = 1..Len(w)
               /\ Len(v) = Len(w) + 1 /\ DOMAIN v = 1..(Len(w) + 1) /\ v # <<>>
               /\ \A i \in DOMAIN w : i # Len(w) + 1 /\ v[i] = w[i]
               /\ v[Len(w) + 1] = m
OBVIOUS

LEMMA CutWire ==
    ASSUME NEW w \in Seq(Frames), NEW n \in 0..Len(w)
    PROVE  LET v == SubSeq(w, 1, n)
           IN  /\ v \in Seq(Frames) /\ Len(v) = n /\ DOMAIN v = 1..n
               /\ Len(w) \in Nat /\ DOMAIN w = 1..Len(w)
               /\ \A i \in 1..n : i \in DOMAIN w /\ v[i] = w[i]
OBVIOUS

LEMMA FitsEmpty ==
    ASSUME NEW h \in Bases
    PROVE  \E g \in [0..Len(<<>>) -> Bases] : Fits(g, <<>>, h)
<1> DEFINE g == [i \in 0..0 |-> h]
<1>1. Len(<<>>) = 0 /\ 1..0 = {}
  OBVIOUS
<1>2. Fits(g, <<>>, h)
  BY <1>1 DEF Fits
<1>3. QED
  BY <1>1, <1>2 DEF Fits

LEMMA FitsTail ==
    ASSUME NEW w \in Seq(Frames), w # <<>>, NEW h, NEW f \in [0..Len(w) -> Bases],
           Fits(f, w, h)
    PROVE  /\ Steps(h, Head(w), f[1])
           /\ \E g \in [0..Len(Tail(w)) -> Bases] :
                 Fits(g, Tail(w), f[1]) /\ g[Len(Tail(w))] = f[Len(w)]
<1>1. /\ Head(w) = w[1] /\ Len(w) \in Nat /\ Len(w) >= 1 /\ Len(Tail(w)) = Len(w) - 1
      /\ \A i \in 1..(Len(w) - 1) : Tail(w)[i] = w[i + 1]
  BY TailWire
<1>2. f[0] = h /\ \A i \in 1..Len(w) : Steps(f[i - 1], w[i], f[i])
  BY DEF Fits
<1> DEFINE n == Len(w) - 1
           g == [i \in 0..n |-> f[i + 1]]
<1>3. n \in Nat /\ \A i \in 0..n : i + 1 \in 0..Len(w)
  BY <1>1
<1>4. g \in [0..n -> Bases] /\ g[0] = f[1] /\ g[n] = f[Len(w)]
  BY <1>1, <1>3
<1>5. ASSUME NEW i \in 1..n PROVE Steps(g[i - 1], Tail(w)[i], g[i])
  <2>1. g[i - 1] = f[i] /\ g[i] = f[i + 1] /\ i + 1 \in 1..Len(w) /\ (i + 1) - 1 = i
    BY <1>1, <1>3
  <2>2. Steps(f[(i + 1) - 1], w[i + 1], f[i + 1])
    BY <1>2, <2>1
  <2>3. QED
    BY <1>1, <2>1, <2>2
<1>6. Steps(h, Head(w), f[1])
  <2>1. Steps(f[1 - 1], w[1], f[1])
    BY <1>1, <1>2
  <2>2. 1 - 1 = 0
    OBVIOUS
  <2>3. QED
    BY <1>1, <1>2, <2>1, <2>2
<1> HIDE DEF g
<1>7. QED
  BY <1>1, <1>4, <1>5, <1>6 DEF Fits

LEMMA FitsAppend ==
    ASSUME NEW w \in Seq(Frames), NEW h, NEW f \in [0..Len(w) -> Bases], Fits(f, w, h),
           NEW m \in Frames, NEW k \in Bases, Steps(f[Len(w)], m, k)
    PROVE  \E g \in [0..Len(Append(w, m)) -> Bases] :
              Fits(g, Append(w, m), h) /\ g[Len(Append(w, m))] = k
<1>1. /\ Len(w) \in Nat /\ Len(Append(w, m)) = Len(w) + 1
      /\ \A i \in 1..Len(w) : Append(w, m)[i] = w[i]
      /\ Append(w, m)[Len(w) + 1] = m
  BY AppendWire
<1>2. f[0] = h /\ \A i \in 1..Len(w) : Steps(f[i - 1], w[i], f[i])
  BY DEF Fits
<1> DEFINE n == Len(w) + 1
           g == [i \in 0..n |-> IF i = n THEN k ELSE f[i]]
<1>3. g \in [0..n -> Bases] /\ g[0] = h /\ g[n] = k
  BY <1>1, <1>2
<1>4. ASSUME NEW i \in 1..n PROVE Steps(g[i - 1], Append(w, m)[i], g[i])
  <2>1. CASE i = n
    <3>1. g[i - 1] = f[Len(w)] /\ g[i] = k /\ Append(w, m)[i] = m
      BY <1>1, <2>1
    <3>2. QED
      BY <3>1
  <2>2. CASE i # n
    <3>1. g[i - 1] = f[i - 1] /\ g[i] = f[i] /\ i \in 1..Len(w)
      BY <1>1, <2>2
    <3>2. QED
      BY <1>1, <1>2, <3>1
  <2>3. QED
    BY <2>1, <2>2
<1> HIDE DEF g
<1>5. QED
  BY <1>1, <1>3, <1>4 DEF Fits

LEMMA FitsCut ==
    ASSUME NEW w \in Seq(Frames), NEW h, NEW f \in [0..Len(w) -> Bases], Fits(f, w, h),
           NEW n \in 0..Len(w)
    PROVE  \E g \in [0..Len(SubSeq(w, 1, n)) -> Bases] : Fits(g, SubSeq(w, 1, n), h)
<1>1. /\ Len(SubSeq(w, 1, n)) = n /\ Len(w) \in Nat
      /\ \A i \in 1..n : SubSeq(w, 1, n)[i] = w[i]
  BY CutWire
<1>2. f[0] = h /\ \A i \in 1..Len(w) : Steps(f[i - 1], w[i], f[i])
  BY DEF Fits
<1> DEFINE g == [i \in 0..n |-> f[i]]
<1>3. g \in [0..n -> Bases] /\ g[0] = h
  <2>1. n \in Nat /\ n <= Len(w) /\ 0 \in 0..n
    BY <1>1
  <2>2. ASSUME NEW i \in 0..n PROVE f[i] \in Bases
    <3>1. i \in 0..Len(w)
      BY <1>1, <2>1
    <3>2. QED
      BY <3>1
  <2>3. g \in [0..n -> Bases]
    BY <2>2
  <2>4. QED
    BY <1>2, <2>1, <2>3
<1>4. ASSUME NEW i \in 1..n PROVE Steps(g[i - 1], SubSeq(w, 1, n)[i], g[i])
  <2>1. g[i - 1] = f[i - 1] /\ g[i] = f[i] /\ i \in 1..Len(w)
    BY <1>1
  <2>2. QED
    BY <1>1, <1>2, <2>1
<1> HIDE DEF g
<1>5. QED
  BY <1>1, <1>3, <1>4 DEF Fits

-----------------------------------------------------------------------------
(* What several steps have in common.                                      *)

LEMMA InitInv == Init => Inv
<1> SUFFICES ASSUME Init PROVE Inv
  OBVIOUS
<1>1. TypeOK
  <2>1. backoff \in BackoffMin..BackoffMax /\ streak \in Nat /\ commits \in Nat /\ sessions \in Nat
    BY SessionAssumption DEF Init
  <2>2. building \in Stores /\ store \in Stores /\ seen \in Databases /\ db \in Databases
    BY EmptyStoreFits DEF Init
  <2>3. wire \in Seq(Frames) /\ pc \in Places /\ link \in {"none", "up", "cut"}
    BY DEF Init, Places
  <2>4. /\ asked \in SUBSET QuerySets /\ served \in SUBSET QuerySets
        /\ wanted \in SUBSET Sites /\ replaced \in SUBSET Sites /\ shutdown \in BOOLEAN
    BY DEF Init
  <2>5. QED
    BY <2>1, <2>2, <2>3, <2>4 DEF TypeOK
<1>2. Shape /\ Loading /\ Live
  BY DEF Init, Shape, AwayShape, Loading, Live, Places
<1>3. Chained
  <2>1. wire = <<>> /\ BaseOf(seen) \in Bases /\ link = "none"
    BY EmptyStoreFits, DatabaseFields DEF Init
  <2>2. PICK g \in [0..Len(<<>>) -> Bases] : Fits(g, <<>>, BaseOf(seen))
    BY <2>1, FitsEmpty
  <2>3. QED
    BY <2>1, <2>2 DEF Chained
<1>4. ReadyIsExact /\ NotReadyIsEmpty /\ LocatedUnlessReplaced
  BY EmptyStoreFits DEF Init, ReadyIsExact, NotReadyIsEmpty, LocatedUnlessReplaced
<1>5. QED
  BY <1>1, <1>2, <1>3, <1>4 DEF Inv

LEMMA Nothing ==
    ASSUME store' = EmptyStore
    PROVE  ReadyIsExact' /\ NotReadyIsEmpty' /\ LocatedUnlessReplaced'
BY EmptyStoreFits DEF ReadyIsExact, NotReadyIsEmpty, LocatedUnlessReplaced

LEMMA Unread ==
    ASSUME Inv, pc \notin {"stream", "torn", "ended", "failed"}
    PROVE  store = EmptyStore
BY StoreFields DEF Inv, TypeOK, NotReadyIsEmpty

\* An empty wire leads nowhere.
LEMMA ChainedEmpty ==
    ASSUME wire' = <<>>, seen' \in Databases, link' = "none" \/ served' = {}
    PROVE  Chained'
<1>1. BaseOf(seen') \in Bases /\ BaseOf(seen)' = BaseOf(seen')
  BY DatabaseFields DEF BaseOf
<1>2. PICK g \in [0..Len(<<>>) -> Bases] : Fits(g, <<>>, BaseOf(seen)')
  BY <1>1, FitsEmpty
<1>3. QED
  BY <1>2 DEF Chained

\* A session that ends leaves nothing behind but the store.
LEMMA Leaves ==
    ASSUME Inv, NEW where \in Away \ {"torn"}, Leave(where), seen' \in Databases
    PROVE  Shape' /\ Chained' /\ Loading' /\ Live'
<1>1. Chained'
  BY ChainedEmpty DEF Leave
<1>2. Shape' /\ Loading' /\ Live'
  BY DEF Leave, Shape, AwayShape, Loading, Live, Away, Places
<1>3. QED
  BY <1>1, <1>2

\* A frame is taken: what was known moves on by one frame.
LEMMA Takes ==
    ASSUME Inv, wire # <<>>, Taken, seen' = Knowing(Head(wire)), db' = db
    PROVE  Chained' /\ seen' \in Databases /\ wire' \in Seq(Frames)
<1> DEFINE m == Head(wire)
<1>1. /\ wire \in Seq(Frames) /\ m \in Frames /\ wire' = Tail(wire) /\ Tail(wire) \in Seq(Frames)
      /\ link' = link /\ served' = served /\ seen \in Databases
      /\ Len(wire) \in Nat /\ Len(wire) >= 1
  BY TailWire DEF Inv, TypeOK, Taken
<1>2. PICK f \in [0..Len(wire) -> Bases] :
          /\ Fits(f, wire, BaseOf(seen))
          /\ link = "up" /\ "base" \in served => f[Len(wire)] = BaseOf(db)
  BY DEF Inv, Chained
<1>3. PICK g \in [0..Len(Tail(wire)) -> Bases] :
          Fits(g, Tail(wire), f[1]) /\ g[Len(Tail(wire))] = f[Len(wire)]
  BY <1>1, <1>2, FitsTail
<1>4. Steps(BaseOf(seen), m, f[1])
  BY <1>1, <1>2, FitsTail
<1> HIDE DEF m
<1>5. Knowing(m) \in Databases /\ BaseOf(Knowing(m)) = f[1]
  <2>1. CASE Update(m)
    <3>1. m.rows \in Databases /\ m.delLoc \in SUBSET Sites /\ m.insLoc \in SUBSET Sites
      BY <1>1, <2>1, UpdateFields
    <3>2. Knowing(m) = [m.rows EXCEPT !.loc = (seen.loc \ m.delLoc) \cup m.insLoc]
      BY <2>1 DEF Knowing, Update
    <3>3. f[1] = BaseOf(m.rows)
      BY <1>4, <2>1 DEF Steps, Update
    <3>4. QED
      BY <1>1, <3>1, <3>2, <3>3 DEF Databases, BaseOf
  <2>2. CASE m.kind = "applied" /\ m.set = "base"
    <3>1. m.rows \in Databases
      BY <1>1, <2>2, AnswerFields
    <3>2. Knowing(m) = m.rows
      BY <2>2 DEF Knowing
    <3>3. f[1] = BaseOf(m.rows)
      BY <1>4, <2>2 DEF Steps
    <3>4. QED
      BY <3>1, <3>2, <3>3
  <2>3. CASE m.kind = "applied" /\ m.set # "base"
    <3>1. m.rows \in Databases
      BY <1>1, <2>3, AnswerFields
    <3>2. Knowing(m) = [seen EXCEPT !.loc = m.rows.loc]
      BY <2>3 DEF Knowing
    <3>3. f[1] = BaseOf(seen)
      BY <1>4, <2>3 DEF Steps
    <3>4. QED
      BY <1>1, <3>1, <3>2, <3>3 DEF Databases, BaseOf
  <2>4. m.kind = "update" \/ m.kind = "applied"
    BY <1>1 DEF Frames
  <2>5. QED
    BY <2>1, <2>2, <2>3, <2>4 DEF Update
<1>6. seen' = Knowing(m)
  BY DEF m
<1>7. BaseOf(seen)' = f[1] /\ BaseOf(db)' = BaseOf(db)
  BY <1>5, <1>6 DEF BaseOf
<1>8. QED
  BY <1>1, <1>2, <1>3, <1>5, <1>6, <1>7 DEF Chained

-----------------------------------------------------------------------------
(* The mirror's steps.                                                     *)

LEMMA CommitStep ==
    ASSUME Inv, NEW new \in Databases, NEW first \in QuerySets,
           NEW again \in SUBSET (db.hex \cap new.hex), Commit(new, again, first)
    PROVE  Inv'
<1> DEFINE hears == IF "hexite" \in served THEN wanted ELSE {}
           u == [kind |-> "update", rows |-> new, first |-> first,
                 delClaims |-> db.claims \ new.claims,
                 insClaims |-> new.claims \ db.claims,
                 delHex |-> (db.hex \ new.hex) \cup again,
                 insHex |-> (new.hex \ db.hex) \cup again,
                 delLoc |-> (db.loc \ new.loc) \cap hears,
                 insLoc |-> (new.loc \ db.loc) \cap hears]
           tells == link = "up" /\ "base" \in served
<1>1. /\ commits > 0 /\ commits' = commits - 1 /\ db' = new
      /\ wire' = IF tells THEN Append(wire, u) ELSE wire
      /\ UNCHANGED <<link, asked, served, wanted, pc, building, store, seen, patience,
                      replaced, shutdown, sessions>>
  BY DEF Commit
<1>2. /\ db \in Databases /\ wanted \in SUBSET Sites /\ wire \in Seq(Frames) /\ TypeOK
  BY DEF Inv, TypeOK
<1>3. u \in Frames /\ Update(u) /\ u.rows = new
      /\ ("hexite" \notin served => u.insLoc = {})
      /\ Leads(BaseOf(db), u, BaseOf(new))
  <2>1. hears \in SUBSET Sites
    BY <1>2
  <2>2. /\ db.claims \in SUBSET Claims /\ new.claims \in SUBSET Claims
        /\ db.hex \in SUBSET Sites /\ new.hex \in SUBSET Sites
        /\ db.loc \in SUBSET Sites /\ new.loc \in SUBSET Sites
    BY <1>2, DatabaseFields
  <2>3. "hexite" \notin served => hears = {}
    OBVIOUS
  <2> HIDE DEF hears
  <2>4. Leads(BaseOf(db), u, BaseOf(new))
    BY <2>2 DEF Leads, BaseOf
  <2>5. QED
    BY <2>1, <2>2, <2>3, <2>4 DEF Frames, Update
<1> HIDE DEF u
<1>4. CASE tells
  <2>1. wire' = Append(wire, u)
    BY <1>1, <1>4
  <2>2. /\ wire' \in Seq(Frames) /\ Len(wire) \in Nat /\ DOMAIN wire = 1..Len(wire)
        /\ DOMAIN wire' = 1..(Len(wire) + 1) /\ wire' # <<>>
        /\ \A i \in DOMAIN wire : i # Len(wire) + 1 /\ wire'[i] = wire[i]
        /\ wire'[Len(wire) + 1] = u
    BY <1>2, <1>3, <2>1, AppendWire
  <2>3. pc \notin Away
    BY <1>4 DEF Inv, Shape, AwayShape
  <2>4. \A i \in DOMAIN wire' : i \in DOMAIN wire \/ i = Len(wire) + 1
    BY <2>2
  <2>5. pc = "base" => BaseShape'
    <3>1. SUFFICES ASSUME pc = "base" PROVE BaseShape'
      OBVIOUS
    <3>2. BaseShape /\ wire # <<>>
      BY <1>4, <3>1 DEF Inv, Shape, BaseShape
    <3>3. Len(wire) >= 1
      BY <1>2, <3>2
    <3>4. QED
      BY <1>1, <1>3, <1>4, <2>2, <2>4, <3>2, <3>3 DEF BaseShape
  <2>6. pc = "hexite" => HexiteShape'
    <3>1. SUFFICES ASSUME pc = "hexite" PROVE HexiteShape'
      OBVIOUS
    <3>2. HexiteShape
      BY <3>1 DEF Inv, Shape
    <3>3. ~Answer("hexite", u)
      BY <1>3 DEF Answer, Update
    <3>4. ASSUME NEW i \in DOMAIN wire', Update(wire'[i]), wire'[i].insLoc # {}
          PROVE  \E j \in DOMAIN wire' : j < i /\ Answer("hexite", wire'[j])
      <4>1. CASE i \in DOMAIN wire
        BY <2>2, <3>2, <3>4, <4>1 DEF HexiteShape
      <4>2. CASE i = Len(wire) + 1
        <5>1. "hexite" \in served
          BY <1>3, <2>2, <3>4, <4>2
        <5>2. PICK j \in DOMAIN wire : Answer("hexite", wire[j])
          BY <1>4, <3>2, <5>1 DEF HexiteShape
        <5>3. QED
          BY <2>2, <4>2, <5>2
      <4>3. QED
        BY <2>4, <4>1, <4>2
    <3>5. \A i, j \in DOMAIN wire' :
            Answer("hexite", wire'[i]) /\ Answer("hexite", wire'[j]) => i = j
      BY <2>2, <2>4, <3>2, <3>3 DEF HexiteShape
    <3>6. /\ asked' = asked /\ served' = served /\ link' = link
          /\ \A i \in DOMAIN wire' : Update(wire'[i]) \/ Answer("hexite", wire'[i])
          /\ asked # {} => \A i \in DOMAIN wire' : Update(wire'[i])
      BY <1>1, <1>3, <2>2, <2>4, <3>2 DEF HexiteShape
    <3>7. link = "up" /\ "hexite" \in served =>
            \E i \in DOMAIN wire' : Answer("hexite", wire'[i])
      BY <2>2, <3>2 DEF HexiteShape
    <3>8. QED
      BY <3>2, <3>4, <3>5, <3>6, <3>7 DEF HexiteShape
  <2>7. pc = "stream" => StreamShape'
    BY <1>1, <1>3, <2>2, <2>4 DEF Inv, Shape, StreamShape
  <2>8. Shape'
    BY <1>1, <2>3, <2>5, <2>6, <2>7 DEF Shape, Away
  <2>9. Chained'
    <3>1. PICK f \in [0..Len(wire) -> Bases] :
            /\ Fits(f, wire, BaseOf(seen))
            /\ link = "up" /\ "base" \in served => f[Len(wire)] = BaseOf(db)
      BY DEF Inv, Chained
    <3>2. Steps(f[Len(wire)], u, BaseOf(new)) /\ BaseOf(new) \in Bases
      BY <1>3, <1>4, <3>1, DatabaseFields DEF Steps, Update
    <3>3. PICK g \in [0..Len(wire') -> Bases] :
            Fits(g, wire', BaseOf(seen)) /\ g[Len(wire')] = BaseOf(new)
      BY <1>2, <1>3, <2>1, <3>1, <3>2, FitsAppend
    <3>4. BaseOf(seen)' = BaseOf(seen) /\ BaseOf(db)' = BaseOf(new)
      BY <1>1 DEF BaseOf
    <3>5. QED
      BY <1>1, <3>3, <3>4 DEF Chained
  <2>10. QED
    BY <1>1, <2>2, <2>8, <2>9 DEF Inv, TypeOK, patience, Loading, Live,
        ReadyIsExact, NotReadyIsEmpty, LocatedUnlessReplaced
<1>5. CASE ~tells
  <2>1. wire' = wire
    BY <1>1, <1>5
  <2>2. Chained'
    BY <1>1, <1>5, <2>1 DEF Inv, Chained
  <2>3. Shape'
    BY <1>1, <2>1 DEF Inv, Shape, AwayShape, BaseShape, HexiteShape, StreamShape
  <2>4. QED
    BY <1>1, <2>1, <2>2, <2>3 DEF Inv, TypeOK, patience, Loading, Live,
        ReadyIsExact, NotReadyIsEmpty, LocatedUnlessReplaced
<1>6. QED
  BY <1>4, <1>5

LEMMA ServeStep == ASSUME Inv, NEW q \in QuerySets, Serve(q) PROVE Inv'
<1> DEFINE m == [kind |-> "applied", set |-> q,
                 rows |-> IF q = "base" THEN [db EXCEPT !.loc = {}]
                                        ELSE [NoRows EXCEPT !.loc = db.loc \cap wanted]]
<1>1. /\ link = "up" /\ q \in asked /\ asked' = asked \ {q} /\ served' = served \cup {q}
      /\ wire' = Append(wire, m)
      /\ UNCHANGED <<db, link, wanted, pc, building, store, seen, patience, replaced,
                      shutdown, commits, sessions>>
  BY DEF Serve
<1>2. /\ db \in Databases /\ wanted \in SUBSET Sites /\ wire \in Seq(Frames)
      /\ asked \in SUBSET QuerySets /\ served \in SUBSET QuerySets
  BY DEF Inv, TypeOK
<1>3. /\ m \in Frames /\ Answer(q, m) /\ ~Update(m)
      /\ q = "base" => BaseOf(m.rows) = BaseOf(db)
  <2>1. (IF q = "base" THEN [db EXCEPT !.loc = {}]
                       ELSE [NoRows EXCEPT !.loc = db.loc \cap wanted]) \in Databases
    BY <1>2, EmptyStoreFits DEF Databases
  <2>2. q = "base" => BaseOf(m.rows) = BaseOf(db)
    BY <1>2 DEF Databases, BaseOf
  <2>3. QED
    BY <2>1, <2>2 DEF Frames, Answer, Update
<1> HIDE DEF m
<1>4. /\ wire' \in Seq(Frames) /\ Len(wire) \in Nat /\ DOMAIN wire = 1..Len(wire)
      /\ DOMAIN wire' = 1..(Len(wire) + 1) /\ wire' # <<>>
      /\ \A i \in DOMAIN wire : i # Len(wire) + 1 /\ wire'[i] = wire[i]
      /\ wire'[Len(wire) + 1] = m
  BY <1>1, <1>2, <1>3, AppendWire
<1>5. \A i \in DOMAIN wire' : i \in DOMAIN wire \/ i = Len(wire) + 1
  BY <1>4
<1>6. ASSUME pc = "base" PROVE Shape'
  <2>1. BaseShape /\ q = "base" /\ wire = <<>>
    BY <1>1, <1>6 DEF Inv, Shape, BaseShape, QuerySets
  <2>2. DOMAIN wire' = {1} /\ wire'[1] = m
    BY <1>4, <2>1
  <2>3. BaseShape'
    BY <1>1, <1>2, <1>3, <1>4, <2>1, <2>2 DEF BaseShape
  <2>4. Shape'
    BY <1>1, <1>6, <2>3 DEF Shape, Away
  <2>5. QED
    BY <2>4
<1>7. ASSUME pc = "hexite" PROVE Shape'
  <2>1. HexiteShape /\ q = "hexite"
    BY <1>1, <1>7 DEF Inv, Shape, HexiteShape
  <2>2. \A i \in DOMAIN wire : Update(wire[i]) /\ wire[i].insLoc = {}
    BY <1>1, <2>1 DEF HexiteShape, Update, Answer
  <2>3. HexiteShape'
    <3>1. /\ asked' = {} /\ \E i \in DOMAIN wire' : Answer("hexite", wire'[i])
          /\ \A i \in DOMAIN wire' : Update(wire'[i]) \/ Answer("hexite", wire'[i])
      BY <1>1, <1>3, <1>4, <1>5, <2>1, <2>2 DEF HexiteShape
    <3>2. \A i \in DOMAIN wire' : Answer("hexite", wire'[i]) => i = Len(wire) + 1
      BY <1>4, <1>5, <2>2 DEF Update, Answer
    <3>3. \A i \in DOMAIN wire' : Update(wire'[i]) => wire'[i].insLoc = {}
      BY <1>3, <1>4, <1>5, <2>2
    <3>4. QED
      BY <1>4, <3>1, <3>2, <3>3 DEF HexiteShape
  <2>4. Shape'
    BY <1>1, <1>7, <2>3 DEF Shape, Away
  <2>5. QED
    BY <2>4
<1>8. Shape'
  BY <1>1, <1>6, <1>7 DEF Inv, TypeOK, Shape, AwayShape, StreamShape, Away
<1>9. Chained'
  <2>1. PICK f \in [0..Len(wire) -> Bases] :
          /\ Fits(f, wire, BaseOf(seen))
          /\ link = "up" /\ "base" \in served => f[Len(wire)] = BaseOf(db)
    BY DEF Inv, Chained
  <2>2. CASE q = "base"
    <3>1. Steps(f[Len(wire)], m, BaseOf(db)) /\ BaseOf(db) \in Bases
      BY <1>2, <1>3, <2>2, DatabaseFields DEF Steps, Answer
    <3>2. PICK g \in [0..Len(wire') -> Bases] :
            Fits(g, wire', BaseOf(seen)) /\ g[Len(wire')] = BaseOf(db)
      BY <1>1, <1>2, <1>3, <2>1, <3>1, FitsAppend
    <3>3. QED
      BY <1>1, <3>2 DEF Chained
  <2>3. CASE q # "base"
    <3>1. Steps(f[Len(wire)], m, f[Len(wire)]) /\ f[Len(wire)] \in Bases
      BY <1>3, <1>4, <2>1, <2>3 DEF Steps, Answer
    <3>2. PICK g \in [0..Len(wire') -> Bases] :
            Fits(g, wire', BaseOf(seen)) /\ g[Len(wire')] = f[Len(wire)]
      BY <1>1, <1>2, <1>3, <2>1, <3>1, FitsAppend
    <3>3. QED
      BY <1>1, <2>1, <2>3, <3>2 DEF Chained
  <2>4. QED
    BY <2>2, <2>3
<1>10. asked' \in SUBSET QuerySets /\ served' \in SUBSET QuerySets
  BY <1>1, <1>2
<1>11. QED
  BY <1>1, <1>4, <1>8, <1>9, <1>10 DEF Inv, TypeOK, patience, Loading, Live,
      ReadyIsExact, NotReadyIsEmpty, LocatedUnlessReplaced

LEMMA CutStep == ASSUME Inv, Cut PROVE Inv'
<1>1. /\ link' = "cut" /\ link = "up"
      /\ UNCHANGED <<db, asked, served, wanted, pc, building, store, seen, patience,
                      replaced, shutdown, commits, sessions>>
  BY DEF Cut
<1>2. PICK n \in 0..Len(wire) : wire' = SubSeq(wire, 1, n)
  BY DEF Cut
<1>3. wire \in Seq(Frames)
  BY DEF Inv, TypeOK
<1>4. /\ wire' \in Seq(Frames) /\ DOMAIN wire' = 1..n /\ DOMAIN wire = 1..Len(wire)
      /\ Len(wire) \in Nat
      /\ \A i \in DOMAIN wire' : i \in DOMAIN wire /\ wire'[i] = wire[i]
  BY <1>2, <1>3, CutWire
<1>5. pc \notin Away
  BY <1>1 DEF Inv, Shape, AwayShape
<1>6. pc = "base" => BaseShape'
  <2>1. SUFFICES ASSUME pc = "base" PROVE BaseShape'
    OBVIOUS
  <2>2. BaseShape
    BY <2>1 DEF Inv, Shape
  <2>3. served = {} => wire' = <<>>
    BY <1>2, <1>3, <2>2 DEF BaseShape
  <2>4. QED
    BY <1>1, <1>4, <2>2, <2>3 DEF BaseShape
<1>7. pc = "hexite" => HexiteShape'
  <2>1. SUFFICES ASSUME pc = "hexite" PROVE HexiteShape'
    OBVIOUS
  <2>2. HexiteShape
    BY <2>1 DEF Inv, Shape
  <2>3. ASSUME NEW i \in DOMAIN wire', Update(wire'[i]), wire'[i].insLoc # {}
        PROVE  \E j \in DOMAIN wire' : j < i /\ Answer("hexite", wire'[j])
    <3>1. PICK j \in DOMAIN wire : j < i /\ Answer("hexite", wire[j])
      BY <1>4, <2>2, <2>3 DEF HexiteShape
    <3>2. j \in DOMAIN wire'
      BY <1>4, <3>1
    <3>3. QED
      BY <1>4, <3>1, <3>2
  <2>4. QED
    BY <1>1, <1>4, <2>2, <2>3 DEF HexiteShape
<1>8. pc = "stream" => StreamShape'
  BY <1>1, <1>4 DEF Inv, Shape, StreamShape
<1>9. Shape'
  BY <1>1, <1>5, <1>6, <1>7, <1>8 DEF Shape, Away
<1>10. Chained'
  <2>1. PICK f \in [0..Len(wire) -> Bases] : Fits(f, wire, BaseOf(seen))
    BY DEF Inv, Chained
  <2>2. PICK g \in [0..Len(wire') -> Bases] : Fits(g, wire', BaseOf(seen))
    BY <1>2, <1>3, <2>1, FitsCut
  <2>3. QED
    BY <1>1, <2>2 DEF Chained
<1>11. QED
  BY <1>1, <1>4, <1>9, <1>10 DEF Inv, TypeOK, patience, Loading, Live,
      ReadyIsExact, NotReadyIsEmpty, LocatedUnlessReplaced

-----------------------------------------------------------------------------
(* The shard's steps.                                                      *)

LEMMA DialStep == ASSUME Inv, Dial PROVE Inv'
<1>1. /\ pc = "gate" /\ sessions > 0 /\ sessions' = sessions - 1 /\ pc' = "connecting"
      /\ UNCHANGED <<db, link, asked, served, wanted, wire, commits, building, store, seen,
                      backoff, streak, replaced, shutdown>>
  BY DEF Dial, serverVars, patience
<1>2. sessions' \in Nat
  BY <1>1 DEF Inv, TypeOK
<1>3. TypeOK'
  BY <1>1, <1>2 DEF Inv, TypeOK, Places
<1>4. store' = EmptyStore
  BY <1>1, Unread
<1>5. Shape' /\ Chained' /\ Loading' /\ Live'
  BY <1>1 DEF Inv, Shape, AwayShape, Chained, Loading, Live, Away, Places
<1>6. QED
  BY <1>3, <1>4, <1>5, Nothing DEF Inv

LEMMA ConnectStep == ASSUME Inv, Connect PROVE Inv'
<1>1. /\ pc = "connecting" /\ pc' = "base" /\ link' = "up"
      /\ asked' = {"base"} /\ served' = {} /\ wanted' = {} /\ wire' = <<>>
      /\ building' = EmptyStore
      /\ UNCHANGED <<db, store, seen, patience, replaced, shutdown, commits, sessions>>
  BY DEF Connect
<1>2. TypeOK /\ store = EmptyStore
  BY <1>1, Unread DEF Inv
<1>3. TypeOK'
  <2>1. wire' \in Seq(Frames) /\ asked' \in SUBSET QuerySets
    BY <1>1 DEF QuerySets
  <2>2. QED
    BY <1>1, <1>2, <2>1, EmptyStoreFits DEF TypeOK, Places, patience
<1>4. Shape'
  <2>1. BaseShape'
    BY <1>1 DEF BaseShape
  <2>2. QED
    BY <1>1, <2>1 DEF Shape, Away
<1>5. Chained'
  BY <1>1, <1>2, ChainedEmpty DEF TypeOK
<1>6. Loading' /\ Live'
  BY <1>1 DEF Loading, Live
<1>7. QED
  BY <1>1, <1>2, <1>3, <1>4, <1>5, <1>6, Nothing DEF Inv

\* The types a session leaves behind.
LEMMA LeaveTypes ==
    ASSUME TypeOK, NEW where \in Places, Leave(where)
    PROVE  /\ pc' \in Places /\ link' \in {"none", "up", "cut"}
           /\ asked' \in SUBSET QuerySets /\ served' \in SUBSET QuerySets
           /\ wanted' \in SUBSET Sites /\ wire' \in Seq(Frames) /\ building' \in Stores
<1>1. wire' \in Seq(Frames)
  BY DEF Leave
<1>2. QED
  BY <1>1, EmptyStoreFits DEF Leave

LEMMA FailConnectStep == ASSUME Inv, FailConnect PROVE Inv'
<1>1. /\ pc = "connecting" /\ Leave("failed")
      /\ UNCHANGED <<db, store, seen, patience, replaced, shutdown, commits, sessions>>
  BY DEF FailConnect
<1>2. TypeOK /\ store = EmptyStore
  BY <1>1, Unread DEF Inv
<1>3. TypeOK'
  BY <1>1, <1>2, LeaveTypes DEF TypeOK, Places, patience
<1>4. Shape' /\ Chained' /\ Loading' /\ Live'
  BY <1>1, <1>2, Leaves DEF TypeOK, Away, Places
<1>5. QED
  BY <1>1, <1>2, <1>3, <1>4, Nothing DEF Inv

\* A session that ends with the store as it is.
LEMMA EndingStep ==
    ASSUME Inv, NEW where \in {"ended", "failed"}, Leave(where),
           pc \in {"base", "hexite", "stream"},
           UNCHANGED <<db, store, seen, patience, replaced, shutdown, commits, sessions>>
    PROVE  Inv'
<1>1. TypeOK'
  BY LeaveTypes DEF Inv, TypeOK, Places, patience
<1>2. Shape' /\ Chained' /\ Loading' /\ Live'
  BY Leaves DEF Inv, TypeOK, Away, Places
<1>3. pc' = where
  BY DEF Leave
<1>4. ReadyIsExact' /\ NotReadyIsEmpty' /\ LocatedUnlessReplaced'
  BY <1>3 DEF Inv, ReadyIsExact, NotReadyIsEmpty, LocatedUnlessReplaced
<1>5. QED
  BY <1>1, <1>2, <1>4 DEF Inv

LEMMA TornStep == ASSUME Inv, RecvTornUpdate PROVE Inv'
<1>1. /\ pc = "stream" /\ wire # <<>> /\ Head(wire).kind = "update"
      /\ UNCHANGED <<db, patience, commits, sessions, shutdown>>
      /\ store' \in TornUpdates(store, Head(wire)) /\ Leave("torn") /\ UNCHANGED <<seen, replaced>>
  BY DEF RecvTornUpdate, Receive
<1>2. TypeOK /\ store.ready
  BY <1>1 DEF Inv, Live
<1>3. store' \in Stores /\ store'.ready
  <2>1. Head(wire) \in Frames /\ Update(Head(wire)) /\ store \in Stores
    BY <1>1, <1>2, TailWire DEF TypeOK, Update
  <2>2. QED
    BY <1>1, <1>2, <2>1, TornKeeps
<1>4. TypeOK'
  BY <1>1, <1>2, <1>3, LeaveTypes DEF TypeOK, Places, patience
<1>5. pc' = "torn" /\ wire' = <<>> /\ link' = "none" /\ seen' \in Databases
  BY <1>1, <1>2 DEF Leave, TypeOK
<1>6. Shape' /\ Loading' /\ Live'
  BY <1>1, <1>3 DEF Leave, Shape, AwayShape, Loading, Live, Away, Places
<1>7. Chained'
  BY <1>5, ChainedEmpty
<1>8. ReadyIsExact' /\ NotReadyIsEmpty' /\ LocatedUnlessReplaced'
  BY <1>3, <1>5 DEF ReadyIsExact, NotReadyIsEmpty, LocatedUnlessReplaced
<1>9. QED
  BY <1>4, <1>6, <1>7, <1>8 DEF Inv

LEMMA ClearStep == ASSUME Inv, ClearStore PROVE Inv'
<1>1. /\ pc \in {"ended", "failed", "torn"} /\ store' = EmptyStore /\ pc' = "backoff"
      /\ seen' = NoRows /\ replaced' = {}
      /\ UNCHANGED <<db, link, asked, served, wanted, wire, commits, building, shutdown, sessions>>
  BY DEF ClearStore, Cleared, serverVars
<1>2. backoff' \in {BackoffMin, backoff} /\ streak' \in {0, streak}
  BY DEF ClearStore, Forgiven
<1>3. TypeOK'
  <2>1. backoff' \in BackoffMin..BackoffMax /\ streak' \in Nat
    BY <1>2, SessionAssumption DEF Inv, TypeOK
  <2>2. QED
    BY <1>1, <2>1, EmptyStoreFits DEF Inv, TypeOK, Places
<1>4. AwayShape
  BY <1>1 DEF Inv, Shape, Away, Places
<1>5. Shape' /\ Loading' /\ Live'
  BY <1>1, <1>4 DEF Inv, Shape, AwayShape, Loading, Live, Away, Places
<1>6. Chained'
  BY <1>1, <1>4, EmptyStoreFits, ChainedEmpty DEF AwayShape
<1>7. QED
  BY <1>1, <1>3, <1>5, <1>6, Nothing DEF Inv

LEMMA WakeStep == ASSUME Inv, WakeUp PROVE Inv'
<1>1. /\ pc = "backoff" /\ pc' = "gate" /\ backoff' = Doubled(backoff) /\ streak' = streak + 1
      /\ UNCHANGED <<db, link, asked, served, wanted, wire, commits, building, store, seen,
                      replaced, shutdown, sessions>>
  BY DEF WakeUp, serverVars
<1>2. TypeOK'
  <2>1. backoff' \in BackoffMin..BackoffMax /\ streak' \in Nat
    BY <1>1, SessionAssumption DEF Inv, TypeOK, Doubled
  <2>2. QED
    BY <1>1, <2>1 DEF Inv, TypeOK, Places
<1>3. AwayShape /\ store = EmptyStore
  BY <1>1, Unread DEF Inv, Shape, Away, Places
<1>4. Shape' /\ Loading' /\ Live'
  BY <1>1, <1>3 DEF Inv, Shape, AwayShape, Loading, Live, Away, Places
<1>5. Chained'
  BY <1>1, <1>2, <1>3, ChainedEmpty DEF AwayShape, TypeOK
<1>6. QED
  BY <1>1, <1>2, <1>3, <1>4, <1>5, Nothing DEF Inv

LEMMA StopStep == ASSUME Inv, Stop PROVE Inv'
<1>1. /\ Leave("stopped") /\ store' = EmptyStore /\ seen' = NoRows /\ replaced' = {}
      /\ UNCHANGED <<db, patience, shutdown, commits, sessions>>
  BY DEF Stop, Cleared
<1>2. TypeOK'
  BY <1>1, EmptyStoreFits, LeaveTypes DEF Inv, TypeOK, Places, patience
<1>3. Shape' /\ Chained' /\ Loading' /\ Live'
  BY <1>1, EmptyStoreFits, Leaves DEF Away, Places
<1>4. QED
  BY <1>1, <1>2, <1>3, Nothing DEF Inv

\* The frame a session reads, and what it knows from it.
LEMMA Reads ==
    ASSUME Inv, wire # <<>>
    PROVE  /\ wire \in Seq(Frames) /\ Head(wire) = wire[1] /\ 1 \in DOMAIN wire
           /\ Head(wire) \in Frames
           /\ DOMAIN Tail(wire) = 1..(Len(wire) - 1) /\ Len(wire) \in Nat /\ DOMAIN wire = 1..Len(wire)
           /\ \A i \in DOMAIN Tail(wire) : i + 1 \in DOMAIN wire /\ Tail(wire)[i] = wire[i + 1]
           /\ Knowing(Head(wire)) \in Databases
<1>1. wire \in Seq(Frames) /\ seen \in Databases
  BY DEF Inv, TypeOK
<1> DEFINE m == Head(wire)
<1>2. /\ m = wire[1] /\ 1 \in DOMAIN wire /\ m \in Frames
      /\ DOMAIN Tail(wire) = 1..(Len(wire) - 1) /\ Len(wire) \in Nat /\ DOMAIN wire = 1..Len(wire)
      /\ \A i \in DOMAIN Tail(wire) : i + 1 \in DOMAIN wire /\ Tail(wire)[i] = wire[i + 1]
  BY <1>1, TailWire
<1> HIDE DEF m
<1>3. Knowing(m) \in Databases
  <2>1. CASE Update(m)
    <3>1. m.rows \in Databases /\ m.delLoc \in SUBSET Sites /\ m.insLoc \in SUBSET Sites
      BY <1>2, <2>1, UpdateFields
    <3>2. Knowing(m) = [m.rows EXCEPT !.loc = (seen.loc \ m.delLoc) \cup m.insLoc]
      BY <2>1 DEF Knowing, Update
    <3>3. QED
      BY <1>1, <3>1, <3>2 DEF Databases
  <2>2. CASE ~Update(m)
    <3>1. m.kind = "applied"
      BY <1>2, <2>2 DEF Frames, Update
    <3>2. m.rows \in Databases
      BY <1>2, <3>1, AnswerFields
    <3>3. Knowing(m) \in {m.rows, [seen EXCEPT !.loc = m.rows.loc]}
      BY <2>2 DEF Knowing, Update
    <3>4. QED
      BY <1>1, <3>2, <3>3 DEF Databases
  <2>3. QED
    BY <2>1, <2>2
<1>4. QED
  BY <1>1, <1>2, <1>3 DEF m

LEMMA BaseStep == ASSUME Inv, RecvBase PROVE Inv'
<1> DEFINE m == Head(wire)
           s == MergeBase(building, m.rows)
<1>1. /\ pc = "base" /\ wire # <<>> /\ m.kind = "applied"
      /\ UNCHANGED <<db, patience, commits, sessions, shutdown, replaced>>
      /\ seen' = Knowing(m)
  BY DEF RecvBase, Receive
<1>2. /\ m \in Frames /\ m = wire[1] /\ 1 \in DOMAIN wire /\ seen' \in Databases
      /\ \A i \in DOMAIN Tail(wire) :
            i + 1 \in DOMAIN wire /\ i + 1 # 1 /\ Tail(wire)[i] = wire[i + 1]
  BY <1>1, Reads
<1>3. BaseShape /\ building = EmptyStore /\ store = EmptyStore /\ TypeOK
  BY <1>1, Unread DEF Inv, Shape, Loading
<1>4. /\ Answer("base", m) /\ asked = {} /\ served = {"base"}
      /\ \A i \in DOMAIN Tail(wire) : Update(Tail(wire)[i]) /\ Tail(wire)[i].insLoc = {}
  BY <1>1, <1>2, <1>3 DEF BaseShape
<1>5. m.rows \in Databases /\ seen' = m.rows
  BY <1>1, <1>2, <1>4, AnswerFields DEF Knowing, Answer
<1> HIDE DEF m
<1>6. /\ s \in Stores /\ s.claims = m.rows.claims /\ s.hex = m.rows.hex
      /\ s.located = {} /\ s.ready = FALSE
  BY <1>3, <1>5, DatabaseFields DEF MergeBase, Stores, EmptyStore
<1> HIDE DEF s
<1>7. \/ Leave("ended") /\ store' = store
      \/ /\ asked' = asked \cup {"hexite"} /\ wanted' = m.rows.hex /\ building' = s
         /\ pc' = "hexite" /\ Taken /\ store' = store
      \/ /\ m.rows.hex = {} /\ Publish(s) /\ Taken /\ asked' = asked /\ wanted' = wanted
  BY DEF RecvBase, m, s
<1>8. CASE Leave("ended") /\ store' = store
  <2>1. TypeOK'
    BY <1>1, <1>2, <1>3, <1>8, LeaveTypes DEF TypeOK, Places, patience
  <2>2. Shape' /\ Chained' /\ Loading' /\ Live'
    BY <1>2, <1>8, Leaves DEF Away, Places
  <2>3. QED
    BY <1>3, <1>8, <2>1, <2>2, Nothing DEF Inv
<1>9. CASE /\ asked' = asked \cup {"hexite"} /\ wanted' = m.rows.hex /\ building' = s
           /\ pc' = "hexite" /\ Taken /\ store' = store
  <2>1. Chained' /\ wire' \in Seq(Frames)
    BY <1>1, <1>9, Takes DEF m
  <2>2. wire' = Tail(wire) /\ link' = link /\ served' = served
    BY <1>9 DEF Taken
  <2>3. wanted' \in SUBSET Sites /\ asked' \in SUBSET QuerySets /\ building' \in Stores
    BY <1>4, <1>5, <1>6, <1>9, DatabaseFields DEF QuerySets
  <2>4. TypeOK'
    BY <1>1, <1>2, <1>3, <1>9, <2>1, <2>2, <2>3 DEF TypeOK, Places, patience
  <2>5. HexiteShape'
    BY <1>4, <1>9, <2>2 DEF HexiteShape, Update, Answer
  <2>6. Shape' /\ Loading' /\ Live'
    BY <1>5, <1>6, <1>9, <2>5 DEF Shape, Loading, Live, Away
  <2>7. QED
    BY <1>3, <1>9, <2>1, <2>4, <2>6, Nothing DEF Inv
<1>10. CASE /\ m.rows.hex = {} /\ Publish(s) /\ Taken /\ asked' = asked /\ wanted' = wanted
  <2>1. Chained' /\ wire' \in Seq(Frames)
    BY <1>1, <1>10, Takes DEF m
  <2>2. /\ wire' = Tail(wire) /\ link' = link /\ served' = served
        /\ store' = [s EXCEPT !.ready = TRUE] /\ building' = EmptyStore /\ pc' = "stream"
    BY <1>10 DEF Taken, Publish
  <2>3. /\ store' \in Stores /\ store'.ready /\ store'.claims = m.rows.claims
        /\ store'.hex = m.rows.hex /\ store'.located = {}
    BY <1>6, <2>2 DEF Stores
  <2>4. TypeOK'
    BY <1>1, <1>2, <1>3, <1>10, <2>1, <2>2, <2>3, EmptyStoreFits DEF TypeOK, Places, patience
  <2>5. Shape' /\ Loading' /\ Live'
    BY <1>4, <1>10, <2>2, <2>3 DEF Shape, StreamShape, Loading, Live, Away
  <2>6. ReadyIsExact' /\ NotReadyIsEmpty' /\ LocatedUnlessReplaced'
    BY <1>5, <1>10, <2>2, <2>3 DEF ReadyIsExact, NotReadyIsEmpty, LocatedUnlessReplaced
  <2>7. QED
    BY <2>1, <2>4, <2>5, <2>6 DEF Inv
<1>11. QED
  BY <1>7, <1>8, <1>9, <1>10

LEMMA HexiteStep == ASSUME Inv, RecvHexite PROVE Inv'
<1> DEFINE m == Head(wire)
           s == Attach(building, m.rows)
<1>1. /\ pc = "hexite" /\ wire # <<>> /\ m.kind = "applied" /\ Taken /\ seen' = Knowing(m)
      /\ Publish(s) /\ UNCHANGED <<db, patience, commits, sessions, shutdown, asked, wanted, replaced>>
  BY DEF RecvHexite, Receive
<1>2. /\ m \in Frames /\ m = wire[1] /\ 1 \in DOMAIN wire /\ seen' \in Databases
      /\ \A i \in DOMAIN Tail(wire) :
            i + 1 \in DOMAIN wire /\ i + 1 # 1 /\ Tail(wire)[i] = wire[i + 1]
  BY <1>1, Reads
<1>3. /\ HexiteShape /\ TypeOK /\ building \in Stores /\ seen \in Databases
      /\ building.claims = seen.claims /\ building.hex = seen.hex /\ building.located = {}
  BY <1>1 DEF Inv, Shape, Loading, TypeOK
<1>4. Answer("hexite", m) /\ asked = {} /\ \A i \in DOMAIN Tail(wire) : Update(Tail(wire)[i])
  BY <1>1, <1>2, <1>3 DEF HexiteShape, Answer, Update
<1>5. Chained' /\ wire' \in Seq(Frames) /\ wire' = Tail(wire) /\ link' = link /\ served' = served
  BY <1>1, Takes DEF Taken
<1>6. m.rows \in Databases /\ seen' = [seen EXCEPT !.loc = m.rows.loc]
  BY <1>1, <1>2, <1>4, AnswerFields DEF Knowing, Answer
<1> HIDE DEF m
<1>7. /\ s \in Stores /\ s.claims = building.claims /\ s.hex = building.hex
      /\ s.located = m.rows.loc \cap building.hex
  <2>1. m.rows.loc \in SUBSET Sites /\ building.located = {}
    BY <1>3, <1>6, DatabaseFields
  <2>2. QED
    BY <1>3, <2>1, StoreFields DEF Attach, Stores
<1>8. seen'.claims = seen.claims /\ seen'.hex = seen.hex /\ seen'.loc = m.rows.loc
  BY <1>3, <1>6 DEF Databases
<1>9. store' = [s EXCEPT !.ready = TRUE] /\ building' = EmptyStore /\ pc' = "stream"
  BY <1>1 DEF Publish
<1> HIDE DEF s
<1>10. /\ store' \in Stores /\ store'.ready /\ store'.claims = s.claims
       /\ store'.hex = s.hex /\ store'.located = s.located
  BY <1>7, <1>9 DEF Stores
<1>11. TypeOK'
  BY <1>1, <1>2, <1>3, <1>5, <1>9, <1>10, EmptyStoreFits DEF TypeOK, Places, patience
<1>12. Shape' /\ Loading' /\ Live'
  BY <1>1, <1>4, <1>5, <1>9, <1>10 DEF Shape, StreamShape, Loading, Live, Away
<1>13. ReadyIsExact' /\ NotReadyIsEmpty' /\ LocatedUnlessReplaced'
  BY <1>3, <1>7, <1>8, <1>9, <1>10 DEF ReadyIsExact, NotReadyIsEmpty, LocatedUnlessReplaced
<1>14. QED
  BY <1>5, <1>11, <1>12, <1>13 DEF Inv

\* What a session knows after a transaction.
LEMMA KnowsUpdate ==
    ASSUME seen \in Databases, NEW m \in Frames, Update(m)
    PROVE  /\ Knowing(m).claims = m.rows.claims /\ Knowing(m).hex = m.rows.hex
           /\ Knowing(m).loc = (seen.loc \ m.delLoc) \cup m.insLoc
<1>1. m.rows \in Databases
  BY UpdateFields
<1>2. Knowing(m) = [m.rows EXCEPT !.loc = (seen.loc \ m.delLoc) \cup m.insLoc]
  BY DEF Knowing, Update
<1>3. QED
  BY <1>1, <1>2 DEF Databases

\* A transaction leads from the base rows seen to those of its own moment.
LEMMA UpdateLeads ==
    ASSUME Inv, wire # <<>>, Update(Head(wire))
    PROVE  /\ (seen.hex \ Head(wire).delHex) \cup Head(wire).insHex = Head(wire).rows.hex
           /\ (seen.claims \ Head(wire).delClaims) \cup Head(wire).insClaims
                 = Head(wire).rows.claims
<1>1. PICK f \in [0..Len(wire) -> Bases] : Fits(f, wire, BaseOf(seen))
  BY DEF Inv, Chained
<1>2. Steps(BaseOf(seen), Head(wire), f[1])
  BY <1>1, FitsTail DEF Inv, TypeOK
<1>3. QED
  BY <1>2 DEF Steps, Update, Leads, BaseOf

LEMMA EarlyStep == ASSUME Inv, RecvEarlyUpdate PROVE Inv'
<1> DEFINE m == Head(wire)
<1>1. /\ pc \in {"base", "hexite"} /\ wire # <<>> /\ m.kind = "update" /\ Taken
      /\ seen' = Knowing(m) /\ building' = ApplyUpdate(building, m)
      /\ replaced' = replaced \cup m.insHex
      /\ UNCHANGED <<db, patience, commits, sessions, shutdown, asked, wanted, pc, store>>
  BY DEF RecvEarlyUpdate, Receive, OnUpdate
<1>2. /\ m \in Frames /\ Update(m) /\ m = wire[1] /\ 1 \in DOMAIN wire /\ seen' \in Databases
      /\ DOMAIN Tail(wire) = 1..(Len(wire) - 1) /\ Len(wire) \in Nat /\ DOMAIN wire = 1..Len(wire)
      /\ \A i \in DOMAIN Tail(wire) : i + 1 \in DOMAIN wire /\ Tail(wire)[i] = wire[i + 1]
  BY <1>1, Reads DEF Update
<1>3. pc = "hexite"
  BY <1>1, <1>2 DEF Inv, Shape, BaseShape, Answer
<1>4. /\ HexiteShape /\ TypeOK /\ building \in Stores /\ seen \in Databases /\ store = EmptyStore
      /\ building.claims = seen.claims /\ building.hex = seen.hex /\ building.located = {}
      /\ ~building.ready
  BY <1>3, Unread DEF Inv, Shape, Loading, TypeOK
<1>5. Chained' /\ wire' \in Seq(Frames) /\ wire' = Tail(wire) /\ link' = link /\ served' = served
  BY <1>1, Takes DEF Taken
<1>6. /\ (seen.hex \ m.delHex) \cup m.insHex = m.rows.hex
      /\ (seen.claims \ m.delClaims) \cup m.insClaims = m.rows.claims
  BY <1>1, <1>2, UpdateLeads
<1>7. seen'.claims = m.rows.claims /\ seen'.hex = m.rows.hex
  BY <1>1, <1>2, <1>4, KnowsUpdate
<1> HIDE DEF m
<1>8. ~Answer("hexite", m)
  BY <1>2 DEF Update, Answer
<1>9. m.insLoc = {}
  <2>1. \A j \in DOMAIN wire : ~(j < 1)
    BY <1>2
  <2>2. QED
    BY <1>2, <1>4, <2>1 DEF HexiteShape
<1>10. /\ building' \in Stores /\ building'.ready = building.ready
       /\ building'.claims = m.rows.claims /\ building'.hex = m.rows.hex /\ building'.located = {}
  <2>1. /\ building' \in Stores /\ building'.ready = building.ready
        /\ building'.claims = (building.claims \ m.delClaims) \cup m.insClaims
        /\ building'.hex = (building.hex \ m.delHex) \cup m.insHex
        /\ building'.located \subseteq (building.located \ m.delLoc) \cup m.insLoc
    BY <1>1, <1>2, <1>4, ApplyKeeps
  <2>2. QED
    BY <1>4, <1>6, <1>9, <2>1
<1>11. HexiteShape'
  <2>1. ASSUME NEW j \in DOMAIN wire, Answer("hexite", wire[j])
        PROVE  j - 1 \in DOMAIN wire' /\ wire'[j - 1] = wire[j]
    <3>1. j # 1
      BY <1>2, <1>8, <2>1
    <3>2. j - 1 \in DOMAIN Tail(wire) /\ (j - 1) + 1 = j
      BY <1>2, <3>1
    <3>3. QED
      BY <1>2, <1>5, <3>2
  <2>2. ASSUME NEW i \in DOMAIN wire', Update(wire'[i]), wire'[i].insLoc # {}
        PROVE  \E j \in DOMAIN wire' : j < i /\ Answer("hexite", wire'[j])
    <3>1. PICK j \in DOMAIN wire : j < i + 1 /\ Answer("hexite", wire[j])
      BY <1>2, <1>4, <1>5, <2>2 DEF HexiteShape
    <3>2. j - 1 \in DOMAIN wire' /\ wire'[j - 1] = wire[j]
      BY <2>1, <3>1
    <3>3. j - 1 < i
      BY <1>2, <1>5, <3>1
    <3>4. QED
      BY <3>1, <3>2, <3>3
  <2>3. link = "up" /\ "hexite" \in served => \E i \in DOMAIN wire' : Answer("hexite", wire'[i])
    BY <1>4, <2>1 DEF HexiteShape
  <2>4. /\ \A i \in DOMAIN wire' : Update(wire'[i]) \/ Answer("hexite", wire'[i])
        /\ asked # {} => \A i \in DOMAIN wire' : Update(wire'[i])
    BY <1>2, <1>4, <1>5 DEF HexiteShape
  <2>5. ASSUME NEW i \in DOMAIN wire', NEW j \in DOMAIN wire',
               Answer("hexite", wire'[i]), Answer("hexite", wire'[j])
        PROVE  i = j
    <3>1. /\ i + 1 \in DOMAIN wire /\ Answer("hexite", wire[i + 1]) /\ i \in Nat
          /\ j + 1 \in DOMAIN wire /\ Answer("hexite", wire[j + 1]) /\ j \in Nat
      BY <1>2, <1>5, <2>5
    <3>2. i + 1 = j + 1
      BY <1>4, <3>1 DEF HexiteShape
    <3>3. QED
      BY <3>1, <3>2
  <2>6. QED
    BY <1>1, <1>4, <1>5, <2>2, <2>3, <2>4, <2>5 DEF HexiteShape
<1>12. Shape' /\ Loading' /\ Live'
  BY <1>1, <1>3, <1>4, <1>7, <1>10, <1>11 DEF Shape, Loading, Live, Away
<1>13. TypeOK'
  <2>1. replaced' \in SUBSET Sites
    BY <1>1, <1>2, <1>4, UpdateFields DEF TypeOK, m
  <2>2. QED
    BY <1>1, <1>2, <1>4, <1>5, <1>10, <2>1 DEF TypeOK, Places, patience
<1>14. QED
  BY <1>1, <1>4, <1>5, <1>12, <1>13, Nothing DEF Inv

LEMMA UpdateStep == ASSUME Inv, RecvUpdate PROVE Inv'
<1> DEFINE m == Head(wire)
<1>1. /\ pc = "stream" /\ wire # <<>> /\ m.kind = "update" /\ Taken
      /\ seen' = Knowing(m) /\ store' = ApplyUpdate(store, m)
      /\ replaced' = replaced \cup m.insHex
      /\ UNCHANGED <<db, patience, commits, sessions, shutdown, asked, wanted, pc, building>>
  BY DEF RecvUpdate, Receive
<1>2. /\ m \in Frames /\ Update(m) /\ seen' \in Databases
      /\ \A i \in DOMAIN Tail(wire) : i + 1 \in DOMAIN wire /\ Tail(wire)[i] = wire[i + 1]
  BY <1>1, Reads DEF Update
<1>3. /\ StreamShape /\ TypeOK /\ store \in Stores /\ seen \in Databases /\ store.ready
      /\ store.claims = seen.claims /\ store.hex = seen.hex /\ store.located \subseteq seen.loc
      /\ (store.hex \cap seen.loc) \ store.located \subseteq replaced
  BY <1>1 DEF Inv, Shape, Live, TypeOK, ReadyIsExact, LocatedUnlessReplaced
<1>4. Chained' /\ wire' \in Seq(Frames) /\ wire' = Tail(wire) /\ link' = link /\ served' = served
  BY <1>1, Takes DEF Taken
<1>5. /\ (seen.hex \ m.delHex) \cup m.insHex = m.rows.hex
      /\ (seen.claims \ m.delClaims) \cup m.insClaims = m.rows.claims
  BY <1>1, <1>2, UpdateLeads
<1>6. /\ seen'.claims = m.rows.claims /\ seen'.hex = m.rows.hex
      /\ seen'.loc = (seen.loc \ m.delLoc) \cup m.insLoc
  BY <1>1, <1>2, <1>3, KnowsUpdate
<1> HIDE DEF m
<1>7. /\ store' \in Stores /\ store'.ready
      /\ store'.claims = (store.claims \ m.delClaims) \cup m.insClaims
      /\ store'.hex = (store.hex \ m.delHex) \cup m.insHex
      /\ store'.located \subseteq (store.located \ m.delLoc) \cup m.insLoc
      /\ \A x \in store'.hex \ m.insHex :
            x \in store.located \ m.delLoc \/ x \in m.insLoc => x \in store'.located
  BY <1>1, <1>2, <1>3, ApplyKeeps
<1>8. TypeOK'
  <2>1. replaced' \in SUBSET Sites
    BY <1>1, <1>2, <1>3, UpdateFields DEF TypeOK, m
  <2>2. QED
    BY <1>1, <1>2, <1>3, <1>4, <1>7, <2>1 DEF TypeOK, Places, patience
<1>9. Shape' /\ Live'
  BY <1>1, <1>2, <1>3, <1>4, <1>7 DEF Shape, StreamShape, Live, Away
<1>10. Loading'
  BY <1>1 DEF Inv, Loading
<1>11. ReadyIsExact' /\ NotReadyIsEmpty'
  BY <1>1, <1>3, <1>5, <1>6, <1>7 DEF ReadyIsExact, NotReadyIsEmpty
<1>12. LocatedUnlessReplaced'
  <2>1. ASSUME NEW x \in store'.hex, x \in seen'.loc, x \notin store'.located
        PROVE  x \in replaced'
    BY <1>1, <1>3, <1>6, <1>7, <2>1 DEF m
  <2>2. QED
    BY <2>1 DEF LocatedUnlessReplaced
<1>13. QED
  BY <1>4, <1>8, <1>9, <1>10, <1>11, <1>12 DEF Inv

-----------------------------------------------------------------------------
(* The theorems.                                                           *)

LEMMA EndStep == ASSUME Inv, EndSession \/ IntegrityReconnect PROVE Inv'
<1>1. /\ \E where \in {"ended", "failed"} : Leave(where)
      /\ pc \in {"base", "hexite", "stream"}
      /\ UNCHANGED <<db, store, seen, patience, replaced, shutdown, commits, sessions>>
  BY DEF EndSession, IntegrityReconnect
<1>2. QED
  BY <1>1, EndingStep

LEMMA SameStep ==
    ASSUME Inv, UNCHANGED <<serverVars, pc, building, store, seen, patience, replaced, sessions>>,
           shutdown' \in BOOLEAN
    PROVE  Inv'
<1>1. /\ UNCHANGED <<db, link, asked, served, wanted, wire, commits, pc, building, store, seen,
                      backoff, streak, replaced, sessions>>
  BY DEF serverVars, patience
<1>2. TypeOK' /\ Shape' /\ Chained' /\ Loading' /\ Live'
  BY <1>1 DEF Inv, TypeOK, Shape, AwayShape, BaseShape, HexiteShape, StreamShape,
      Chained, Loading, Live
<1>3. ReadyIsExact' /\ NotReadyIsEmpty' /\ LocatedUnlessReplaced'
  BY <1>1 DEF Inv, ReadyIsExact, NotReadyIsEmpty, LocatedUnlessReplaced
<1>4. QED
  BY <1>2, <1>3 DEF Inv

LEMMA NextInv == Inv /\ [Next]_vars => Inv'
<1> SUFFICES ASSUME Inv, [Next]_vars PROVE Inv'
  OBVIOUS
<1>1. CASE Mirror
  BY <1>1, CommitStep, ServeStep, CutStep DEF Mirror
<1>2. CASE Shard
  BY <1>2, DialStep, ConnectStep, FailConnectStep, BaseStep, HexiteStep, EarlyStep, UpdateStep, TornStep,
      EndStep, ClearStep, WakeStep, StopStep DEF Shard
<1>3. CASE ShutDown
  BY <1>3, SameStep DEF ShutDown
<1>4. CASE UNCHANGED vars
  <2>1. /\ UNCHANGED <<serverVars, pc, building, store, seen, patience, replaced, sessions>>
        /\ shutdown' = shutdown
    BY <1>4 DEF vars, serverVars
  <2>2. QED
    BY <2>1, SameStep DEF Inv, TypeOK
<1>5. QED
  BY <1>1, <1>2, <1>3, <1>4 DEF Next

THEOREM InvHolds == Spec => []Inv
BY InitInv, NextInv, PTL DEF Spec

\* The task's variables keep their types; a row of the store that is marked as
\* located is there (ResourceSoA), and the backoff stays within its bounds.
THEOREM TypeCorrect == Spec => []TypeOK
BY InvHolds, PTL DEF Inv

\* Whatever the mirror commits, and whatever the wire holds during both phases
\* of the load, a ready store is the mirror as of the last frame taken.
THEOREM ReadyExactHolds == Spec => []ReadyIsExact
BY InvHolds, PTL DEF Inv

\* Readers see no part of a load, and nothing of a session the shard has left
\* and cleared (run_shard_loop, clear_store).
THEOREM NotReadyHolds == Spec => []NotReadyIsEmpty
BY InvHolds, PTL DEF Inv

\* A deposit without coordinates is one whose row the session saw inserted anew:
\* no interleaving of the two answers with transactions loses another location.
THEOREM LocatedHolds == Spec => []LocatedUnlessReplaced
BY InvHolds, PTL DEF Inv

-----------------------------------------------------------------------------
(* Induction over sets of naturals, from the well-foundedness of <.         *)

LEMMA Descends ==
    ASSUME NEW x \in Nat, NEW y \in Nat, y < x
    PROVE  <<y, x>> \in OpToRel(<, Nat)
<1>1. <<y, x>> \in {ss \in Nat \X Nat : ss[1] < ss[2]}
  OBVIOUS
<1>2. QED
  BY <1>1, Zenon DEF OpToRel

\* A set of naturals with a member has a least one.
LEMMA LeastNat ==
    ASSUME NEW T, T \subseteq Nat, T # {}
    PROVE  \E x \in T : \A y \in T : x <= y
<1>1. PICK x \in T : \A y \in T : ~ (<<y, x>> \in OpToRel(<, Nat))
  BY NatLessThanWellFounded, WFMin, Zenon
<1>2. ASSUME NEW y \in T PROVE x <= y
  <2>1. ~ (y < x)
    BY <1>1, Descends
  <2>2. x \in Nat /\ y \in Nat
    OBVIOUS
  <2>3. QED
    BY <2>1, <2>2
<1>3. QED
  BY <1>2

\* A set with 0, and the successor of each of its numbers, has all of them.
LEMMA AllNats ==
    ASSUME NEW S, 0 \in S, \A n \in Nat : n \in S => n + 1 \in S
    PROVE  Nat \subseteq S
<1> SUFFICES ASSUME Nat \ S # {} PROVE FALSE
  OBVIOUS
<1>1. PICK x \in Nat \ S : \A y \in Nat \ S : x <= y
  BY LeastNat
<1>2. x # 0 /\ x - 1 \in Nat
  BY <1>1
<1>3. x - 1 \in S
  BY <1>1, <1>2
<1>4. QED
  BY <1>2, <1>3

-----------------------------------------------------------------------------
(* The backoff. That Earned is what its definition says has to be shown:     *)
(* some function doubles so, because every number of doublings has one and   *)
(* any two agree as far as both go.                                          *)

\* g doubles the minimum up to n times.
Doubles(g, n) ==
    /\ g[0] = BackoffMin
    /\ \A i \in 0..n : g[i] \in Nat \ {0}
    /\ \A i \in 1..n : g[i] = 2 * g[i - 1]

LEMMA DoublesExists ==
    ASSUME NEW n \in Nat
    PROVE  \E g \in [Nat -> Nat] : Doubles(g, n)
<1> DEFINE S == {m \in Nat : \E g \in [Nat -> Nat] : Doubles(g, m)}
<1>1. 0 \in S
  <2>1. Doubles([i \in Nat |-> BackoffMin], 0)
    BY SessionAssumption DEF Doubles
  <2>2. [i \in Nat |-> BackoffMin] \in [Nat -> Nat]
    BY SessionAssumption
  <2>3. QED
    BY <2>1, <2>2
<1>2. ASSUME NEW m \in Nat, m \in S PROVE m + 1 \in S
  <2>1. PICK g \in [Nat -> Nat] : Doubles(g, m)
    BY <1>2
  <2> DEFINE h == [g EXCEPT ![m + 1] = 2 * g[m]]
  <2>2. h \in [Nat -> Nat]
    OBVIOUS
  <2>3. /\ h[m + 1] = 2 * g[m]
        /\ \A i \in 0..m : h[i] = g[i]
    OBVIOUS
  <2> HIDE DEF h
  <2>4. Doubles(h, m + 1)
    <3>1. h[0] = BackoffMin
      BY <2>1, <2>3 DEF Doubles
    <3>2. ASSUME NEW i \in 0..(m + 1) PROVE h[i] \in Nat \ {0}
      BY <2>1, <2>3 DEF Doubles
    <3>3. ASSUME NEW i \in 1..(m + 1) PROVE h[i] = 2 * h[i - 1]
      BY <2>1, <2>3 DEF Doubles
    <3>4. QED
      BY <3>1, <3>2, <3>3 DEF Doubles
  <2>5. QED
    BY <2>2, <2>4
<1> HIDE DEF S
<1>3. n \in S
  BY <1>1, <1>2, AllNats
<1>4. QED
  BY <1>3 DEF S

LEMMA DoublesUnique ==
    ASSUME NEW n \in Nat, NEW g, NEW h, Doubles(g, n), Doubles(h, n)
    PROVE  \A i \in 0..n : g[i] = h[i]
<1> DEFINE S == {i \in Nat : i <= n => g[i] = h[i]}
<1>1. 0 \in S
  BY DEF Doubles
<1>2. ASSUME NEW m \in Nat, m \in S PROVE m + 1 \in S
  BY <1>2 DEF Doubles
<1> HIDE DEF S
<1>3. Nat \subseteq S
  BY <1>1, <1>2, AllNats
<1>4. QED
  BY <1>3 DEF S

\* Earned is what its definition says, and never 0.
LEMMA EarnedDoubles ==
    /\ Earned[0] = BackoffMin
    /\ \A n \in Nat : Earned[n] \in Nat \ {0} /\ Earned[n + 1] = 2 * Earned[n]
<1> DEFINE G(n) == CHOOSE g \in [Nat -> Nat] : Doubles(g, n)
           f == [n \in Nat |-> G(n)[n]]
<1>1. ASSUME NEW n \in Nat PROVE Doubles(G(n), n)
  BY DoublesExists
<1> HIDE DEF G
<1>2. f[0] = BackoffMin
  BY <1>1 DEF Doubles
<1>3. ASSUME NEW n \in Nat PROVE f[n] \in Nat \ {0} /\ f[n + 1] = 2 * f[n]
  <2>1. Doubles(G(n), n) /\ Doubles(G(n + 1), n + 1)
    BY <1>1
  <2>2. Doubles(G(n + 1), n)
    BY <2>1 DEF Doubles
  <2>3. G(n + 1)[n] = G(n)[n]
    BY <2>1, <2>2, DoublesUnique
  <2>4. /\ G(n + 1)[n + 1] = 2 * G(n + 1)[n]
        /\ G(n)[n] \in Nat \ {0}
    BY <2>1 DEF Doubles
  <2>5. QED
    BY <2>3, <2>4
<1>4. f = [n \in Nat |-> IF n = 0 THEN BackoffMin ELSE 2 * f[n - 1]]
  <2>1. ASSUME NEW n \in Nat PROVE f[n] = IF n = 0 THEN BackoffMin ELSE 2 * f[n - 1]
    <3>1. CASE n = 0
      BY <3>1, <1>2
    <3>2. CASE n # 0
      <4>1. n - 1 \in Nat /\ (n - 1) + 1 = n
        BY <3>2
      <4>2. f[(n - 1) + 1] = 2 * f[n - 1]
        BY <1>3, <4>1
      <4>3. QED
        BY <4>1, <4>2, <3>2
    <3>3. QED
      BY <3>1, <3>2
  <2>2. QED
    BY <2>1
<1> HIDE DEF f
<1>5. Earned = [n \in Nat |-> IF n = 0 THEN BackoffMin ELSE 2 * Earned[n - 1]]
  BY <1>4 DEF Earned
<1> DEFINE P(n) == Earned[n] = IF n = 0 THEN BackoffMin ELSE 2 * Earned[n - 1]
<1>6. ASSUME NEW n \in Nat PROVE P(n)
  BY <1>5
<1>7. Earned[0] = BackoffMin
  BY <1>6
<1>8. ASSUME NEW n \in Nat PROVE Earned[n + 1] = 2 * Earned[n]
  <2>1. P(n + 1)
    BY <1>6
  <2>2. QED
    BY <2>1
<1> DEFINE S == {n \in Nat : Earned[n] \in Nat \ {0}}
<1>9. 0 \in S
  BY <1>7, SessionAssumption
<1>10. ASSUME NEW n \in Nat, n \in S PROVE n + 1 \in S
  BY <1>8, <1>10
<1> HIDE DEF S
<1>11. Nat \subseteq S
  BY <1>9, <1>10, AllNats
<1>12. QED
  BY <1>7, <1>8, <1>11 DEF S

-----------------------------------------------------------------------------
LEMMA InitEarned == Init => BackoffIsEarned
BY EarnedDoubles DEF Init, BackoffIsEarned

\* Doubling a capped value and capping it again is one more doubling.
LEMMA WakeEarned == ASSUME TypeOK, BackoffIsEarned, WakeUp PROVE BackoffIsEarned'
<1>1. backoff' = Doubled(backoff) /\ streak' = streak + 1
  BY DEF WakeUp
<1>2. /\ streak \in Nat /\ backoff \in BackoffMin..BackoffMax
      /\ Earned[streak] \in Nat \ {0} /\ Earned[streak + 1] = 2 * Earned[streak]
  BY EarnedDoubles DEF TypeOK
<1>3. CASE backoff = Earned[streak]
  BY <1>1, <1>2, <1>3, SessionAssumption DEF BackoffIsEarned, Doubled
<1>4. CASE backoff = BackoffMax /\ Earned[streak] > BackoffMax
  BY <1>1, <1>2, <1>4, SessionAssumption DEF BackoffIsEarned, Doubled
<1>5. QED
  BY <1>3, <1>4 DEF BackoffIsEarned

LEMMA ClearEarned == ASSUME BackoffIsEarned, ClearStore PROVE BackoffIsEarned'
<1>1. PICK lasted \in BOOLEAN :
        /\ backoff' = Forgiven(pc = "ended", lasted, backoff)
        /\ streak' = IF pc = "ended" /\ lasted THEN 0 ELSE streak
  BY DEF ClearStore
<1>2. CASE pc = "ended" /\ lasted
  BY <1>1, <1>2, EarnedDoubles DEF BackoffIsEarned, Forgiven
<1>3. CASE ~(pc = "ended" /\ lasted)
  BY <1>1, <1>3 DEF BackoffIsEarned, Forgiven
<1>4. QED
  BY <1>2, <1>3

LEMMA NextEarned == TypeOK /\ BackoffIsEarned /\ [Next]_vars => BackoffIsEarned'
<1> SUFFICES ASSUME TypeOK, BackoffIsEarned, [Next]_vars PROVE BackoffIsEarned'
  OBVIOUS
<1>1. CASE UNCHANGED patience
  BY <1>1 DEF patience, BackoffIsEarned
<1>2. CASE Mirror \/ ShutDown \/ UNCHANGED vars
  BY <1>1, <1>2 DEF Mirror, Commit, Serve, Cut, ShutDown, vars, patience
<1>3. CASE Shard
  <2>1. CASE ClearStore \/ WakeUp
    BY <2>1, WakeEarned, ClearEarned
  <2>2. CASE RecvBase \/ RecvHexite \/ RecvEarlyUpdate \/ RecvUpdate \/ RecvTornUpdate
    BY <1>1, <2>2 DEF RecvBase, RecvHexite, RecvEarlyUpdate, RecvUpdate, RecvTornUpdate, Receive
  <2>3. CASE Dial \/ Connect \/ FailConnect \/ EndSession \/ IntegrityReconnect \/ Stop
    BY <1>1, <2>3 DEF Dial, Connect, FailConnect, EndSession, IntegrityReconnect, Stop
  <2>4. QED
    BY <1>3, <2>1, <2>2, <2>3 DEF Shard
<1>4. QED
  BY <1>2, <1>3 DEF Next

\* However sessions begin and end, the next sleep is the minimum doubled once per
\* sleep since the last forgiveness, capped (run_shard_loop).
THEOREM BackoffHolds == Spec => []BackoffIsEarned
<1>1. Init => BackoffIsEarned
  BY InitEarned
<1>2. TypeOK /\ BackoffIsEarned /\ [Next]_vars => BackoffIsEarned'
  BY NextEarned
<1>3. QED
  BY <1>1, <1>2, TypeCorrect, PTL DEF Spec

=============================================================================
