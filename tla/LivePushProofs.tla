--------------------------- MODULE LivePushProofs ---------------------------
(***************************************************************************)
(* Type correctness of LivePush, its central invariant (a subscribed key   *)
(* that is out of date has a wake-up on its way) and the refinement of     *)
(* DimFeed, for any number of regions, keys, connections and entities.     *)
(***************************************************************************)
EXTENDS LivePush, TLAPS

-----------------------------------------------------------------------------
(* The row operations stay within Stores, and a dimension none of the       *)
(* touches names keeps its id set.                                          *)

LEMMA EmptyStoreType == EmptyStore \in Stores
  BY DEF EmptyStore, Stores

LEMMA RowTypes ==
    ASSUME NEW s \in Stores, NEW e \in Entities, NEW t \in Descs, NEW d \in Dims
    PROVE  /\ DeleteBuilding(s, e) \in Stores
           /\ UpsertBuilding(s, e, t) \in Stores
           /\ DeleteLocation(s, e) \in Stores
           /\ UpsertLocation(s, e, d) \in Stores
           /\ DeleteDesc(s, t) \in Stores
           /\ \A b \in BOOLEAN : UpsertDesc(s, t, b) \in Stores
  BY DEF Stores, DeleteBuilding, UpsertBuilding, DeleteLocation, UpsertLocation,
         DeleteDesc, UpsertDesc

\* A building row only concerns the dimension the building is in.
LEMMA BuildingTouchCovers ==
    ASSUME NEW s \in Stores, NEW e \in Entities, NEW t \in Descs \cup {Absent},
           NEW d \in Dims \cup {Overworld},
           NEW s1, s1 = [s EXCEPT !.bld[e] = t],
           d \notin {s.loc[e]} \ {Overworld}
    PROVE  HousingBuildingIds(s1, d) = HousingBuildingIds(s, d)
<1>1. s1.loc = s.loc /\ s1.incl = s.incl
  BY DEF Stores
<1>2. \A x \in Entities : x # e => s1.bld[x] = s.bld[x]
  BY DEF Stores
<1>3. QED
  BY <1>1, <1>2 DEF HousingBuildingIds, EntitiesIn

\* A location row concerns the dimension left and the dimension entered.
LEMMA LocationTouchCovers ==
    ASSUME NEW s \in Stores, NEW e \in Entities, NEW to \in Dims \cup {Overworld},
           NEW d \in Dims \cup {Overworld},
           NEW s1, s1 = [s EXCEPT !.loc[e] = to],
           d \notin {s.loc[e], to} \ {Overworld}
    PROVE  HousingBuildingIds(s1, d) = HousingBuildingIds(s, d)
<1>1. s1.bld = s.bld /\ s1.incl = s.incl
  BY DEF Stores
<1>2. \A x \in Entities : x # e => s1.loc[x] = s.loc[x]
  BY DEF Stores
<1>3. s1.loc[e] = to
  BY DEF Stores
<1>4. QED
  BY <1>1, <1>2, <1>3 DEF HousingBuildingIds, EntitiesIn

\* What a row step does, in the form the invariants need.
Covered(r, s, dims) ==
    /\ s \in Stores
    /\ \A d \in Dims \cup {Overworld} :
          d \notin dims => HousingBuildingIds(s, d) = HousingBuildingIds(store[r], d)

LEMMA RowStepCovers ==
    ASSUME TypeOK, NEW r \in Regions, RowStep(r)
    PROVE  \E s, dims : Covered(r, s, dims) /\ ApplyRow(r, s, dims)
<1> DEFINE st == store[r]
<1>0. st \in Stores
  BY DEF TypeOK
<1>1. PICK e \in Entities :
          \/ DeleteBuildingRow(r, e)
          \/ \E t \in Descs : InsertBuildingRow(r, e, t)
          \/ DeleteLocationRow(r, e)
          \/ \E d \in Dims : InsertLocationRow(r, e, d)
  BY DEF RowStep
<1>2. CASE DeleteBuildingRow(r, e)
  <2>1. Covered(r, DeleteBuilding(st, e), TouchBuilding(st, e))
    <3>1. DeleteBuilding(st, e) \in Stores
      BY <1>0 DEF Stores, DeleteBuilding
    <3>2. QED
      BY <1>0, <3>1, BuildingTouchCovers DEF Covered, DeleteBuilding, TouchBuilding
  <2>2. QED
    BY <1>2, <2>1 DEF DeleteBuildingRow
<1>3. CASE \E t \in Descs : InsertBuildingRow(r, e, t)
  <2>1. PICK t \in Descs : InsertBuildingRow(r, e, t)
    BY <1>3
  <2> DEFINE s == UpsertBuilding(st, e, t)
  <2>2. s \in Stores /\ s.loc[e] = st.loc[e]
    BY <1>0 DEF Stores, UpsertBuilding
  <2>3. Covered(r, s, TouchBuilding(s, e))
    BY <1>0, <2>2, BuildingTouchCovers DEF Covered, UpsertBuilding, TouchBuilding
  <2>4. QED
    BY <2>1, <2>3 DEF InsertBuildingRow
<1>4. CASE DeleteLocationRow(r, e)
  <2>1. Covered(r, DeleteLocation(st, e), TouchLocation(st.loc[e]))
    <3>1. DeleteLocation(st, e) \in Stores
      BY <1>0 DEF Stores, DeleteLocation
    <3>2. QED
      BY <1>0, <3>1, LocationTouchCovers DEF Covered, DeleteLocation, TouchLocation
  <2>2. QED
    BY <1>4, <2>1 DEF DeleteLocationRow
<1>5. CASE \E d \in Dims : InsertLocationRow(r, e, d)
  <2>1. PICK d \in Dims : InsertLocationRow(r, e, d)
    BY <1>5
  <2>2. st.loc[e] = Overworld
    BY <2>1 DEF InsertLocationRow
  <2>3. Covered(r, UpsertLocation(st, e, d), TouchLocation(d))
    <3>1. UpsertLocation(st, e, d) \in Stores
      BY <1>0 DEF Stores, UpsertLocation
    <3>2. QED
      BY <1>0, <2>2, <3>1, LocationTouchCovers DEF Covered, UpsertLocation, TouchLocation
  <2>4. QED
    BY <2>1, <2>3 DEF InsertLocationRow
<1>6. QED
  BY <1>1, <1>2, <1>3, <1>4, <1>5

LEMMA DescStepType ==
    ASSUME TypeOK, NEW r \in Regions, DescStep(r)
    PROVE  \E s \in Stores : ChangeDescRow(r, s)
<1>1. store[r] \in Stores
  BY DEF TypeOK
<1>2. PICK t \in Descs :
          \/ ChangeDescRow(r, DeleteDesc(store[r], t))
          \/ \E b \in BOOLEAN : ChangeDescRow(r, UpsertDesc(store[r], t, b))
  BY DEF DescStep
<1>3. DeleteDesc(store[r], t) \in Stores
  BY <1>1 DEF Stores, DeleteDesc
<1>4. \A b \in BOOLEAN : UpsertDesc(store[r], t, b) \in Stores
  BY <1>1 DEF Stores, UpsertDesc
<1>5. QED
  BY <1>2, <1>3, <1>4

-----------------------------------------------------------------------------
(* The client's copy is the baseline.                                       *)

LEMMA ScanType ==
    ASSUME NEW k \in Keys PROVE Scan(k) \in SUBSET Entities
  BY DEF Scan, ScanOf, HousingBuildingIds, EntitiesIn

LEMMA ShardStepKeepsConns ==
    ASSUME NEW r \in Regions, ShardStep(r)
    PROVE  UNCHANGED connVars
  BY DEF ShardStep, LoadStore, ClearStore, CheckSubscribers, TakeLock, RowStep,
         DeleteBuildingRow, InsertBuildingRow, DeleteLocationRow, InsertLocationRow,
         ApplyRow, DescStep, ChangeDescRow, FailApply, ReleaseLock, Notify, EndFlush

LEMMA ViewStep ==
    ASSUME TypeOK, ViewIsBaseline, [Next]_vars
    PROVE  ViewIsBaseline'
<1>1. ASSUME NEW r \in Regions, ShardStep(r) PROVE ViewIsBaseline'
  BY <1>1, ShardStepKeepsConns DEF connVars, ViewIsBaseline
<1>2. ASSUME NEW c \in Conns, ClientStep(c) PROVE ViewIsBaseline'
  BY <1>2 DEF ClientStep, Connect, FirstFrame, Resubscribe, Unsubscribe, Subscribe,
         RefuseFirstFrame, Close, Leave, BaselineAfterReplace, ViewIsBaseline
<1>3. ASSUME NEW c \in Conns, NEW k \in Keys, PushDelta(c, k) PROVE ViewIsBaseline'
  <2>1. (lastSent[c][k] \ (lastSent[c][k] \ Scan(k))) \cup (Scan(k) \ lastSent[c][k]) = Scan(k)
    OBVIOUS
  <2>2. view[c][k] = lastSent[c][k]
    BY DEF ViewIsBaseline
  <2>3. view' = [view EXCEPT ![c][k] = Scan(k)]
    BY <1>3, <2>1, <2>2 DEF PushDelta, TypeOK
  <2>4. QED
    BY <1>3, <2>3 DEF PushDelta, ViewIsBaseline
<1>4. ASSUME NEW c \in Conns, PushStep(c), \A k \in Keys : ~PushDelta(c, k)
      PROVE  ViewIsBaseline'
  BY <1>4 DEF PushStep, Snapshot, SeeChange, Drain, ViewIsBaseline
<1>5. CASE UNCHANGED vars
  BY <1>5 DEF vars, ViewIsBaseline
<1>6. QED
  BY <1>1, <1>2, <1>3, <1>4, <1>5 DEF Next

-----------------------------------------------------------------------------
(* Types.                                                                   *)

\* What a shard's own steps change.
ShardTypes ==
    /\ store \in [Regions -> Stores]
    /\ phase \in [Regions -> Phases]
    /\ collect \in [Regions -> BOOLEAN]
    /\ touches \in [Regions -> SUBSET Keys]
    /\ before \in [Regions -> Stores]
    /\ rows \in [Regions -> Nat]

\* What a connection's own steps change, but for its view.
ConnTypes ==
    /\ pc \in [Conns -> Places]
    /\ keys \in [Conns -> SUBSET Keys]
    /\ todo \in [Conns -> SUBSET Keys]
    /\ lastSent \in [Conns -> [Keys -> Baseline]]

SharedTypes ==
    /\ changed \in [Conns -> [Keys -> BOOLEAN]]
    /\ lost \in [Conns -> [Keys -> SUBSET Causes]]
    /\ left \in [Budgets -> Nat]

LEMMA SplitTypes == TypeOK => ShardTypes /\ ConnTypes /\ SharedTypes
  BY DEF TypeOK, ShardTypes, ConnTypes, SharedTypes

LEMMA JoinTypes ==
    ASSUME ShardTypes', ConnTypes', SharedTypes', ViewIsBaseline'
    PROVE  TypeOK'
  BY DEF TypeOK, ShardTypes, ConnTypes, SharedTypes, ViewIsBaseline

LEMMA InitType == Init => TypeOK /\ ViewIsBaseline
<1> SUFFICES ASSUME Init PROVE TypeOK /\ ViewIsBaseline
  OBVIOUS
<1>1. left \in [Budgets -> Nat]
  BY PushAssumption DEF Init, Budgets, PushAssumption
<1>2. /\ store \in [Regions -> Stores]
      /\ before \in [Regions -> Stores]
      /\ phase \in [Regions -> Phases]
      /\ collect \in [Regions -> BOOLEAN]
      /\ touches \in [Regions -> SUBSET Keys]
      /\ rows \in [Regions -> Nat]
  BY EmptyStoreType DEF Init, Phases
<1>3. /\ pc \in [Conns -> Places]
      /\ keys \in [Conns -> SUBSET Keys]
      /\ changed \in [Conns -> [Keys -> BOOLEAN]]
      /\ todo \in [Conns -> SUBSET Keys]
        /\ lost \in [Conns -> [Keys -> SUBSET Causes]]
  BY DEF Init, Places, NoCause
<1>4. /\ lastSent \in [Conns -> [Keys -> Baseline]]
      /\ view = lastSent
  BY DEF Init, Baseline, Nothing
<1>5. QED
  BY <1>1, <1>2, <1>3, <1>4 DEF TypeOK, ViewIsBaseline

LEMMA BlameType ==
    ASSUME TypeOK, NEW K, NEW y \in Causes
    PROVE  Blame(K, y) \in [Conns -> [Keys -> SUBSET Causes]]
  BY DEF TypeOK, Blame

LEMMA SpendType ==
    ASSUME TypeOK, NEW f \in Budgets, Spend(f)
    PROVE  left' \in [Budgets -> Nat]
  BY DEF TypeOK, Spend

LEMMA ShardStepType ==
    ASSUME TypeOK, NEW r \in Regions, ShardStep(r)
    PROVE  ShardTypes' /\ ConnTypes' /\ SharedTypes'
<1>0. /\ "loads" \in Budgets /\ "tx" \in Budgets
      /\ "reset" \in Causes /\ "unwatched" \in Causes /\ "catalog" \in Causes
  BY DEF Budgets, Causes
<1> ConnTypes'
  BY ShardStepKeepsConns DEF connVars, ConnTypes, TypeOK
<1> USE DEF ShardTypes, SharedTypes
<1>1. CASE LoadStore(r)
  <2>1. ShardTypes'
    BY <1>1 DEF LoadStore, TypeOK, Phases
  <2>2. SharedTypes'
    BY <1>0, <1>1, BlameType, SpendType DEF LoadStore, TypeOK
  <2>3. QED
    BY <2>1, <2>2
<1>2. CASE ClearStore(r)
  <2>1. ShardTypes'
    BY <1>2, EmptyStoreType DEF ClearStore, TypeOK, Phases
  <2>2. SharedTypes'
    BY <1>0, <1>2, BlameType DEF ClearStore, TypeOK
  <2>3. QED
    BY <2>1, <2>2
<1>3. CASE CheckSubscribers(r)
  <2>1. HasSubscribers \in BOOLEAN
    BY DEF HasSubscribers
  <2>2. ShardTypes'
    BY <1>3, <2>1 DEF CheckSubscribers, TypeOK, Phases
  <2>3. SharedTypes'
    BY <1>0, <1>3, SpendType DEF CheckSubscribers, TypeOK
  <2>4. QED
    BY <2>2, <2>3
<1>4. CASE TakeLock(r)
  BY <1>4 DEF TakeLock, TypeOK, Phases
<1>5. CASE RowStep(r)
  <2>1. PICK s, dims : Covered(r, s, dims) /\ ApplyRow(r, s, dims)
    BY <1>5, RowStepCovers
  <2>2. touches' \in [Regions -> SUBSET Keys]
    BY <2>1 DEF ApplyRow, TypeOK, KeysIn
  <2>3. ShardTypes'
    BY <2>1, <2>2 DEF ApplyRow, Covered, TypeOK
  <2>4. SharedTypes'
    BY <1>0, <2>1, BlameType DEF ApplyRow, TypeOK
  <2>5. QED
    BY <2>3, <2>4
<1>6. CASE DescStep(r)
  <2>1. PICK s \in Stores : ChangeDescRow(r, s)
    BY <1>6, DescStepType
  <2>2. ShardTypes'
    BY <2>1 DEF ChangeDescRow, TypeOK
  <2>3. SharedTypes'
    BY <1>0, <2>1, BlameType DEF ChangeDescRow, TypeOK
  <2>4. QED
    BY <2>2, <2>3
<1>7. CASE FailApply(r)
  <2>1. ShardTypes'
    BY <1>7 DEF FailApply, TypeOK, Phases
  <2>2. SharedTypes'
    BY <1>0, <1>7, BlameType DEF FailApply, TypeOK
  <2>3. QED
    BY <2>1, <2>2
<1>8. CASE ReleaseLock(r)
  BY <1>8 DEF ReleaseLock, TypeOK, Phases
<1>9. CASE \E k \in Keys : Notify(r, k)
  <2>1. PICK k \in Keys : Notify(r, k)
    BY <1>9
  <2>2. ShardTypes'
    BY <2>1 DEF Notify, TypeOK
  <2>3. changed' \in [Conns -> [Keys -> BOOLEAN]]
    <3>1. \A c \in Conns : (changed[c][k] \/ k \in keys[c]) \in BOOLEAN
      OBVIOUS
    <3>2. QED
      BY <2>1, <3>1 DEF Notify, TypeOK
  <2>4. QED
    BY <2>1, <2>2, <2>3 DEF Notify, TypeOK
<1>10. CASE EndFlush(r)
  BY <1>10 DEF EndFlush, TypeOK, Phases
<1>11. QED
  BY <1>1, <1>2, <1>3, <1>4, <1>5, <1>6, <1>7, <1>8, <1>9, <1>10 DEF ShardStep

LEMMA ConnStepKeepsShards ==
    ASSUME NEW c \in Conns, ClientStep(c) \/ PushStep(c)
    PROVE  UNCHANGED shardVars
  BY DEF ClientStep, PushStep, Connect, FirstFrame, Resubscribe, Unsubscribe,
         RefuseFirstFrame, Close, Snapshot, SeeChange, Drain, PushDelta

LEMMA ConnStepType ==
    ASSUME TypeOK, NEW c \in Conns, ClientStep(c) \/ PushStep(c)
    PROVE  ShardTypes' /\ ConnTypes' /\ SharedTypes'
<1>0. "frames" \in Budgets /\ "rebind" \in Causes
  BY DEF Budgets, Causes
<1> ShardTypes'
  BY ConnStepKeepsShards DEF shardVars, ShardTypes, TypeOK
<1> DEFINE Goal == ConnTypes' /\ SharedTypes'
<1>1. CASE Connect(c)
  BY <1>0, <1>1, SpendType DEF Connect, TypeOK, ConnTypes, SharedTypes, Places
<1>2. ASSUME NEW K \in SUBSET Keys, Subscribe(c, K), left' \in [Budgets -> Nat]
      PROVE  Goal
  BY <1>2 DEF Subscribe, Burst, BaselineAfterReplace, TypeOK, ConnTypes, SharedTypes,
              Places, Nothing, NoCause, Baseline
<1>3. ASSUME NEW K \in SUBSET Keys, FirstFrame(c, K)
      PROVE  Goal
  BY <1>2, <1>3 DEF FirstFrame, TypeOK
<1>4. ASSUME NEW K \in SUBSET Keys, Resubscribe(c, K)
      PROVE  Goal
  BY <1>0, <1>2, <1>4, SpendType DEF Resubscribe
<1>5. ASSUME NEW K \in SUBSET Keys, Unsubscribe(c, K)
      PROVE  Goal
  <2>1. ConnTypes'
    BY <1>5 DEF Unsubscribe, TypeOK, ConnTypes, Baseline
  <2>2. lost' \in [Conns -> [Keys -> SUBSET Causes]]
    BY <1>0, <1>5 DEF Unsubscribe, TypeOK
  <2>3. QED
    BY <1>0, <1>5, <2>1, <2>2, SpendType DEF Unsubscribe, TypeOK, SharedTypes
<1>6. ASSUME Leave(c), left' = left
      PROVE  Goal
  BY <1>6 DEF Leave, TypeOK, ConnTypes, SharedTypes, Places, Nothing, NoCause, Baseline
<1>7. CASE RefuseFirstFrame(c)
  BY <1>6, <1>7 DEF RefuseFirstFrame
<1>9. CASE Close(c)
  BY <1>6, <1>9 DEF Close
<1>10. ASSUME NEW k \in Keys, Snapshot(c, k)
       PROVE  Goal
  BY <1>10, ScanType DEF Snapshot, TypeOK, ConnTypes, SharedTypes, Places, Baseline
<1>11. ASSUME NEW k \in Keys, SeeChange(c, k)
       PROVE  Goal
  BY <1>11 DEF SeeChange, TypeOK, ConnTypes, SharedTypes, Places
<1>12. ASSUME NEW k \in Keys, PushDelta(c, k)
       PROVE  Goal
  BY <1>12, ScanType DEF PushDelta, TypeOK, ConnTypes, SharedTypes, Places, Baseline
<1>13. CASE Drain(c)
  BY <1>13 DEF Drain, Drained, TypeOK, ConnTypes, SharedTypes, Places
<1>14. QED
  BY <1>1, <1>3, <1>4, <1>5, <1>7, <1>9, <1>10, <1>11, <1>12, <1>13
     DEF ClientStep, PushStep

LEMMA TypeStep ==
    ASSUME TypeOK, ViewIsBaseline, [Next]_vars
    PROVE  TypeOK' /\ ViewIsBaseline'
<1>1. ViewIsBaseline'
  BY ViewStep
<1>2. CASE UNCHANGED vars
  BY <1>1, <1>2 DEF TypeOK, vars
<1>3. CASE Next
  <2>1. ShardTypes' /\ ConnTypes' /\ SharedTypes'
    BY <1>3, ShardStepType, ConnStepType DEF Next
  <2>2. QED
    BY <1>1, <2>1, JoinTypes
<1>4. QED
  BY <1>2, <1>3

\* Every variable of the push path keeps its type (all of LivePush).
THEOREM TypeCorrect == Spec => []TypeOK
<1>1. TypeOK /\ ViewIsBaseline /\ [Next]_vars => (TypeOK /\ ViewIsBaseline)'
  BY TypeStep
<1>2. QED
  BY <1>1, InitType, PTL DEF Spec

\* What a client assembled from snapshots and deltas is exactly the baseline
\* the server computes its next delta against (stream.rs, last_sent).
THEOREM ViewsMatch == Spec => []ViewIsBaseline
<1>1. TypeOK /\ ViewIsBaseline /\ [Next]_vars => (TypeOK /\ ViewIsBaseline)'
  BY TypeStep
<1>2. QED
  BY <1>1, InitType, PTL DEF Spec

-----------------------------------------------------------------------------
(* The shape of a connection: who is past its snapshots has sent them all.  *)

ConnShape ==
    \A c \in Conns :
        /\ pc[c] \in {"closed", "waiting"} => keys[c] = {}
        /\ pc[c] = "loop" => todo[c] = {}
        /\ todo[c] \subseteq keys[c]
        /\ \A k \in keys[c] :
              lastSent[c][k] = NotSent => pc[c] = "snapshot" /\ k \in todo[c]

LEMMA ScanIsSent ==
    ASSUME NEW k \in Keys PROVE Scan(k) # NotSent
  BY ScanType, PushAssumption DEF NotSent, PushAssumption

\* A connection's step leaves the other connections alone.
LEMMA OtherConns ==
    ASSUME TypeOK, NEW c \in Conns, ClientStep(c) \/ PushStep(c),
           NEW x \in Conns, x # c
    PROVE  /\ pc'[x] = pc[x] /\ keys'[x] = keys[x] /\ todo'[x] = todo[x]
           /\ changed'[x] = changed[x] /\ lastSent'[x] = lastSent[x]
           /\ lost'[x] = lost[x]
<1>1. CASE ClientStep(c)
  BY <1>1 DEF ClientStep, Connect, FirstFrame, Resubscribe, Unsubscribe, Subscribe,
         RefuseFirstFrame, Close, Leave, TypeOK
<1>2. CASE PushStep(c)
  BY <1>2 DEF PushStep, Snapshot, SeeChange, Drain, PushDelta, TypeOK
<1>3. QED
  BY <1>1, <1>2

LEMMA ShapeStep ==
    ASSUME TypeOK, ConnShape, [Next]_vars
    PROVE  ConnShape'
<1>1. ASSUME NEW r \in Regions, ShardStep(r) PROVE ConnShape'
  BY <1>1, ShardStepKeepsConns DEF connVars, ConnShape
<1>2. ASSUME NEW c \in Conns, ClientStep(c) \/ PushStep(c) PROVE ConnShape'
  <2> DEFINE Own == /\ pc'[c] \in {"closed", "waiting"} => keys'[c] = {}
                    /\ pc'[c] = "loop" => todo'[c] = {}
                    /\ todo'[c] \subseteq keys'[c]
                    /\ \A k \in keys'[c] :
                          lastSent'[c][k] = NotSent
                              => pc'[c] = "snapshot" /\ k \in todo'[c]
  <2>1. SUFFICES Own
    BY <1>2, OtherConns DEF ConnShape
  <2>2. CASE Connect(c)
    BY <2>2 DEF Connect, TypeOK, ConnShape
  <2>3. ASSUME NEW K \in SUBSET Keys, Subscribe(c, K) PROVE Own
    BY <2>3 DEF Subscribe, Burst, TypeOK
  <2>4. CASE \E K \in SUBSET Keys : FirstFrame(c, K) \/ Resubscribe(c, K)
    BY <2>3, <2>4 DEF FirstFrame, Resubscribe
  <2>5. ASSUME NEW K \in SUBSET Keys, Unsubscribe(c, K) PROVE Own
    BY <2>5 DEF Unsubscribe, TypeOK, ConnShape
  <2>6. CASE RefuseFirstFrame(c) \/ Close(c)
    BY <2>6 DEF RefuseFirstFrame, Close, Leave, TypeOK
  <2>8. ASSUME NEW k \in Keys, Snapshot(c, k) PROVE Own
    BY <2>8, ScanIsSent DEF Snapshot, TypeOK, ConnShape
  <2>9. ASSUME NEW k \in Keys, PushDelta(c, k) PROVE Own
    BY <2>9, ScanIsSent DEF PushDelta, TypeOK, ConnShape
  <2>10. ASSUME NEW k \in Keys, SeeChange(c, k) PROVE Own
    BY <2>10 DEF SeeChange, TypeOK, ConnShape
  <2>11. CASE Drain(c)
    BY <2>11 DEF Drain, Drained, TypeOK, ConnShape
  <2>12. QED
    BY <1>2, <2>2, <2>4, <2>5, <2>6, <2>8, <2>9, <2>10, <2>11
       DEF ClientStep, PushStep
<1>3. CASE UNCHANGED vars
  BY <1>3 DEF vars, ConnShape
<1>4. QED
  BY <1>1, <1>2, <1>3 DEF Next

LEMMA InitShape == Init => ConnShape
  BY DEF Init, ConnShape

\* No subscribed key is diffed against nothing: once the burst of snapshots is
\* over every key has a baseline (push_snapshots, push_delta).
THEOREM SnapshotsFirst == Spec => []SentBeforeDelta
<1>1. TypeOK /\ ViewIsBaseline /\ ConnShape /\ [Next]_vars
         => (TypeOK /\ ViewIsBaseline /\ ConnShape)'
  BY TypeStep, ShapeStep
<1>2. ConnShape => SentBeforeDelta
  BY DEF ConnShape, SentBeforeDelta
<1>3. QED
  BY <1>1, <1>2, InitType, InitShape, PTL DEF Spec

-----------------------------------------------------------------------------
(* The central invariant: a key stale for no known cause has a wake-up on   *)
(* its way.                                                                 *)

Fine(c, k) == lost[c][k] = {} => Fresh(c, k) \/ OnItsWay(c, k)

LEMMA StaleOnlyIfLostDef == StaleOnlyIfLost <=> \A c \in Conns : \A k \in keys[c] : Fine(c, k)
  BY DEF StaleOnlyIfLost, FreshUpTo, Fine

\* A cause that is added to a subscribed key excuses it.
LEMMA BlameExcuses ==
    ASSUME TypeOK, NEW K, NEW y \in Causes, NEW c \in Conns, NEW k \in keys[c],
           lost' = Blame(K, y)
    PROVE  /\ k \in K => lost'[c][k] # {}
           /\ k \notin K => lost'[c][k] = lost[c][k]
  BY DEF TypeOK, Blame

\* A step that keeps the id set and the wake-ups of a key.
LEMMA KeepsFine ==
    ASSUME NEW c \in Conns, NEW k \in Keys, Fine(c, k),
           lost'[c][k] = lost[c][k], lastSent'[c][k] = lastSent[c][k],
           Scan(k)' = Scan(k),
           changed[c][k] => changed'[c][k],
           k \in todo[c] => k \in todo'[c],
           k[1] \in Regions /\ k \in touches[k[1]] => k \in touches'[k[1]] \/ changed'[c][k]
    PROVE  Fine(c, k)'
  BY DEF Fine, Fresh, OnItsWay

LEMMA RowStepFine ==
    ASSUME TypeOK, NEW r \in Regions, NEW s, NEW dims, Covered(r, s, dims),
           ApplyRow(r, s, dims), NEW c \in Conns, NEW k \in keys[c], Fine(c, k)
    PROVE  Fine(c, k)'
<1>0. k \in Keys /\ "unwatched" \in Causes
  BY DEF TypeOK, Causes
<1>1. k \in KeysIn(r, dims) => Watched(k)
  BY DEF Watched
<1>2. lastSent' = lastSent /\ todo' = todo /\ changed' = changed /\ keys' = keys
  BY DEF ApplyRow, connVars
<1>3. \A q \in Regions : touches[q] \subseteq touches'[q]
  BY DEF ApplyRow, TypeOK
<1>4. CASE k \in KeysIn(r, dims) /\ collect[r]
  <2>1. k \in touches'[r]
    BY <1>0, <1>1, <1>4 DEF ApplyRow, TypeOK
  <2>2. k[1] = r
    BY <1>4 DEF KeysIn
  <2>3. QED
    BY <2>1, <2>2 DEF Fine, OnItsWay
<1>5. CASE k \in KeysIn(r, dims) /\ ~collect[r]
  BY <1>0, <1>5, BlameExcuses DEF ApplyRow, Fine
<1>6. CASE k \notin KeysIn(r, dims)
  <2>1. Scan(k)' = Scan(k)
    <3>1. k[2] \in Dims \cup {Overworld}
      BY <1>0, PushAssumption DEF PushAssumption
    <3>2. k[1] # r \/ k[2] \notin dims
      BY <1>0, <1>6 DEF KeysIn
    <3>3. store' = [store EXCEPT ![r] = s]
      BY DEF ApplyRow
    <3>4. CASE k[1] = r
      BY <3>1, <3>2, <3>3, <3>4 DEF Covered, Scan, ScanOf, TypeOK
    <3>5. CASE k[1] # r
      BY <3>3, <3>5 DEF Scan, ScanOf, TypeOK
    <3>6. QED
      BY <3>4, <3>5
  <2>2. lost'[c][k] = lost[c][k]
    BY <1>0, <1>6, BlameExcuses DEF ApplyRow
  <2>3. QED
    BY <1>0, <1>2, <1>3, <2>1, <2>2, KeepsFine
<1>7. QED
  BY <1>4, <1>5, <1>6

LEMMA ShardStepFine ==
    ASSUME TypeOK, NEW r \in Regions, ShardStep(r),
           NEW c \in Conns, NEW k \in keys[c], Fine(c, k)
    PROVE  Fine(c, k)'
<1>0. k \in Keys /\ "reset" \in Causes /\ "catalog" \in Causes
  BY DEF TypeOK, Causes
<1>1. lastSent' = lastSent /\ todo' = todo
  BY ShardStepKeepsConns DEF connVars
\* Steps that replace or filter a whole store excuse all keys of the region.
<1>2. ASSUME NEW y \in Causes, lost' = Blame(KeysOf(r), y), changed' = changed,
             \A q \in Regions : q # r => store'[q] = store[q] /\ touches'[q] = touches[q]
      PROVE  Fine(c, k)'
  <2>1. CASE k[1] = r
    BY <1>0, <1>2, <2>1, BlameExcuses DEF KeysOf, Fine
  <2>2. CASE k[1] # r
    <3>1. lost'[c][k] = lost[c][k]
      BY <1>2, <2>2, BlameExcuses DEF KeysOf
    <3>2. Scan(k)' = Scan(k)
      BY <1>2, <2>2 DEF Scan, ScanOf
    <3>3. QED
      BY <1>0, <1>1, <1>2, <2>2, <3>1, <3>2, KeepsFine
  <2>3. QED
    BY <2>1, <2>2
<1>3. CASE LoadStore(r)
  BY <1>0, <1>2, <1>3 DEF LoadStore, TypeOK
<1>4. CASE ClearStore(r)
  BY <1>0, <1>2, <1>4 DEF ClearStore, TypeOK
<1>5. CASE FailApply(r)
  BY <1>0, <1>2, <1>5 DEF FailApply, TypeOK
<1>6. CASE DescStep(r)
  <2>1. PICK s \in Stores : ChangeDescRow(r, s)
    BY <1>6, DescStepType
  <2>2. QED
    BY <1>0, <1>2, <2>1 DEF ChangeDescRow, TypeOK
<1>7. CASE RowStep(r)
  BY <1>7, RowStepCovers, RowStepFine
<1>8. CASE CheckSubscribers(r) \/ TakeLock(r) \/ ReleaseLock(r) \/ EndFlush(r)
  <2>1. /\ store' = store /\ touches' = touches /\ changed' = changed /\ lost' = lost
    BY <1>8 DEF CheckSubscribers, TakeLock, ReleaseLock, EndFlush
  <2>2. Scan(k)' = Scan(k)
    BY <2>1 DEF Scan, ScanOf
  <2>3. QED
    BY <1>0, <1>1, <2>1, <2>2, KeepsFine
<1>9. CASE \E q \in Keys : Notify(r, q)
  <2>1. PICK q \in Keys : Notify(r, q)
    BY <1>9
  <2>2. store' = store /\ lost' = lost
    BY <2>1 DEF Notify
  <2>3. Scan(k)' = Scan(k)
    BY <2>2 DEF Scan, ScanOf
  <2>4. changed'[c][k] = (changed[c][k] \/ k = q)
    <3>1. changed'[c] = [changed[c] EXCEPT ![q] = changed[c][q] \/ q \in keys[c]]
      BY <2>1 DEF Notify
    <3>2. changed[c] \in [Keys -> BOOLEAN]
      BY DEF TypeOK
    <3>3. CASE k = q
      BY <1>0, <3>1, <3>2, <3>3
    <3>4. CASE k # q
      BY <1>0, <3>1, <3>2, <3>4
    <3>5. QED
      BY <3>3, <3>4
  <2>5. \A p \in Regions : k \in touches[p] => k \in touches'[p] \/ k = q
    BY <2>1 DEF Notify, TypeOK
  <2>6. QED
    BY <1>0, <1>1, <2>2, <2>3, <2>4, <2>5, KeepsFine
<1>10. QED
  BY <1>3, <1>4, <1>5, <1>6, <1>7, <1>8, <1>9 DEF ShardStep

LEMMA ConnStepFine ==
    ASSUME TypeOK, ConnShape, StaleOnlyIfLost,
           NEW c \in Conns, ClientStep(c) \/ PushStep(c)
    PROVE  StaleOnlyIfLost'
<1>1. \A x \in Conns : \A k \in keys[x] : k \in Keys /\ Fine(x, k)
  BY StaleOnlyIfLostDef DEF TypeOK
<1>2. store' = store /\ touches' = touches
  BY ConnStepKeepsShards DEF shardVars
<1>3. \A k \in Keys : Scan(k)' = Scan(k)
  BY <1>2 DEF Scan, ScanOf
<1>4. ASSUME NEW x \in Conns, x # c, NEW k \in keys'[x] PROVE Fine(x, k)'
  <2>1. k \in keys[x]
    BY <1>4, OtherConns
  <2>2. QED
    BY <1>1, <1>2, <1>3, <1>4, <2>1, OtherConns, KeepsFine
<1>5. ASSUME NEW k \in keys'[c] PROVE Fine(c, k)'
  <2>1. CASE RefuseFirstFrame(c) \/ Close(c)
    BY <1>5, <2>1 DEF RefuseFirstFrame, Close, Leave, TypeOK
  <2>2. CASE Connect(c)
    <3>1. /\ keys' = keys /\ lost' = lost /\ lastSent' = lastSent
          /\ changed' = changed /\ todo' = todo
      BY <2>2 DEF Connect
    <3>2. QED
      BY <1>1, <1>2, <1>3, <1>5, <3>1, KeepsFine
  <2>3. ASSUME NEW K \in SUBSET Keys, Subscribe(c, K) PROVE Fine(c, k)'
    BY <1>5, <2>3 DEF Subscribe, Burst, TypeOK, Fine, OnItsWay
  <2>4. CASE \E K \in SUBSET Keys : FirstFrame(c, K) \/ Resubscribe(c, K)
    BY <2>3, <2>4 DEF FirstFrame, Resubscribe
  <2>5. ASSUME NEW K \in SUBSET Keys, Unsubscribe(c, K) PROVE Fine(c, k)'
    <3>1. keys'[c] = keys[c] \ K /\ todo' = todo
      BY <2>5 DEF Unsubscribe, TypeOK
    <3>2. k \in keys[c] /\ k \notin K /\ k \in Keys
      BY <1>1, <1>5, <3>1
    <3>3. lastSent'[c][k] = lastSent[c][k]
      BY <2>5, <3>2 DEF Unsubscribe, TypeOK
    <3>4. lost'[c][k] = IF changed[c][k] THEN lost[c][k] \cup {"rebind"} ELSE lost[c][k]
      BY <2>5, <3>2 DEF Unsubscribe, TypeOK
    <3>5. CASE changed[c][k]
      BY <3>4, <3>5 DEF Fine
    <3>6. CASE ~changed[c][k]
      BY <1>1, <1>2, <1>3, <3>1, <3>2, <3>3, <3>4, <3>6, KeepsFine
    <3>7. QED
      BY <3>5, <3>6
  <2>6. ASSUME NEW q \in Keys, Snapshot(c, q) \/ PushDelta(c, q) PROVE Fine(c, k)'
    <3>1. /\ keys' = keys /\ changed' = changed
          /\ todo' = [todo EXCEPT ![c] = @ \ {q}]
          /\ lastSent' = [lastSent EXCEPT ![c][q] = Scan(q)]
          /\ lost' = [lost EXCEPT ![c][q] = {}]
      BY <2>6 DEF Snapshot, PushDelta
    <3>2. k \in keys[c] /\ k \in Keys
      BY <1>1, <1>5, <3>1
    <3>3. CASE k = q
      <4>1. lastSent'[c][k] = Scan(k)
        BY <3>1, <3>2, <3>3 DEF TypeOK
      <4>2. QED
        BY <1>3, <3>2, <4>1 DEF Fine, Fresh
    <3>4. CASE k # q
      <4>1. lastSent'[c][k] = lastSent[c][k] /\ lost'[c][k] = lost[c][k]
        BY <3>1, <3>2, <3>4 DEF TypeOK
      <4>2. k \in todo[c] => k \in todo'[c]
        BY <3>1, <3>4 DEF TypeOK
      <4>3. QED
        BY <1>1, <1>2, <1>3, <3>1, <3>2, <4>1, <4>2, KeepsFine
    <3>5. QED
      BY <3>3, <3>4
  <2>7. ASSUME NEW q \in Keys, SeeChange(c, q) PROVE Fine(c, k)'
    <3>1. keys' = keys /\ lost' = lost /\ lastSent' = lastSent
      BY <2>7 DEF SeeChange
    <3>2. k \in keys[c] /\ k \in Keys
      BY <1>1, <1>5, <3>1
    <3>3. todo[c] = {} /\ todo'[c] = {q}
      BY <2>7 DEF SeeChange, ConnShape, TypeOK
    <3>4. CASE k = q
      BY <3>3, <3>4 DEF Fine, OnItsWay
    <3>5. CASE k # q
      <4>1. changed'[c][k] = changed[c][k]
        BY <2>7, <3>2, <3>5 DEF SeeChange, TypeOK
      <4>2. QED
        BY <1>1, <1>2, <1>3, <3>1, <3>2, <3>3, <4>1, KeepsFine
    <3>6. QED
      BY <3>4, <3>5
  <2>8. CASE Drain(c)
    <3>1. keys' = keys /\ lost' = lost /\ lastSent' = lastSent
      BY <2>8 DEF Drain
    <3>2. k \in keys[c] /\ k \in Keys
      BY <1>1, <1>5, <3>1
    <3>3. todo'[c] = todo[c] \cup {q \in keys[c] : changed[c][q]}
      BY <2>8 DEF Drain, Drained, TypeOK
    <3>4. CASE changed[c][k]
      BY <3>2, <3>3, <3>4 DEF Fine, OnItsWay
    <3>5. CASE ~changed[c][k]
      BY <1>1, <1>2, <1>3, <3>1, <3>2, <3>3, <3>5, KeepsFine
    <3>6. QED
      BY <3>4, <3>5
  <2>9. QED
    BY <2>1, <2>2, <2>4, <2>5, <2>6, <2>7, <2>8 DEF ClientStep, PushStep
<1>6. QED
  BY <1>4, <1>5 DEF StaleOnlyIfLost, FreshUpTo, Fine

LEMMA FineStep ==
    ASSUME TypeOK, ConnShape, StaleOnlyIfLost, [Next]_vars
    PROVE  StaleOnlyIfLost'
<1>1. ASSUME NEW r \in Regions, ShardStep(r) PROVE StaleOnlyIfLost'
  <2>1. keys' = keys
    BY <1>1, ShardStepKeepsConns DEF connVars
  <2>2. \A c \in Conns : \A k \in keys[c] : Fine(c, k)'
    BY <1>1, ShardStepFine, StaleOnlyIfLostDef
  <2>3. QED
    BY <2>1, <2>2 DEF StaleOnlyIfLost, FreshUpTo, Fine
<1>2. CASE UNCHANGED vars
  BY <1>2 DEF vars, StaleOnlyIfLost, FreshUpTo, Fresh, OnItsWay, Scan, ScanOf
<1>3. QED
  BY <1>1, <1>2, ConnStepFine DEF Next

LEMMA InitFine == Init => StaleOnlyIfLost
  BY DEF Init, StaleOnlyIfLost, FreshUpTo

\* No row that changes a subscribed key's id set is lost between apply_rows and
\* the client, except by the causes the history variable names.
THEOREM NoSilentLoss == Spec => []StaleOnlyIfLost
<1> DEFINE IInv == TypeOK /\ ViewIsBaseline /\ ConnShape /\ StaleOnlyIfLost
<1>1. Init => IInv
  BY InitType, InitShape, InitFine
<1>2. IInv /\ [Next]_vars => IInv'
  BY TypeStep, ShapeStep, FineStep
<1>3. QED
  BY <1>1, <1>2, PTL DEF Spec

-----------------------------------------------------------------------------
(* LivePush implements DimFeed: with the cache's committed stores as the    *)
(* truth and the regions that failed half way as torn, every step of a      *)
(* shard or a connection is a step of the feed or leaves it alone.          *)

\* Unless a transaction is under way or failed half way, the store is the one
\* committed last.
Committed == \A r \in Regions : phase[r] \notin {"applying", "failed"} => before[r] = store[r]

\* Only subscribed keys have a baseline.
NoLeftovers == \A c \in Conns : \A k \in Keys : k \notin keys[c] => lastSent[c][k] = NotSent

LEMMA InitFeedInv == Init => Committed /\ NoLeftovers
  BY DEF Init, Committed, NoLeftovers, Nothing

LEMMA CommittedStep ==
    ASSUME TypeOK, Committed, [Next]_vars
    PROVE  Committed'
<1> USE DEF Committed
<1>1. ASSUME NEW r \in Regions, ShardStep(r) PROVE Committed'
  <2>1. CASE LoadStore(r) \/ ClearStore(r)
    <3>1. PICK s : store' = [store EXCEPT ![r] = s]
      BY <2>1 DEF LoadStore, ClearStore
    <3>2. before' = [before EXCEPT ![r] = s]
      BY <2>1, <3>1 DEF LoadStore, ClearStore, TypeOK
    <3>3. \A q \in Regions : q # r => phase'[q] = phase[q]
      BY <2>1 DEF LoadStore, ClearStore, TypeOK
    <3>4. QED
      BY <3>1, <3>2, <3>3 DEF TypeOK
  <2>2. CASE CheckSubscribers(r) \/ TakeLock(r) \/ EndFlush(r)
    BY <2>2 DEF CheckSubscribers, TakeLock, EndFlush, TypeOK
  <2>3. CASE ReleaseLock(r)
    <3>1. /\ store' = store /\ before' = [before EXCEPT ![r] = store[r]]
          /\ \A q \in Regions : q # r => phase'[q] = phase[q]
      BY <2>3 DEF ReleaseLock, TypeOK
    <3>2. QED
      BY <3>1 DEF TypeOK
  <2>4. CASE FailApply(r)
    BY <2>4 DEF FailApply, TypeOK
  <2>5. CASE \E k \in Keys : Notify(r, k)
    BY <2>5 DEF Notify
  <2>6. ASSUME NEW s, NEW dims, ApplyRow(r, s, dims) PROVE Committed'
    BY <2>6 DEF ApplyRow, TypeOK
  <2>7. CASE RowStep(r)
    BY <2>6, <2>7, RowStepCovers
  <2>8. CASE DescStep(r)
    <3>1. PICK s \in Stores : ChangeDescRow(r, s)
      BY <2>8, DescStepType
    <3>2. QED
      BY <3>1 DEF ChangeDescRow, TypeOK
  <2>9. QED
    BY <1>1, <2>1, <2>2, <2>3, <2>4, <2>5, <2>7, <2>8 DEF ShardStep
<1>2. ASSUME NEW c \in Conns, ClientStep(c) \/ PushStep(c) PROVE Committed'
  BY <1>2, ConnStepKeepsShards DEF shardVars
<1>3. CASE UNCHANGED vars
  BY <1>3 DEF vars
<1>4. QED
  BY <1>1, <1>2, <1>3 DEF Next

LEMMA NoLeftoversStep ==
    ASSUME TypeOK, ConnShape, NoLeftovers, [Next]_vars
    PROVE  NoLeftovers'
<1>1. ASSUME NEW r \in Regions, ShardStep(r) PROVE NoLeftovers'
  BY <1>1, ShardStepKeepsConns DEF connVars, NoLeftovers
<1>2. ASSUME NEW c \in Conns, ClientStep(c) \/ PushStep(c) PROVE NoLeftovers'
  <2> DEFINE Own == \A k \in Keys : k \notin keys'[c] => lastSent'[c][k] = NotSent
  <2>1. SUFFICES Own
    BY <1>2, OtherConns DEF NoLeftovers
  <2>2. CASE Connect(c) \/ Drain(c) \/ \E k \in Keys : SeeChange(c, k)
    BY <2>2 DEF Connect, Drain, SeeChange, NoLeftovers
  <2>3. ASSUME NEW K \in SUBSET Keys, Subscribe(c, K) PROVE Own
    BY <2>3 DEF Subscribe, BaselineAfterReplace, Nothing, TypeOK
  <2>4. CASE \E K \in SUBSET Keys : FirstFrame(c, K) \/ Resubscribe(c, K)
    BY <2>3, <2>4 DEF FirstFrame, Resubscribe
  <2>5. ASSUME NEW K \in SUBSET Keys, Unsubscribe(c, K) PROVE Own
    BY <2>5 DEF Unsubscribe, TypeOK, NoLeftovers
  <2>6. CASE RefuseFirstFrame(c) \/ Close(c)
    BY <2>6 DEF RefuseFirstFrame, Close, Leave, Nothing, TypeOK
  <2>7. ASSUME NEW k \in Keys, Snapshot(c, k) \/ PushDelta(c, k) PROVE Own
    <3>1. k \in keys[c]
      BY <2>7 DEF Snapshot, PushDelta, ConnShape
    <3>2. keys' = keys /\ lastSent' = [lastSent EXCEPT ![c][k] = Scan(k)]
      BY <2>7 DEF Snapshot, PushDelta
    <3>3. QED
      BY <3>1, <3>2 DEF TypeOK, NoLeftovers
  <2>8. QED
    BY <1>2, <2>2, <2>4, <2>5, <2>6, <2>7 DEF ClientStep, PushStep
<1>3. CASE UNCHANGED vars
  BY <1>3 DEF vars, NoLeftovers
<1>4. QED
  BY <1>1, <1>2, <1>3 DEF Next

-----------------------------------------------------------------------------
\* The truth the feed is about.
Truth == [k \in Keys |-> ScanOf(before, k)]

LEMMA TruthType == Truth \in [Keys -> SUBSET Entities]
  BY DEF Truth, ScanOf, HousingBuildingIds, EntitiesIn

LEMMA ScanIsTruth ==
    ASSUME TypeOK, Committed, NEW k \in Keys, CanScan(k), k \notin Torn
    PROVE  Scan(k) = Truth[k]
<1>1. CASE k[1] \in Regions
  BY <1>1 DEF Committed, CanScan, Readable, Torn, Scan, ScanOf, Truth
<1>2. CASE k[1] \notin Regions
  BY <1>2 DEF Scan, ScanOf, Truth
<1>3. QED
  BY <1>1, <1>2

\* A region fails by FailApply only, and every other step commits or leaves the
\* cache alone.
LEMMA TearsByFailing ==
    ASSUME TypeOK, NEW r \in Regions, ShardStep(r)
    PROVE  FailApply(r) \/ Torn' \subseteq Torn
<1>1. CASE LoadStore(r) \/ ClearStore(r)
  BY <1>1 DEF LoadStore, ClearStore, Torn, TypeOK
<1>2. CASE CheckSubscribers(r) \/ TakeLock(r) \/ ReleaseLock(r) \/ EndFlush(r)
  BY <1>2 DEF CheckSubscribers, TakeLock, ReleaseLock, EndFlush, Torn, TypeOK
<1>3. CASE \E k \in Keys : Notify(r, k)
  BY <1>3 DEF Notify, Torn
<1>4. ASSUME NEW s, NEW dims, ApplyRow(r, s, dims) PROVE Torn' \subseteq Torn
  BY <1>4 DEF ApplyRow, Torn
<1>5. CASE RowStep(r)
  BY <1>4, <1>5, RowStepCovers
<1>6. CASE DescStep(r)
  <2>1. PICK s \in Stores : ChangeDescRow(r, s)
    BY <1>6, DescStepType
  <2>2. QED
    BY <2>1 DEF ChangeDescRow, Torn
<1>7. QED
  BY <1>1, <1>2, <1>3, <1>5, <1>6 DEF ShardStep

LEMMA FeedInit == Init => Feed!Init
<1> SUFFICES ASSUME Init PROVE Feed!Init
  OBVIOUS
<1>1. Truth \in [Keys -> SUBSET Entities]
  BY TruthType
<1>2. QED
  BY <1>1 DEF Feed!Init, Feed!Nothing, Init, Nothing, Truth, Torn

LEMMA FeedStep ==
    ASSUME TypeOK, TypeOK', ViewIsBaseline, ViewIsBaseline', ConnShape, Committed,
           NoLeftovers, [Next]_vars
    PROVE  [Feed!Next]_(Feed!vars)
<1>1. ASSUME NEW r \in Regions, ShardStep(r) PROVE Feed!Next
  <2>1. Truth' \in [Keys -> SUBSET Entities]
    BY DEF Truth, ScanOf, HousingBuildingIds, EntitiesIn
  <2>2. keys' = keys /\ view' = view
    BY <1>1, ShardStepKeepsConns DEF connVars
  <2>3. CASE Torn' \subseteq Torn
    <3>1. Feed!Commit
      BY <2>1, <2>2, <2>3 DEF Feed!Commit, Truth
    <3>2. QED
      BY <3>1 DEF Feed!Next
  <2>4. CASE FailApply(r)
    <3>1. Truth' = Truth
      BY <2>4 DEF FailApply, Truth, ScanOf
    <3>2. Torn \subseteq Torn' /\ Torn' \in SUBSET Keys
      BY <2>4 DEF FailApply, Torn, TypeOK
    <3>3. Feed!Tear
      BY <2>2, <3>1, <3>2 DEF Feed!Tear, Truth
    <3>4. QED
      BY <3>3 DEF Feed!Next
  <2>5. QED
    BY <1>1, <2>3, <2>4, TearsByFailing
<1>2. ASSUME NEW c \in Conns, ClientStep(c) \/ PushStep(c)
      PROVE  [Feed!Next]_(Feed!vars)
  <2>1. before' = before /\ phase' = phase
    BY <1>2, ConnStepKeepsShards DEF shardVars
  <2>2. Truth' = Truth /\ Torn' = Torn
    BY <2>1 DEF Truth, ScanOf, Torn
  <2>3. CASE Connect(c) \/ Drain(c) \/ \E k \in Keys : SeeChange(c, k)
    <3>1. keys' = keys /\ view' = view
      BY <2>3 DEF Connect, Drain, SeeChange
    <3>2. QED
      BY <2>2, <3>1 DEF Feed!vars, Truth
  <2>4. ASSUME keys' = [keys EXCEPT ![c] = keys'[c]], view' = [view EXCEPT ![c] = Nothing]
        PROVE  Feed!Next
    <3>1. keys' \in [Conns -> SUBSET Keys]
      BY DEF TypeOK
    <3>2. Feed!Replace(c)
      BY <2>2, <2>4, <3>1 DEF Feed!Replace, Feed!Nothing, Nothing, Truth
    <3>3. QED
      BY <3>2 DEF Feed!Next
  <2>5. CASE \E K \in SUBSET Keys : FirstFrame(c, K) \/ Resubscribe(c, K)
    BY <2>4, <2>5 DEF FirstFrame, Resubscribe, Subscribe, TypeOK
  <2>6. CASE RefuseFirstFrame(c) \/ Close(c)
    BY <2>4, <2>6 DEF RefuseFirstFrame, Close, Leave, TypeOK
  <2>7. ASSUME NEW K \in SUBSET Keys, Unsubscribe(c, K) PROVE Feed!Next
    <3>1. keys' = [keys EXCEPT ![c] = keys[c] \ K]
      BY <2>7 DEF Unsubscribe
    <3> DEFINE L == keys[c] \ K
    <3>2. [k \in Keys |-> IF k \in K THEN NotSent ELSE view[c][k]]
            = [k \in Keys |-> IF k \in L THEN view[c][k] ELSE NotSent]
      BY DEF NoLeftovers, ViewIsBaseline
    <3>3. view' = [view EXCEPT ![c] = [k \in Keys |-> IF k \in L THEN view[c][k] ELSE NotSent]]
      BY <2>7, <3>2 DEF Unsubscribe
    <3>4. L \in SUBSET keys[c]
      OBVIOUS
    <3>5. Feed!Narrow(c)
      BY <2>2, <3>1, <3>3, <3>4 DEF Feed!Narrow, Truth
    <3>6. QED
      BY <3>5 DEF Feed!Next
  <2>8. ASSUME NEW k \in Keys, Snapshot(c, k) \/ PushDelta(c, k) PROVE Feed!Next
    <3>1. /\ k \in todo[c] /\ CanScan(k) /\ keys' = keys
          /\ lastSent' = [lastSent EXCEPT ![c][k] = Scan(k)]
      BY <2>8 DEF Snapshot, PushDelta
    <3>2. k \in keys[c]
      BY <3>1 DEF ConnShape
    <3>3. view' = [view EXCEPT ![c][k] = Scan(k)] /\ Scan(k) \in SUBSET Entities
      BY <3>1 DEF ViewIsBaseline, Scan, ScanOf, HousingBuildingIds, EntitiesIn
    <3>4. k \notin Torn => Scan(k) = Truth[k]
      BY <3>1, ScanIsTruth
    <3>5. Feed!Deliver(c)
      BY <2>2, <3>1, <3>2, <3>3, <3>4 DEF Feed!Deliver, Truth
    <3>6. QED
      BY <3>5 DEF Feed!Next
  <2>9. QED
    BY <1>2, <2>3, <2>5, <2>6, <2>7, <2>8 DEF ClientStep, PushStep
<1>3. CASE UNCHANGED vars
  BY <1>3 DEF vars, Feed!vars, ScanOf, Torn
<1>4. QED
  BY <1>1, <1>2, <1>3 DEF Next

\* The stream implements the feed: a client's view only ever moves to the id set
\* committed at that moment, never to the middle of a transaction under way (the
\* scans of stream.rs under the read lock, apply_transaction under the write
\* lock), except in a region whose transaction failed half way and that has not
\* been cleared since: its keys are torn, and a scan may show the half.
THEOREM ImplementsFeed == Spec => FeedSpec
<1> DEFINE IInv == TypeOK /\ ViewIsBaseline /\ ConnShape /\ Committed /\ NoLeftovers
<1>1. Init => IInv
  BY InitType, InitShape, InitFeedInv
<1>2. IInv /\ [Next]_vars => IInv'
  BY TypeStep, ShapeStep, CommittedStep, NoLeftoversStep
<1>3. IInv /\ IInv' /\ [Next]_vars => [Feed!Next]_(Feed!vars)
  BY FeedStep
<1>4. Init => Feed!Init
  BY FeedInit
<1>5. QED
  BY <1>1, <1>2, <1>3, <1>4, PTL DEF Spec, FeedSpec, Feed!Spec

=============================================================================
