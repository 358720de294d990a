---------------------------- MODULE WakesProofs ----------------------------
(***************************************************************************)
(* The rows of apply_rows and what they wake, for any players, claims,     *)
(* buildings and tables: types, that the candidates of an inventory miss   *)
(* no bag, and that a row that changes an answer notifies its key.         *)
(***************************************************************************)
EXTENDS Wakes, TLAPS

-----------------------------------------------------------------------------
(* What classify_player_bag accepts, player_inventory_slots offers.        *)

\* The four sources of player_inventory_slots, row by row.
LEMMA CandidatesAre ==
    ASSUME NEW p, NEW x
    PROVE  x \in Candidates(p) <=>
             /\ x \in DOMAIN inventory
             /\ \/ inventory[x].owner = p
                \/ inventory[x].playerOwner = p
                \/ /\ inventory[x].owner \in DOMAIN deployable
                   /\ deployable[inventory[x].owner] = p
                \/ x \in DOMAIN deployable /\ deployable[x] = p
<1> DEFINE mine == {d \in DOMAIN deployable : deployable[d] = p}
           theirs == {i \in DOMAIN inventory : inventory[i].playerOwner = p}
           carried == UNION {OwnedBy(d) : d \in mine}
<1>1. x \in carried <=> x \in DOMAIN inventory /\ inventory[x].owner \in mine
  BY DEF OwnedBy
<1>2. Candidates(p) = OwnedBy(p) \cup theirs \cup carried \cup (mine \cap DOMAIN inventory)
  BY DEF Candidates
<1>3. \A d : d \in mine <=> d \in DOMAIN deployable /\ deployable[d] = p
  OBVIOUS
<1>4. x \in theirs <=> x \in DOMAIN inventory /\ inventory[x].playerOwner = p
  OBVIOUS
<1>5. x \in OwnedBy(p) <=> x \in DOMAIN inventory /\ inventory[x].owner = p
  BY DEF OwnedBy
<1>6. QED
  <2> HIDE DEF mine, theirs, carried
  <2>1. QED
    BY <1>1, <1>2, <1>3, <1>4, <1>5

LEMMA Offered ==
    ASSUME NEW p, NEW i \in DOMAIN inventory, IsBagOf(i, p)
    PROVE  i \in Candidates(p)
  BY CandidatesAre DEF IsBagOf, IsBody, IsPersonal, IsCarried, CarrierOf

\* The bags of a player are the ones classify_player_bag accepts.
LEMMA BagsAre ==
    ASSUME NEW p
    PROVE  BagsOf(p) = {i \in DOMAIN inventory : IsBagOf(i, p)}
  BY CandidatesAre, Offered DEF BagsOf

-----------------------------------------------------------------------------
(* One row of a table.                                                     *)

\* u is t but for the row under k.
Only(u, t, k) ==
    \A j : j # k => (j \in DOMAIN u <=> j \in DOMAIN t) /\ (j \in DOMAIN t => u[j] = t[j])

LEMMA PutRow ==
    ASSUME NEW t, NEW k, NEW r
    PROVE  Only(Put(t, k, r), t, k)
  BY DEF Put, Only

LEMMA DropRow ==
    ASSUME NEW t, NEW k
    PROVE  /\ Only(Drop(t, k), t, k) /\ DOMAIN Drop(t, k) = DOMAIN t \ {k}
  BY DEF Drop, Only

LEMMA PutTyped ==
    ASSUME NEW K, NEW R, NEW t, Table(t, K, R), NEW k \in K, NEW r \in R
    PROVE  Table(Put(t, k, r), K, R)
  BY DEF Put, Table

LEMMA DropTyped ==
    ASSUME NEW K, NEW R, NEW t, Table(t, K, R), NEW k
    PROVE  Table(Drop(t, k), K, R)
  BY DEF Drop, Table

-----------------------------------------------------------------------------
(* What a batch notifies.                                                  *)

LEMMA Flushed ==
    ASSUME NEW topic, NEW id, <<topic, id>> \in touched',
           topic # "member_player", id # NoId
    PROVE  Woken(topic, id)
  BY DEF Woken, Flush

LEMMA Rostered ==
    ASSUME NEW p, NEW c, <<"member_player", p>> \in touched', <<p, c>> \in index'
    PROVE  Woken("claim_members", c)
<1> DEFINE listed == {q \in index' : <<"member_player", q[1]>> \in touched'}
<1>1. <<p, c>> \in listed
  OBVIOUS
<1>2. <<"claim_members", <<p, c>>[2]>> \in {<<"claim_members", pc[2]>> : pc \in listed}
  BY <1>1
<1>3. QED
  BY <1>2 DEF Woken, Flush

\* A flush notifies no absent key, whatever was touched.
LEMMA FlushNamed ==
    ASSUME index \subseteq Players \X Claims, NEW T
    PROVE  \A x \in Flush(T) : x[1] # "member_player" /\ x[2] # NoId
<1>1. \A pc \in index : pc[2] # NoId
  BY AnswersAssumption
<1>2. \A x \in {<<"claim_members", pc[2]>> : pc \in index} :
          x[1] # "member_player" /\ x[2] # NoId
  BY <1>1
<1>3. \A x \in Flush(T) : (x[1] # "member_player" /\ x[2] # NoId)
                              \/ x \in {<<"claim_members", pc[2]>> : pc \in index}
  BY DEF Flush
<1>4. QED
  BY <1>2, <1>3

\* What the rows of each table touch are keys.
LEMMA HouseTouchable ==
    ASSUME TablesOK, NEW d
    PROVE  HouseAt(d) \subseteq Touchable
  BY DEF TablesOK, Table, HouseAt, Touchable, OwnerIds

LEMMA InteriorTouchable ==
    ASSUME TablesOK, NEW d \in Dims \cup {Overworld}
    PROVE  Interior(d) \subseteq Touchable
  BY DEF Interior, Touchable

LEMMA DimType ==
    ASSUME TablesOK, NEW b
    PROVE  DimOf(b) \in Dims \cup {Overworld}
  BY DEF TablesOK, Table, DimOf

LEMMA ClaimType ==
    ASSUME TablesOK, NEW b
    PROVE  ClaimOf(b) \in Claims \cup {NoId}
  BY DEF TablesOK, Table, ClaimOf, BuildingRow

LEMMA OwnTouchable ==
    ASSUME NEW p \in OwnerIds
    PROVE  Own(p) \subseteq Touchable
  BY DEF Own, Touchable

LEMMA BuildingTouchable ==
    ASSUME TablesOK, NEW b, NEW c \in Claims \cup {NoId}
    PROVE  TouchBuilding(b, c) \subseteq Touchable
<1>1. {<<"claim_inv", c>>, <<"claim_crafts", c>>} \subseteq Touchable
  BY DEF Touchable
<1>2. QED
  BY <1>1, HouseTouchable, InteriorTouchable, DimType DEF TouchBuilding, TouchHousingFor

LEMMA EntityTouchable ==
    ASSUME TablesOK, NEW b
    PROVE  TouchBuildingEntity(b) \subseteq Touchable
<1>1. b \in DOMAIN building => building[b].claim \in Claims \cup {NoId}
  BY DEF TablesOK, Table, BuildingRow
<1>2. QED
  BY <1>1, BuildingTouchable, HouseTouchable DEF TouchBuildingEntity, TouchHousingFor

LEMMA LocationTouchable ==
    ASSUME TablesOK, NEW b, NEW d \in Dims \cup {Overworld}
    PROVE  TouchLocation(b, d) \subseteq Touchable
<1>1. {<<"claim_inv", ClaimOf(b)>>} \subseteq Touchable
  BY ClaimType DEF Touchable
<1>2. QED
  BY <1>1, HouseTouchable, InteriorTouchable DEF TouchLocation

LEMMA InventoryTouchable ==
    ASSUME TablesOK, NEW i, NEW r \in BagRow
    PROVE  TouchInventory(i, r) \subseteq Touchable
<1>1. r.owner \in OwnerIds /\ r.playerOwner \in OwnerIds
  BY DEF BagRow, OwnerIds
<1>2. \A d \in DOMAIN deployable : deployable[d] \in OwnerIds
  BY DEF TablesOK, Table, OwnerIds
<1>3. \A b \in DOMAIN building : building[b].claim \in Claims \cup {NoId}
  BY DEF TablesOK, Table, BuildingRow
<1>4. QED
  BY <1>1, <1>2, <1>3, OwnTouchable, BuildingTouchable DEF TouchInventory

LEMMA CraftTouchable ==
    ASSUME TablesOK, NEW r \in CraftRow
    PROVE  TouchCraft(r) \subseteq Touchable
  BY ClaimType DEF TouchCraft, Touchable, CraftRow, OwnerIds

LEMMA NetworkTouchable ==
    ASSUME TablesOK, NEW n
    PROVE  TouchNetwork(n) \subseteq Touchable
  BY DEF TablesOK, Table, TouchNetwork, Touchable, OwnerIds

-----------------------------------------------------------------------------
(* Steps, table by table: which row changed, and the touches the batch      *)
(* recorded for the row as it was and as it is.                            *)

Recorded(T) == T \subseteq touched'

BuildingStep(b) ==
    /\ row' = <<"building", b>> /\ Only(building', building, b)
    /\ b \in DOMAIN building => Recorded(TouchBuilding(b, building[b].claim))
    /\ b \in DOMAIN building' => Recorded(TouchBuilding(b, building'[b].claim))
    /\ UNCHANGED <<nickname, named, location, network, housing, bags, work, people>>

NicknameStep(b) ==
    /\ row' = <<"nickname", b>> /\ nickname' \ {b} = nickname \ {b}
    /\ Recorded(TouchBuildingEntity(b))
    /\ UNCHANGED <<building, named, location, network, housing, bags, work, people>>

NameStep(x) ==
    /\ row' = <<"name", x>>
    /\ UNCHANGED <<building, nickname, location, network, housing, bags, work, people>>

LocationStep(b) ==
    /\ row' = <<"location", b>> /\ Only(location', location, b)
    /\ b \in DOMAIN location => Recorded(TouchLocation(b, location[b]))
    /\ b \in DOMAIN location' => Recorded(TouchLocation(b, location'[b]))
    /\ UNCHANGED <<building, nickname, named, network, housing, bags, work, people>>

NetworkStep(n) ==
    /\ row' = <<"network", n>> /\ Only(network', network, n)
    /\ Recorded(TouchNetwork(n))
    /\ UNCHANGED <<building, nickname, named, location, housing, bags, work, people>>

HousingStep(p) ==
    /\ row' = <<"housing", p>> /\ Only(housing', housing, p)
    /\ Recorded({<<"player_housing", p>>})
    /\ UNCHANGED <<building, nickname, named, location, network, bags, work, people>>

InventoryStep(i) ==
    /\ row' = <<"inventory", i>> /\ Only(inventory', inventory, i)
    /\ i \in DOMAIN inventory => Recorded(TouchInventory(i, inventory[i]))
    /\ i \in DOMAIN inventory' => Recorded(TouchInventory(i, inventory'[i]))
    /\ UNCHANGED <<land, deployable, work, people>>

DeployableStep(d) ==
    /\ row' = <<"deployable", d>> /\ Only(deployable', deployable, d)
    /\ d \in DOMAIN deployable => Recorded({<<"player_inv", deployable[d]>>})
    /\ d \in DOMAIN deployable' => Recorded({<<"player_inv", deployable'[d]>>})
    /\ UNCHANGED <<land, inventory, work, people>>

CraftStep(t, k) ==
    /\ row' = <<t, k>> /\ Only(crafts'[t], crafts[t], k)
    /\ \A s \in CraftTables : s # t => crafts'[s] = crafts[s]
    /\ k \in DOMAIN crafts[t] => Recorded(TouchCraft(crafts[t][k]))
    /\ k \in DOMAIN crafts'[t] => Recorded(TouchCraft(crafts'[t][k]))
    /\ UNCHANGED <<land, bags, public, people>>

PublicStep(k) ==
    /\ row' = <<"public", k>> /\ Only(public', public, k)
    /\ k \in DOMAIN public => Recorded(TouchCraft(public[k]))
    /\ k \in DOMAIN public' => Recorded(TouchCraft(public'[k]))
    /\ UNCHANGED <<land, bags, crafts, people>>

MemberStep(m) ==
    /\ row' = <<"member", m>> /\ Only(member', member, m)
    /\ m \in DOMAIN member => Recorded({<<"claim_members", member[m].claim>>})
    /\ m \in DOMAIN member' => Recorded({<<"claim_members", member'[m].claim>>})
    /\ UNCHANGED <<land, bags, work, profile>>

ProfileStep(t, p) ==
    /\ row' = <<t, p>> /\ Only(profile'[t], profile[t], p)
    /\ \A s \in ProfileTables : s # t => profile'[s] = profile[s]
    /\ Recorded({<<"member_player", p>>})
    /\ UNCHANGED <<land, bags, work, member, index>>

LEMMA AppliedRecords ==
    ASSUME NEW table, NEW k, NEW S, NEW T, Applied(table, k, T), S \subseteq T
    PROVE  Recorded(S)
  BY DEF Applied, Recorded

LEMMA DeleteBuildingStep ==
    ASSUME NEW b, DeleteBuilding(b)
    PROVE  BuildingStep(b)
<1>1. Recorded(TouchBuilding(b, building[b].claim))
  BY AppliedRecords DEF DeleteBuilding
<1>2. Only(building', building, b) /\ b \notin DOMAIN building'
  BY DropRow DEF DeleteBuilding
<1>3. QED
  BY <1>1, <1>2 DEF DeleteBuilding, BuildingStep, Applied

LEMMA InsertBuildingStep ==
    ASSUME NEW b, NEW r, InsertBuilding(b, r)
    PROVE  BuildingStep(b)
<1>1. Recorded(TouchBuilding(b, r.claim))
  BY AppliedRecords DEF InsertBuilding
<1>2. building' = Put(building, b, r)
  BY DEF InsertBuilding
<1>3. Only(building', building, b)
  BY <1>2, PutRow
<1>4. building'[b] = r
  BY <1>2 DEF Put
<1>5. QED
  BY <1>1, <1>3, <1>4 DEF InsertBuilding, BuildingStep, Applied

LEMMA NicknameSteps ==
    ASSUME NEW b, DeleteNickname(b) \/ InsertNickname(b)
    PROVE  NicknameStep(b)
<1>1. Recorded(TouchBuildingEntity(b)) /\ row' = <<"nickname", b>>
  BY AppliedRecords DEF DeleteNickname, InsertNickname, Applied
<1>2. QED
  BY <1>1 DEF DeleteNickname, InsertNickname, NicknameStep

LEMMA NameSteps ==
    ASSUME NEW x, DeleteName(x) \/ InsertName(x)
    PROVE  NameStep(x)
  BY DEF DeleteName, InsertName, NameStep, Applied

LEMMA DeleteLocationStep ==
    ASSUME NEW b, DeleteLocation(b)
    PROVE  LocationStep(b)
<1>1. Recorded(TouchLocation(b, location[b]))
  BY AppliedRecords DEF DeleteLocation
<1>2. Only(location', location, b) /\ b \notin DOMAIN location'
  BY DropRow DEF DeleteLocation
<1>3. QED
  BY <1>1, <1>2 DEF DeleteLocation, LocationStep, Applied

LEMMA InsertLocationStep ==
    ASSUME NEW b, NEW d, InsertLocation(b, d)
    PROVE  LocationStep(b)
<1>1. Recorded(TouchLocation(b, d))
  BY AppliedRecords DEF InsertLocation
<1>2. location' = Put(location, b, d)
  BY DEF InsertLocation
<1>3. Only(location', location, b)
  BY <1>2, PutRow
<1>4. location'[b] = d
  BY <1>2 DEF Put
<1>5. QED
  BY <1>1, <1>3, <1>4 DEF InsertLocation, LocationStep, Applied

LEMMA DeleteNetworkStep ==
    ASSUME NEW n, DeleteNetwork(n)
    PROVE  NetworkStep(n)
<1>1. Recorded(TouchNetwork(n))
  BY AppliedRecords DEF DeleteNetwork
<1>2. Only(network', network, n)
  BY DropRow DEF DeleteNetwork
<1>3. QED
  BY <1>1, <1>2 DEF DeleteNetwork, NetworkStep, Applied

LEMMA InsertNetworkStep ==
    ASSUME NEW n, NEW r, InsertNetwork(n, r)
    PROVE  NetworkStep(n)
<1>1. Recorded(TouchNetwork(n))
  BY AppliedRecords DEF InsertNetwork
<1>2. network' = Put(network, n, r)
  BY DEF InsertNetwork
<1>3. Only(network', network, n)
  BY <1>2, PutRow
<1>4. QED
  BY <1>1, <1>3 DEF InsertNetwork, NetworkStep, Applied

LEMMA DeleteHousingStep ==
    ASSUME NEW p, DeleteHousing(p)
    PROVE  HousingStep(p)
<1>1. Recorded({<<"player_housing", p>>})
  BY AppliedRecords DEF DeleteHousing
<1>2. Only(housing', housing, p)
  BY DropRow DEF DeleteHousing
<1>3. QED
  BY <1>1, <1>2 DEF DeleteHousing, HousingStep, Applied

LEMMA InsertHousingStep ==
    ASSUME NEW p, NEW r, InsertHousing(p, r)
    PROVE  HousingStep(p)
<1>1. Recorded({<<"player_housing", p>>})
  BY AppliedRecords DEF InsertHousing
<1>2. housing' = Put(housing, p, r)
  BY DEF InsertHousing
<1>3. Only(housing', housing, p)
  BY <1>2, PutRow
<1>4. QED
  BY <1>1, <1>3 DEF InsertHousing, HousingStep, Applied

LEMMA DeleteInventoryStep ==
    ASSUME NEW i, DeleteInventory(i)
    PROVE  InventoryStep(i)
<1>1. Recorded(TouchInventory(i, inventory[i]))
  BY AppliedRecords DEF DeleteInventory
<1>2. Only(inventory', inventory, i) /\ i \notin DOMAIN inventory'
  BY DropRow DEF DeleteInventory
<1>3. QED
  BY <1>1, <1>2 DEF DeleteInventory, InventoryStep, Applied

LEMMA InsertInventoryStep ==
    ASSUME NEW i, NEW r, InsertInventory(i, r)
    PROVE  InventoryStep(i)
<1>1. Recorded(TouchInventory(i, r))
  BY AppliedRecords DEF InsertInventory
<1>2. inventory' = Put(inventory, i, r)
  BY DEF InsertInventory
<1>3. Only(inventory', inventory, i)
  BY <1>2, PutRow
<1>4. inventory'[i] = r
  BY <1>2 DEF Put
<1>5. QED
  BY <1>1, <1>3, <1>4 DEF InsertInventory, InventoryStep, Applied

LEMMA DeleteDeployableStep ==
    ASSUME NEW d, DeleteDeployable(d)
    PROVE  DeployableStep(d)
<1>1. Recorded({<<"player_inv", deployable[d]>>})
  BY AppliedRecords DEF DeleteDeployable
<1>2. Only(deployable', deployable, d) /\ d \notin DOMAIN deployable'
  BY DropRow DEF DeleteDeployable
<1>3. QED
  BY <1>1, <1>2 DEF DeleteDeployable, DeployableStep, Applied

LEMMA InsertDeployableStep ==
    ASSUME NEW d, NEW p, InsertDeployable(d, p)
    PROVE  DeployableStep(d)
<1> DEFINE old == {<<"player_inv", deployable[e]>> : e \in {d} \cap DOMAIN deployable}
<1>1. Applied("deployable", d, {<<"player_inv", p>>} \cup old)
  BY DEF InsertDeployable
<1>2. d \in DOMAIN deployable => {<<"player_inv", deployable[d]>>} \subseteq old
  OBVIOUS
<1>3. d \in DOMAIN deployable => Recorded({<<"player_inv", deployable[d]>>})
  <2> HIDE DEF old
  <2>1. QED
    BY <1>1, <1>2, AppliedRecords
<1>4. Recorded({<<"player_inv", p>>})
  <2> HIDE DEF old
  <2>1. QED
    BY <1>1, AppliedRecords
<1>5. deployable' = Put(deployable, d, p)
  BY DEF InsertDeployable
<1>6. Only(deployable', deployable, d)
  BY <1>5, PutRow
<1>7. deployable'[d] = p
  BY <1>5 DEF Put
<1>8. QED
  BY <1>3, <1>4, <1>6, <1>7 DEF InsertDeployable, DeployableStep, Applied

LEMMA DeleteCraftStep ==
    ASSUME TablesOK, NEW t \in CraftTables, NEW k, DeleteCraft(t, k)
    PROVE  CraftStep(t, k)
<1>1. Recorded(TouchCraft(crafts[t][k]))
  BY AppliedRecords DEF DeleteCraft
<1>2. crafts'[t] = Drop(crafts[t], k) /\ \A s \in CraftTables : s # t => crafts'[s] = crafts[s]
  BY DEF DeleteCraft, TablesOK
<1>3. Only(crafts'[t], crafts[t], k) /\ k \notin DOMAIN crafts'[t]
  BY <1>2, DropRow
<1>4. QED
  BY <1>1, <1>2, <1>3 DEF DeleteCraft, CraftStep, Applied

LEMMA InsertCraftStep ==
    ASSUME TablesOK, NEW t \in CraftTables, NEW k, NEW r, InsertCraft(t, k, r)
    PROVE  CraftStep(t, k)
<1> DEFINE old == UNION {TouchCraft(crafts[t][j]) : j \in {k} \cap DOMAIN crafts[t]}
<1>1. Applied(t, k, TouchCraft(r) \cup old)
  BY DEF InsertCraft
<1>2. k \in DOMAIN crafts[t] => TouchCraft(crafts[t][k]) \subseteq old
  OBVIOUS
<1>3. k \in DOMAIN crafts[t] => Recorded(TouchCraft(crafts[t][k]))
  <2> HIDE DEF old
  <2>1. QED
    BY <1>1, <1>2, AppliedRecords
<1>4. Recorded(TouchCraft(r))
  <2> HIDE DEF old
  <2>1. QED
    BY <1>1, AppliedRecords
<1>5. crafts'[t] = Put(crafts[t], k, r) /\ \A s \in CraftTables : s # t => crafts'[s] = crafts[s]
  BY DEF InsertCraft, TablesOK
<1>6. Only(crafts'[t], crafts[t], k)
  BY <1>5, PutRow
<1>7. crafts'[t][k] = r
  BY <1>5 DEF Put
<1>8. QED
  BY <1>3, <1>4, <1>5, <1>6, <1>7 DEF InsertCraft, CraftStep, Applied

LEMMA DeletePublicStep ==
    ASSUME NEW k, DeletePublic(k)
    PROVE  PublicStep(k)
<1>1. Recorded(TouchCraft(public[k]))
  BY AppliedRecords DEF DeletePublic
<1>2. Only(public', public, k) /\ k \notin DOMAIN public'
  BY DropRow DEF DeletePublic
<1>3. QED
  BY <1>1, <1>2 DEF DeletePublic, PublicStep, Applied

LEMMA InsertPublicStep ==
    ASSUME NEW k, NEW r, InsertPublic(k, r)
    PROVE  PublicStep(k)
<1>1. Recorded(TouchCraft(r))
  BY AppliedRecords DEF InsertPublic
<1>2. public' = Put(public, k, r)
  BY DEF InsertPublic
<1>3. Only(public', public, k)
  BY <1>2, PutRow
<1>4. public'[k] = r
  BY <1>2 DEF Put
<1>5. QED
  BY <1>1, <1>3, <1>4 DEF InsertPublic, PublicStep, Applied

LEMMA DeleteMemberStep ==
    ASSUME NEW m, DeleteMember(m)
    PROVE  MemberStep(m)
<1>1. Recorded({<<"claim_members", member[m].claim>>})
  BY AppliedRecords DEF DeleteMember
<1>2. Only(member', member, m) /\ m \notin DOMAIN member'
  BY DropRow DEF DeleteMember
<1>3. QED
  BY <1>1, <1>2 DEF DeleteMember, MemberStep, Applied

LEMMA InsertMemberStep ==
    ASSUME NEW m, NEW r, InsertMember(m, r)
    PROVE  MemberStep(m)
<1> DEFINE old == {<<"claim_members", member[j].claim>> : j \in {m} \cap DOMAIN member}
<1>1. Applied("member", m, {<<"claim_members", r.claim>>} \cup old)
  BY DEF InsertMember
<1>2. m \in DOMAIN member => {<<"claim_members", member[m].claim>>} \subseteq old
  OBVIOUS
<1>3. m \in DOMAIN member => Recorded({<<"claim_members", member[m].claim>>})
  <2> HIDE DEF old
  <2>1. QED
    BY <1>1, <1>2, AppliedRecords
<1>4. Recorded({<<"claim_members", r.claim>>})
  <2> HIDE DEF old
  <2>1. QED
    BY <1>1, AppliedRecords
<1>5. member' = Put(member, m, r)
  BY DEF InsertMember
<1>6. Only(member', member, m)
  BY <1>5, PutRow
<1>7. member'[m] = r
  BY <1>5 DEF Put
<1>8. QED
  BY <1>3, <1>4, <1>6, <1>7 DEF InsertMember, MemberStep, Applied

LEMMA DeleteProfileStep ==
    ASSUME TablesOK, NEW t \in ProfileTables, NEW p, DeleteProfile(t, p)
    PROVE  ProfileStep(t, p)
<1>1. Recorded({<<"member_player", p>>})
  BY AppliedRecords DEF DeleteProfile
<1>2. profile'[t] = Drop(profile[t], p)
        /\ \A s \in ProfileTables : s # t => profile'[s] = profile[s]
  BY DEF DeleteProfile, TablesOK
<1>3. Only(profile'[t], profile[t], p)
  BY <1>2, DropRow
<1>4. QED
  BY <1>1, <1>2, <1>3 DEF DeleteProfile, ProfileStep, Applied

LEMMA InsertProfileStep ==
    ASSUME TablesOK, NEW t \in ProfileTables, NEW p, NEW r, InsertProfile(t, p, r)
    PROVE  ProfileStep(t, p)
<1>1. Recorded({<<"member_player", p>>})
  BY AppliedRecords DEF InsertProfile
<1>2. profile'[t] = Put(profile[t], p, r)
        /\ \A s \in ProfileTables : s # t => profile'[s] = profile[s]
  BY DEF InsertProfile, TablesOK
<1>3. Only(profile'[t], profile[t], p)
  BY <1>2, PutRow
<1>4. QED
  BY <1>1, <1>2, <1>3 DEF InsertProfile, ProfileStep, Applied

\* Every step changes one row of one table.
LEMMA Steps ==
    ASSUME TablesOK, Next
    PROVE  \/ \E b : BuildingStep(b) \/ NicknameStep(b) \/ LocationStep(b)
           \/ \E x : NameStep(x)
           \/ \E n : NetworkStep(n)
           \/ \E p : HousingStep(p)
           \/ \E i : InventoryStep(i)
           \/ \E d : DeployableStep(d)
           \/ \E t \in CraftTables : \E k : CraftStep(t, k)
           \/ \E k : PublicStep(k)
           \/ \E m : MemberStep(m)
           \/ \E t \in ProfileTables : \E p : ProfileStep(t, p)
<1>1. CASE Delete
  BY <1>1, DeleteBuildingStep, NicknameSteps, NameSteps, DeleteLocationStep,
     DeleteNetworkStep, DeleteHousingStep, DeleteInventoryStep, DeleteDeployableStep,
     DeleteCraftStep, DeletePublicStep, DeleteMemberStep, DeleteProfileStep DEF Delete
<1>2. CASE Insert
  BY <1>2, InsertBuildingStep, NicknameSteps, NameSteps, InsertLocationStep,
     InsertNetworkStep, InsertHousingStep, InsertInventoryStep, InsertDeployableStep,
     InsertCraftStep, InsertPublicStep, InsertMemberStep, InsertProfileStep DEF Insert
<1>3. QED
  BY <1>1, <1>2 DEF Next

-----------------------------------------------------------------------------
(* Types.                                                                  *)

LEMMA TouchedTyped ==
    ASSUME NEW table, NEW k, NEW T \in SUBSET Touchable, Applied(table, k, T)
    PROVE  touched' \subseteq Touchable
  BY DEF Applied

LEMMA TypeOKIs ==
    TypeOK <=> TablesOK /\ index \subseteq Players \X Claims /\ touched \subseteq Touchable
  BY FlushNamed DEF TypeOK

LEMMA LandTyped ==
    ASSUME TablesOK, UNCHANGED <<bags, work, member, profile>>,
           Table(building', Buildings, BuildingRow),
           nickname' \subseteq Buildings, named' \subseteq Players \cup Claims,
           Table(location', Buildings, Dims \cup {Overworld}),
           Table(network', Networks, NetworkRow),
           Table(housing', Players, HousingRow)
    PROVE  TablesOK'
  BY DEF TablesOK, bags, work

LEMMA TypedPrimed ==
    (TypeOK <=> TablesOK /\ index \subseteq Players \X Claims /\ touched \subseteq Touchable)'
  BY TypeOKIs, PTL

LEMMA TypedNext ==
    ASSUME TablesOK', index' \subseteq Players \X Claims, touched' \subseteq Touchable
    PROVE  TypeOK'
  BY TypedPrimed

LEMMA BuildingTyped ==
    ASSUME TypeOK, NEW b \in Buildings, NEW r,
           DeleteBuilding(b) \/ (r \in BuildingRow /\ InsertBuilding(b, r))
    PROVE  TypeOK'
<1>1. TablesOK /\ index \subseteq Players \X Claims
  BY TypeOKIs
<1>2. Table(building, Buildings, BuildingRow)
  BY <1>1 DEF TablesOK
<1>3. Table(building', Buildings, BuildingRow)
  BY <1>2, PutTyped, DropTyped DEF DeleteBuilding, InsertBuilding
<1>4. TablesOK'
  BY <1>1, <1>3, LandTyped DEF DeleteBuilding, InsertBuilding, TablesOK, people
<1>5. CASE DeleteBuilding(b)
  <2>1. building[b].claim \in Claims \cup {NoId}
    BY <1>2, <1>5 DEF DeleteBuilding, Table, BuildingRow
  <2>2. TouchBuilding(b, building[b].claim) \in SUBSET Touchable
    BY <1>1, <2>1, BuildingTouchable
  <2>3. touched' \subseteq Touchable
    BY <1>1, <1>5, <2>2, TouchedTyped DEF DeleteBuilding
  <2>4. QED
    BY <1>1, <1>4, <1>5, <2>3, TypedNext DEF DeleteBuilding, people
<1>6. CASE r \in BuildingRow /\ InsertBuilding(b, r)
  <2>1. TouchBuilding(b, r.claim) \in SUBSET Touchable
    BY <1>1, <1>6, BuildingTouchable DEF BuildingRow
  <2>2. touched' \subseteq Touchable
    BY <1>1, <1>6, <2>1, TouchedTyped DEF InsertBuilding
  <2>3. QED
    BY <1>1, <1>4, <1>6, <2>2, TypedNext DEF InsertBuilding, people
<1>7. QED
  BY <1>5, <1>6

LEMMA LabelTyped ==
    ASSUME TypeOK, NEW b, NEW x,
           \/ b \in Buildings /\ (DeleteNickname(b) \/ InsertNickname(b))
           \/ x \in Players \cup Claims /\ (DeleteName(x) \/ InsertName(x))
    PROVE  TypeOK'
<1>1. TablesOK /\ index \subseteq Players \X Claims
  BY TypeOKIs
<1>2. TablesOK'
  BY <1>1, LandTyped DEF DeleteNickname, InsertNickname, DeleteName, InsertName, TablesOK, people
<1>3. touched' \subseteq Touchable
  <2>1. TouchBuildingEntity(b) \in SUBSET Touchable /\ {} \in SUBSET Touchable
    BY <1>1, EntityTouchable
  <2>2. QED
    BY <1>1, <2>1, TouchedTyped DEF DeleteNickname, InsertNickname, DeleteName, InsertName
<1>4. QED
  BY <1>1, <1>2, <1>3, TypedNext
  DEF DeleteNickname, InsertNickname, DeleteName, InsertName, people

LEMMA LocationTyped ==
    ASSUME TypeOK, NEW b \in Buildings, NEW d,
           DeleteLocation(b) \/ (d \in Dims \cup {Overworld} /\ InsertLocation(b, d))
    PROVE  TypeOK'
<1>1. TablesOK /\ index \subseteq Players \X Claims
  BY TypeOKIs
<1>2. Table(location, Buildings, Dims \cup {Overworld})
  BY <1>1 DEF TablesOK
<1>3. Table(location', Buildings, Dims \cup {Overworld})
  BY <1>2, PutTyped, DropTyped DEF DeleteLocation, InsertLocation
<1>4. TablesOK'
  BY <1>1, <1>3, LandTyped DEF DeleteLocation, InsertLocation, TablesOK, people
<1>5. touched' \subseteq Touchable
  <2>1. b \in DOMAIN location => location[b] \in Dims \cup {Overworld}
    BY <1>2 DEF Table
  <2>2. QED
    BY <1>1, <2>1, LocationTouchable, TouchedTyped DEF DeleteLocation, InsertLocation
<1>6. QED
  BY <1>1, <1>4, <1>5, TypedNext DEF DeleteLocation, InsertLocation, people

LEMMA NetworkTyped ==
    ASSUME TypeOK, NEW n \in Networks, NEW r,
           DeleteNetwork(n) \/ (r \in NetworkRow /\ InsertNetwork(n, r))
    PROVE  TypeOK'
<1>1. TablesOK /\ index \subseteq Players \X Claims
  BY TypeOKIs
<1>2. Table(network', Networks, NetworkRow)
  BY <1>1, PutTyped, DropTyped DEF DeleteNetwork, InsertNetwork, TablesOK
<1>3. TablesOK'
  BY <1>1, <1>2, LandTyped DEF DeleteNetwork, InsertNetwork, TablesOK, people
<1>4. touched' \subseteq Touchable
  BY <1>1, NetworkTouchable, TouchedTyped DEF DeleteNetwork, InsertNetwork
<1>5. QED
  BY <1>1, <1>3, <1>4, TypedNext DEF DeleteNetwork, InsertNetwork, people

LEMMA HousingTyped ==
    ASSUME TypeOK, NEW p \in Players, NEW r,
           DeleteHousing(p) \/ (r \in HousingRow /\ InsertHousing(p, r))
    PROVE  TypeOK'
<1>1. TablesOK /\ index \subseteq Players \X Claims
  BY TypeOKIs
<1>2. Table(housing', Players, HousingRow)
  BY <1>1, PutTyped, DropTyped DEF DeleteHousing, InsertHousing, TablesOK
<1>3. TablesOK'
  BY <1>1, <1>2, LandTyped DEF DeleteHousing, InsertHousing, TablesOK, people
<1>4. touched' \subseteq Touchable
  <2>1. {<<"player_housing", p>>} \in SUBSET Touchable
    BY DEF Touchable, OwnerIds
  <2>2. QED
    BY <1>1, <2>1, TouchedTyped DEF DeleteHousing, InsertHousing
<1>5. QED
  BY <1>1, <1>3, <1>4, TypedNext DEF DeleteHousing, InsertHousing, people

LEMMA BagsTyped ==
    ASSUME TablesOK, UNCHANGED <<land, work, member, profile>>,
           Table(inventory', Bags, BagRow), Table(deployable', Deployables, Players)
    PROVE  TablesOK'
  BY DEF TablesOK, land, work

LEMMA InventoryTyped ==
    ASSUME TypeOK, NEW i \in Bags, NEW r,
           DeleteInventory(i) \/ (r \in BagRow /\ InsertInventory(i, r))
    PROVE  TypeOK'
<1>1. TablesOK /\ index \subseteq Players \X Claims
  BY TypeOKIs
<1>2. Table(inventory, Bags, BagRow)
  BY <1>1 DEF TablesOK
<1>3. Table(inventory', Bags, BagRow)
  BY <1>2, PutTyped, DropTyped DEF DeleteInventory, InsertInventory
<1>4. TablesOK'
  BY <1>1, <1>3, BagsTyped DEF DeleteInventory, InsertInventory, TablesOK, people
<1>5. touched' \subseteq Touchable
  <2>1. i \in DOMAIN inventory => inventory[i] \in BagRow
    BY <1>2 DEF Table
  <2>2. QED
    BY <1>1, <2>1, InventoryTouchable, TouchedTyped DEF DeleteInventory, InsertInventory
<1>6. QED
  BY <1>1, <1>4, <1>5, TypedNext DEF DeleteInventory, InsertInventory, people

LEMMA DeployableTyped ==
    ASSUME TypeOK, NEW d \in Deployables, NEW p,
           DeleteDeployable(d) \/ (p \in Players /\ InsertDeployable(d, p))
    PROVE  TypeOK'
<1>1. TablesOK /\ index \subseteq Players \X Claims
  BY TypeOKIs
<1>2. Table(deployable, Deployables, Players)
  BY <1>1 DEF TablesOK
<1>3. Table(deployable', Deployables, Players)
  BY <1>2, PutTyped, DropTyped DEF DeleteDeployable, InsertDeployable
<1>4. TablesOK'
  BY <1>1, <1>3, BagsTyped DEF DeleteDeployable, InsertDeployable, TablesOK, people
<1>5. \A e \in DOMAIN deployable : deployable[e] \in Players
  BY <1>2 DEF Table
<1>6. \A q \in Players : <<"player_inv", q>> \in Touchable
  BY DEF Touchable, OwnerIds
<1>7. touched' \subseteq Touchable
  <2>1. CASE DeleteDeployable(d)
    <3>1. {<<"player_inv", deployable[d]>>} \in SUBSET Touchable
      BY <1>5, <1>6, <2>1 DEF DeleteDeployable
    <3>2. QED
      BY <1>1, <2>1, <3>1, TouchedTyped DEF DeleteDeployable
  <2>2. CASE p \in Players /\ InsertDeployable(d, p)
    <3> DEFINE old == {<<"player_inv", deployable[e]>> : e \in {d} \cap DOMAIN deployable}
    <3>1. {<<"player_inv", p>>} \cup old \in SUBSET Touchable
      BY <1>5, <1>6, <2>2
    <3>2. Applied("deployable", d, {<<"player_inv", p>>} \cup old)
      BY <2>2 DEF InsertDeployable
    <3>3. QED
      <4> HIDE DEF old
      <4>1. QED
        BY <1>1, <3>1, <3>2, TouchedTyped
  <2>3. QED
    BY <2>1, <2>2
<1>8. QED
  BY <1>1, <1>4, <1>7, TypedNext DEF DeleteDeployable, InsertDeployable, people

LEMMA CraftTyped ==
    ASSUME TypeOK, NEW t \in CraftTables, NEW k \in Crafts, NEW r,
           DeleteCraft(t, k) \/ (r \in CraftRow /\ InsertCraft(t, k, r))
    PROVE  TypeOK'
<1>1. TablesOK /\ index \subseteq Players \X Claims
  BY TypeOKIs
<1>2. Table(crafts[t], Crafts, CraftRow)
  BY <1>1 DEF TablesOK
<1>3. DOMAIN crafts' = CraftTables
        /\ \A s \in CraftTables : s # t => crafts'[s] = crafts[s]
  BY <1>1 DEF DeleteCraft, InsertCraft, TablesOK
<1>4. Table(crafts'[t], Crafts, CraftRow)
  <2>1. CASE DeleteCraft(t, k)
    <3>1. crafts'[t] = Drop(crafts[t], k)
      BY <1>1, <2>1 DEF DeleteCraft, TablesOK
    <3>2. QED
      BY <1>2, <3>1, DropTyped
  <2>2. CASE r \in CraftRow /\ InsertCraft(t, k, r)
    <3>1. crafts'[t] = Put(crafts[t], k, r)
      BY <1>1, <2>2 DEF InsertCraft, TablesOK
    <3>2. QED
      BY <1>2, <2>2, <3>1, PutTyped
  <2>3. QED
    BY <2>1, <2>2
<1>5. \A s \in CraftTables : Table(crafts'[s], Crafts, CraftRow)
  <2> TAKE s \in CraftTables
  <2>1. CASE s = t
    BY <1>4, <2>1
  <2>2. CASE s # t
    BY <1>1, <1>3, <2>2 DEF TablesOK
  <2>3. QED
    BY <2>1, <2>2
<1>6. TablesOK'
  BY <1>1, <1>3, <1>5 DEF DeleteCraft, InsertCraft, TablesOK, land, bags, people
<1>7. \A j \in DOMAIN crafts[t] : crafts[t][j] \in CraftRow
  BY <1>2 DEF Table
<1>8. touched' \subseteq Touchable
  <2>1. CASE DeleteCraft(t, k)
    BY <1>1, <1>7, <2>1, CraftTouchable, TouchedTyped DEF DeleteCraft
  <2>2. CASE r \in CraftRow /\ InsertCraft(t, k, r)
    <3> DEFINE old == UNION {TouchCraft(crafts[t][j]) : j \in {k} \cap DOMAIN crafts[t]}
    <3>1. TouchCraft(r) \cup old \in SUBSET Touchable
      BY <1>1, <1>7, <2>2, CraftTouchable
    <3>2. Applied(t, k, TouchCraft(r) \cup old)
      BY <2>2 DEF InsertCraft
    <3>3. QED
      <4> HIDE DEF old
      <4>1. QED
        BY <1>1, <3>1, <3>2, TouchedTyped
  <2>3. QED
    BY <2>1, <2>2
<1>9. QED
  BY <1>1, <1>6, <1>8, TypedNext DEF DeleteCraft, InsertCraft, people

LEMMA PublicTyped ==
    ASSUME TypeOK, NEW k \in Crafts, NEW r,
           DeletePublic(k) \/ (r \in CraftRow /\ InsertPublic(k, r))
    PROVE  TypeOK'
<1>1. TablesOK /\ index \subseteq Players \X Claims
  BY TypeOKIs
<1>2. Table(public, Crafts, CraftRow)
  BY <1>1 DEF TablesOK
<1>3. Table(public', Crafts, CraftRow)
  BY <1>2, PutTyped, DropTyped DEF DeletePublic, InsertPublic
<1>4. TablesOK'
  BY <1>1, <1>3 DEF DeletePublic, InsertPublic, TablesOK, land, bags, people
<1>5. touched' \subseteq Touchable
  <2>1. k \in DOMAIN public => public[k] \in CraftRow
    BY <1>2 DEF Table
  <2>2. QED
    BY <1>1, <2>1, CraftTouchable, TouchedTyped DEF DeletePublic, InsertPublic
<1>6. QED
  BY <1>1, <1>4, <1>5, TypedNext DEF DeletePublic, InsertPublic, people

LEMMA MemberTyped ==
    ASSUME TypeOK, NEW m \in MemberRows, NEW r,
           DeleteMember(m) \/ (r \in MemberRow /\ InsertMember(m, r))
    PROVE  TypeOK'
<1>1. TablesOK /\ index \subseteq Players \X Claims
  BY TypeOKIs
<1>2. Table(member, MemberRows, MemberRow)
  BY <1>1 DEF TablesOK
<1>3. Table(member', MemberRows, MemberRow)
  BY <1>2, PutTyped, DropTyped DEF DeleteMember, InsertMember
<1>4. TablesOK'
  BY <1>1, <1>3 DEF DeleteMember, InsertMember, TablesOK, land, bags, work
<1>5. index' \subseteq Players \X Claims
  BY <1>1 DEF DeleteMember, InsertMember, MemberRow
<1>6. \A j \in DOMAIN member : member[j].claim \in Claims
  BY <1>2 DEF Table, MemberRow
<1>7. \A c \in Claims : <<"claim_members", c>> \in Touchable
  BY DEF Touchable
<1>8. touched' \subseteq Touchable
  <2>1. CASE DeleteMember(m)
    <3>1. {<<"claim_members", member[m].claim>>} \in SUBSET Touchable
      BY <1>6, <1>7, <2>1 DEF DeleteMember
    <3>2. QED
      BY <1>1, <2>1, <3>1, TouchedTyped DEF DeleteMember
  <2>2. CASE r \in MemberRow /\ InsertMember(m, r)
    <3> DEFINE old == {<<"claim_members", member[j].claim>> : j \in {m} \cap DOMAIN member}
    <3>1. {<<"claim_members", r.claim>>} \cup old \in SUBSET Touchable
      BY <1>6, <1>7, <2>2 DEF MemberRow
    <3>2. Applied("member", m, {<<"claim_members", r.claim>>} \cup old)
      BY <2>2 DEF InsertMember
    <3>3. QED
      <4> HIDE DEF old
      <4>1. QED
        BY <1>1, <3>1, <3>2, TouchedTyped
  <2>3. QED
    BY <2>1, <2>2
<1>9. QED
  BY <1>4, <1>5, <1>8, TypedNext

LEMMA ProfileTyped ==
    ASSUME TypeOK, NEW t \in ProfileTables, NEW p \in Players, NEW r,
           DeleteProfile(t, p) \/ (r \in Stamps /\ InsertProfile(t, p, r))
    PROVE  TypeOK'
<1>1. TablesOK /\ index \subseteq Players \X Claims
  BY TypeOKIs
<1>2. Table(profile[t], Players, Stamps)
  BY <1>1 DEF TablesOK
<1>3. DOMAIN profile' = ProfileTables
        /\ \A s \in ProfileTables : s # t => profile'[s] = profile[s]
  BY <1>1 DEF DeleteProfile, InsertProfile, TablesOK
<1>4. Table(profile'[t], Players, Stamps)
  <2>1. CASE DeleteProfile(t, p)
    <3>1. profile'[t] = Drop(profile[t], p)
      BY <1>1, <2>1 DEF DeleteProfile, TablesOK
    <3>2. QED
      BY <1>2, <3>1, DropTyped
  <2>2. CASE r \in Stamps /\ InsertProfile(t, p, r)
    <3>1. profile'[t] = Put(profile[t], p, r)
      BY <1>1, <2>2 DEF InsertProfile, TablesOK
    <3>2. QED
      BY <1>2, <2>2, <3>1, PutTyped
  <2>3. QED
    BY <2>1, <2>2
<1>5. \A s \in ProfileTables : Table(profile'[s], Players, Stamps)
  <2> TAKE s \in ProfileTables
  <2>1. CASE s = t
    BY <1>4, <2>1
  <2>2. CASE s # t
    BY <1>1, <1>3, <2>2 DEF TablesOK
  <2>3. QED
    BY <2>1, <2>2
<1>6. TablesOK'
  BY <1>1, <1>3, <1>5 DEF DeleteProfile, InsertProfile, TablesOK, land, bags, work
<1>7. touched' \subseteq Touchable
  <2>1. {<<"member_player", p>>} \in SUBSET Touchable
    BY DEF Touchable, OwnerIds
  <2>2. QED
    BY <1>1, <2>1, TouchedTyped DEF DeleteProfile, InsertProfile
<1>8. QED
  BY <1>1, <1>6, <1>7, TypedNext DEF DeleteProfile, InsertProfile

\* Every row applied keeps the types.
LEMMA TypedSteps ==
    ASSUME TypeOK, Next
    PROVE  TypeOK'
<1>1. CASE Delete
  <2>1. CASE \E b \in Buildings : DeleteBuilding(b) \/ DeleteNickname(b) \/ DeleteLocation(b)
    BY <2>1, BuildingTyped, LabelTyped, LocationTyped
  <2>2. CASE \E x \in Players \cup Claims : DeleteName(x)
    BY <2>2, LabelTyped
  <2>3. CASE \E n \in Networks : DeleteNetwork(n)
    BY <2>3, NetworkTyped
  <2>4. CASE \E p \in Players : DeleteHousing(p) \/ \E t \in ProfileTables : DeleteProfile(t, p)
    BY <2>4, HousingTyped, ProfileTyped
  <2>5. CASE \E i \in Bags : DeleteInventory(i)
    BY <2>5, InventoryTyped
  <2>6. CASE \E d \in Deployables : DeleteDeployable(d)
    BY <2>6, DeployableTyped
  <2>7. CASE \E k \in Crafts : DeletePublic(k) \/ \E t \in CraftTables : DeleteCraft(t, k)
    BY <2>7, CraftTyped, PublicTyped
  <2>8. CASE \E m \in MemberRows : DeleteMember(m)
    BY <2>8, MemberTyped
  <2>9. QED
    BY <1>1, <2>1, <2>2, <2>3, <2>4, <2>5, <2>6, <2>7, <2>8 DEF Delete
<1>2. CASE Insert
  <2>1. ASSUME NEW b \in Buildings,
               \/ \E r \in BuildingRow : InsertBuilding(b, r)
               \/ InsertNickname(b)
               \/ \E d \in Dims \cup {Overworld} : InsertLocation(b, d)
        PROVE  TypeOK'
    BY <2>1, BuildingTyped, LabelTyped, LocationTyped
  <2>2. CASE \E x \in Players \cup Claims : InsertName(x)
    BY <2>2, LabelTyped
  <2>3. CASE \E n \in Networks, r \in NetworkRow : InsertNetwork(n, r)
    BY <2>3, NetworkTyped
  <2>4. ASSUME NEW p \in Players,
               \/ \E r \in HousingRow : InsertHousing(p, r)
               \/ \E t \in ProfileTables, r \in Stamps : InsertProfile(t, p, r)
        PROVE  TypeOK'
    BY <2>4, HousingTyped, ProfileTyped
  <2>5. CASE \E i \in Bags, r \in BagRow : InsertInventory(i, r)
    BY <2>5, InventoryTyped
  <2>6. CASE \E d \in Deployables, p \in Players : InsertDeployable(d, p)
    BY <2>6, DeployableTyped
  <2>7. CASE \E k \in Crafts, r \in CraftRow :
            InsertPublic(k, r) \/ \E t \in CraftTables : InsertCraft(t, k, r)
    BY <2>7, CraftTyped, PublicTyped
  <2>8. CASE \E m \in MemberRows, r \in MemberRow : InsertMember(m, r)
    BY <2>8, MemberTyped
  <2>9. QED
    BY <1>2, <2>1, <2>2, <2>3, <2>4, <2>5, <2>6, <2>7, <2>8 DEF Insert
<1>3. QED
  BY <1>1, <1>2 DEF Next

-----------------------------------------------------------------------------
(* What the mirror keeps between rows of different tables.                 *)

\* A public row repeats its craft.
PublicRepeats ==
    \A k \in DOMAIN public \cap DOMAIN crafts["progressive_action"] :
        public[k] = crafts["progressive_action"][k]

\* The index lists the claims of every member, and no two rows agree.
MembersIndexed ==
    /\ \A m \in DOMAIN member : <<member[m].player, member[m].claim>> \in index
    /\ \A m, n \in DOMAIN member : member[m] = member[n] => m = n

WInv == TypeOK /\ PublicRepeats /\ MembersIndexed

LEMMA PublicSteps ==
    ASSUME WInv, Next
    PROVE  PublicRepeats'
<1> DEFINE pa == "progressive_action"
<1>1. TablesOK /\ DOMAIN crafts = CraftTables
  BY TypeOKIs DEF WInv, TablesOK
<1>2. ASSUME NEW t \in CraftTables, NEW k, DeleteCraft(t, k)
      PROVE  PublicRepeats'
  <2>1. DOMAIN crafts'[pa] \subseteq DOMAIN crafts[pa]
          /\ \A j \in DOMAIN crafts'[pa] : crafts'[pa][j] = crafts[pa][j]
    BY <1>1, <1>2 DEF DeleteCraft, Drop, CraftTables
  <2>2. QED
    BY <1>2, <2>1 DEF DeleteCraft, PublicRepeats, WInv
<1>3. ASSUME NEW t \in CraftTables, NEW k, NEW r, InsertCraft(t, k, r)
      PROVE  PublicRepeats'
  <2>1. CASE t = pa
    <3>1. crafts'[pa] = Put(crafts[pa], k, r)
      BY <1>1, <1>3, <2>1 DEF InsertCraft, CraftTables
    <3>2. \A j \in DOMAIN crafts'[pa] :
              IF j = k THEN crafts'[pa][j] = r
              ELSE j \in DOMAIN crafts[pa] /\ crafts'[pa][j] = crafts[pa][j]
      BY <3>1 DEF Put
    <3>3. QED
      BY <1>3, <2>1, <3>2 DEF InsertCraft, PublicRepeats, WInv
  <2>2. CASE t # pa
    <3>1. crafts'[pa] = crafts[pa]
      BY <1>1, <1>3, <2>2 DEF InsertCraft, CraftTables
    <3>2. QED
      BY <1>3, <3>1 DEF InsertCraft, PublicRepeats, WInv
  <2>3. QED
    BY <2>1, <2>2
<1>4. ASSUME NEW k, DeletePublic(k)
      PROVE  PublicRepeats'
  BY <1>4 DEF DeletePublic, Drop, PublicRepeats, WInv
<1>5. ASSUME NEW k, NEW r, InsertPublic(k, r)
      PROVE  PublicRepeats'
  BY <1>5 DEF InsertPublic, Put, PublicRepeats, WInv
<1>6. CASE UNCHANGED work
  BY <1>6 DEF work, PublicRepeats, WInv
<1>7. CASE Delete
  BY <1>2, <1>4, <1>6, <1>7
  DEF Delete, DeleteBuilding, DeleteNickname, DeleteLocation, DeleteName, DeleteNetwork,
      DeleteHousing, DeleteProfile, DeleteInventory, DeleteDeployable, DeleteMember
<1>8. CASE Insert
  BY <1>3, <1>5, <1>6, <1>8
  DEF Insert, InsertBuilding, InsertNickname, InsertLocation, InsertName, InsertNetwork,
      InsertHousing, InsertProfile, InsertInventory, InsertDeployable, InsertMember
<1>9. QED
  BY <1>7, <1>8 DEF Next

LEMMA MemberSteps ==
    ASSUME WInv, Next
    PROVE  MembersIndexed'
<1>1. \A j \in DOMAIN member : member[j] \in MemberRow
  BY DEF WInv, TypeOK, TablesOK, Table
<1>2. \A r \in MemberRow, s \in MemberRow :
          r.player = s.player /\ r.claim = s.claim => r = s
  BY DEF MemberRow
<1>3. ASSUME NEW m \in MemberRows, DeleteMember(m)
      PROVE  MembersIndexed'
  <2>1. DOMAIN member' = DOMAIN member \ {m} /\ \A j \in DOMAIN member' : member'[j] = member[j]
    BY <1>3 DEF DeleteMember, Drop
  <2>2. \A j \in DOMAIN member' :
            <<member[j].player, member[j].claim>> # <<member[m].player, member[m].claim>>
    BY <1>1, <1>2, <1>3, <2>1 DEF DeleteMember, WInv, MembersIndexed
  <2>3. index' = index \ {<<member[m].player, member[m].claim>>}
    BY <1>3 DEF DeleteMember
  <2>4. \A j \in DOMAIN member' : <<member[j].player, member[j].claim>> \in index'
    BY <2>1, <2>2, <2>3 DEF WInv, MembersIndexed
  <2>5. QED
    BY <2>1, <2>4 DEF WInv, MembersIndexed
<1>4. ASSUME NEW m \in MemberRows, NEW r \in MemberRow, InsertMember(m, r)
      PROVE  MembersIndexed'
  <2> DEFINE forgotten == {<<member[j].player, member[j].claim>> : j \in {m} \cap DOMAIN member}
  <2>1. index' = (index \ forgotten) \cup {<<r.player, r.claim>>}
    BY <1>4 DEF InsertMember
  <2>2. DOMAIN member' = DOMAIN member \cup {m} /\ member'[m] = r
          /\ \A j \in DOMAIN member \ {m} : member'[j] = member[j]
    BY <1>4 DEF InsertMember, Put
  <2>3. \A j \in DOMAIN member \ {m} : <<member[j].player, member[j].claim>> \notin forgotten
    BY <1>1, <1>2 DEF WInv, MembersIndexed
  <2>4. \A j \in DOMAIN member \ {m} : <<member[j].player, member[j].claim>> \in index'
    <3> HIDE DEF forgotten
    <3>1. QED
      BY <2>1, <2>3 DEF WInv, MembersIndexed
  <2>5. <<r.player, r.claim>> \in index'
    BY <2>1
  <2>6. \A j \in DOMAIN member' : <<member'[j].player, member'[j].claim>> \in index'
    <3> HIDE DEF forgotten
    <3> TAKE j \in DOMAIN member'
    <3>1. CASE j = m
      BY <2>2, <2>5, <3>1
    <3>2. CASE j # m
      BY <2>2, <2>4, <3>2
    <3>3. QED
      BY <3>1, <3>2
  <2>7. \A j \in DOMAIN member \ {m} : member[j] # r
    BY <1>4 DEF InsertMember
  <2>8. \A j, n \in DOMAIN member' : member'[j] = member'[n] => j = n
    <3> HIDE DEF forgotten
    <3>1. QED
      BY <2>2, <2>7 DEF WInv, MembersIndexed
  <2>9. QED
    BY <2>6, <2>8 DEF MembersIndexed
<1>5. CASE UNCHANGED <<member, index>>
  BY <1>5 DEF MembersIndexed, WInv
<1>6. CASE Delete
  BY <1>3, <1>5, <1>6
  DEF Delete, DeleteBuilding, DeleteNickname, DeleteLocation, DeleteName, DeleteNetwork,
      DeleteHousing, DeleteProfile, DeleteInventory, DeleteDeployable, DeleteCraft,
      DeletePublic, people
<1>7. CASE Insert
  BY <1>4, <1>5, <1>7
  DEF Insert, InsertBuilding, InsertNickname, InsertLocation, InsertName, InsertNetwork,
      InsertHousing, InsertProfile, InsertInventory, InsertDeployable, InsertCraft,
      InsertPublic, people
<1>8. QED
  BY <1>6, <1>7 DEF Next

LEMMA EmptyTyped ==
    ASSUME NEW K, NEW R
    PROVE  Table(<<>>, K, R)
  BY DEF Table

LEMMA WInvInit == Init => WInv
<1> SUFFICES ASSUME Init
             PROVE  WInv
  OBVIOUS
<1>1. \A t \in CraftTables : Table(crafts[t], Crafts, CraftRow)
  BY EmptyTyped DEF Init
<1>2. \A t \in ProfileTables : Table(profile[t], Players, Stamps)
  BY EmptyTyped DEF Init
<1>3. TablesOK
  BY <1>1, <1>2, EmptyTyped DEF Init, TablesOK
<1>4. TypeOK
  BY <1>3, TypeOKIs DEF Init
<1>5. PublicRepeats /\ MembersIndexed
  BY DEF Init, PublicRepeats, MembersIndexed
<1>6. QED
  BY <1>4, <1>5 DEF WInv

LEMMA WInvStays == WInv /\ [Next]_vars => WInv'
<1>1. ASSUME WInv, Next
      PROVE  WInv'
  BY <1>1, TypedSteps, PublicSteps, MemberSteps DEF WInv
<1>2. ASSUME WInv, UNCHANGED vars
      PROVE  WInv'
  <2>1. TablesOK /\ index \subseteq Players \X Claims /\ touched \subseteq Touchable
    BY <1>2, TypeOKIs DEF WInv
  <2>2. TypeOK'
    BY <1>2, <2>1, TypedNext DEF TablesOK, vars, land, bags, work, people
  <2>3. QED
    BY <1>2, <2>2 DEF WInv, PublicRepeats, MembersIndexed, vars, land, bags, work, people
<1>3. QED
  BY <1>1, <1>2

LEMMA WInvHolds == Spec => []WInv
<1>1. QED
  BY WInvInit, WInvStays, PTL DEF Spec

\* The tables, the index and the notified keys keep their types whatever rows
\* apply_rows applies.
THEOREM TypeCorrect == Spec => []TypeOK
<1>1. WInv => TypeOK
  BY DEF WInv
<1>2. QED
  BY WInvHolds, <1>1, PTL

\* player_inventory_slots offers classify_player_bag every bag it would accept.
THEOREM CandidatesHold == Spec => []CandidatesComplete
<1>1. CandidatesComplete
  BY Offered DEF CandidatesComplete
<1>2. QED
  BY <1>1, PTL

-----------------------------------------------------------------------------
(* Crafts.                                                                 *)

LEMMA RecordedWakes ==
    ASSUME NEW topic, NEW id, NEW T, Recorded(T), <<topic, id>> \in T,
           topic # "member_player", id # NoId
    PROVE  Woken(topic, id)
  BY Flushed DEF Recorded

LEMMA ClaimCraftsSame ==
    ASSUME NEW c,
           \A t \in CraftTables :
              /\ CraftsAt(t, c)' = CraftsAt(t, c)
              /\ \A k \in CraftsAt(t, c) : Craft(t, k)' = Craft(t, k)
    PROVE  ClaimCrafts(c)' = ClaimCrafts(c)
  BY DEF ClaimCrafts

LEMMA PlayerCraftsSame ==
    ASSUME NEW p,
           \A t \in CraftTables :
              /\ CraftsBy(t, p)' = CraftsBy(t, p)
              /\ \A k \in CraftsBy(t, p) : Craft(t, k)' = Craft(t, k)
    PROVE  PlayerCrafts(p)' = PlayerCrafts(p)
  BY DEF PlayerCrafts

\* Rows of tables the crafts do not read.
LEMMA CraftsFrame ==
    ASSUME UNCHANGED <<building, named, work>>, NEW c, NEW p
    PROVE  ClaimCrafts(c)' = ClaimCrafts(c) /\ PlayerCrafts(p)' = PlayerCrafts(p)
  BY DEF ClaimCrafts, PlayerCrafts, CraftsAt, CraftsBy, Craft, ClaimOf, work

LEMMA CraftsOfBuildingStep ==
    ASSUME NEW b, BuildingStep(b), NEW c \in Claims, ~Woken("claim_crafts", c)
    PROVE  ClaimCrafts(c)' = ClaimCrafts(c)
<1>1. c # NoId
  BY AnswersAssumption
<1>2. b \in DOMAIN building => building[b].claim # c
  <2> SUFFICES ASSUME b \in DOMAIN building, building[b].claim = c
               PROVE  FALSE
    OBVIOUS
  <2>1. <<"claim_crafts", c>> \in TouchBuilding(b, building[b].claim)
    BY DEF TouchBuilding
  <2>2. QED
    BY <1>1, <2>1, RecordedWakes DEF BuildingStep
<1>3. b \in DOMAIN building' => building'[b].claim # c
  <2> SUFFICES ASSUME b \in DOMAIN building', building'[b].claim = c
               PROVE  FALSE
    OBVIOUS
  <2>1. <<"claim_crafts", c>> \in TouchBuilding(b, building'[b].claim)
    BY DEF TouchBuilding
  <2>2. QED
    BY <1>1, <2>1, RecordedWakes DEF BuildingStep
<1>4. ClaimOf(b) # c /\ ClaimOf(b)' # c
  BY <1>1, <1>2, <1>3 DEF ClaimOf
<1>5. \A x : x # b => (x \in DOMAIN building' <=> x \in DOMAIN building)
                        /\ (x \in DOMAIN building => building'[x] = building[x])
                        /\ ClaimOf(x)' = ClaimOf(x)
  BY DEF BuildingStep, Only, ClaimOf
<1>6. crafts' = crafts /\ public' = public /\ named' = named
  BY DEF BuildingStep, work
<1>7. ASSUME NEW t \in CraftTables
      PROVE  /\ CraftsAt(t, c)' = CraftsAt(t, c)
             /\ \A k \in CraftsAt(t, c) : Craft(t, k)' = Craft(t, k)
  <2>1. \A x : ClaimOf(x)' = c <=> ClaimOf(x) = c
    BY <1>4, <1>5
  <2>2. CraftsAt(t, c)' = CraftsAt(t, c)
    BY <1>6, <2>1 DEF CraftsAt
  <2>3. ASSUME NEW k \in CraftsAt(t, c)
        PROVE  Craft(t, k)' = Craft(t, k)
    <3>1. crafts[t][k].building # b
      BY <1>4 DEF CraftsAt
    <3>2. QED
      BY <1>5, <1>6, <3>1 DEF Craft
  <2>4. QED
    BY <2>2, <2>3
<1>8. QED
  BY <1>7, ClaimCraftsSame

\* A craft row that leaves every woken claim and player out leaves theirs.
LEMMA CraftTouches ==
    ASSUME NEW r, Recorded(TouchCraft(r))
    PROVE  /\ \A c \in Claims : ClaimOf(r.building) = c => Woken("claim_crafts", c)
           /\ \A p \in Players : r.owner = p => Woken("player_crafts", p)
<1>1. <<"player_crafts", r.owner>> \in TouchCraft(r)
        /\ <<"claim_crafts", ClaimOf(r.building)>> \in TouchCraft(r)
  BY DEF TouchCraft
<1>2. NoId \notin Claims /\ NoId \notin Players
  BY AnswersAssumption
<1>3. QED
  BY <1>1, <1>2, RecordedWakes

LEMMA ClaimsOfCraftStep ==
    ASSUME NEW t \in CraftTables, NEW k, CraftStep(t, k),
           NEW c \in Claims, ~Woken("claim_crafts", c)
    PROVE  ClaimCrafts(c)' = ClaimCrafts(c)
<1>1. building' = building /\ named' = named /\ public' = public
  BY DEF CraftStep, land
<1>2. k \in DOMAIN crafts[t] => ClaimOf(crafts[t][k].building) # c
  BY CraftTouches DEF CraftStep
<1>3. k \in DOMAIN crafts'[t] => ClaimOf(crafts'[t][k].building) # c
  BY CraftTouches DEF CraftStep
<1>4. \A x : ClaimOf(x)' = ClaimOf(x)
  BY <1>1 DEF ClaimOf
<1>5. ASSUME NEW s \in CraftTables
      PROVE  /\ CraftsAt(s, c)' = CraftsAt(s, c)
             /\ \A j \in CraftsAt(s, c) : Craft(s, j)' = Craft(s, j)
  <2>1. CASE s = t
    <3>1. \A j : j # k => (j \in DOMAIN crafts'[t] <=> j \in DOMAIN crafts[t])
                            /\ (j \in DOMAIN crafts[t] => crafts'[t][j] = crafts[t][j])
      BY DEF CraftStep, Only
    <3>2. CraftsAt(t, c)' = {j \in DOMAIN crafts'[t] : ClaimOf(crafts'[t][j].building) = c}
      BY <1>4 DEF CraftsAt
    <3>3. CraftsAt(t, c)' = CraftsAt(t, c)
      BY <1>2, <1>3, <3>1, <3>2 DEF CraftsAt
    <3>4. ASSUME NEW j \in CraftsAt(t, c)
          PROVE  Craft(t, j)' = Craft(t, j)
      <4>1. j # k /\ crafts'[t][j] = crafts[t][j]
        BY <1>2, <3>1 DEF CraftsAt
      <4>2. QED
        BY <1>1, <1>4, <4>1 DEF Craft
    <3>5. QED
      BY <2>1, <3>3, <3>4
  <2>2. CASE s # t
    <3>1. crafts'[s] = crafts[s]
      BY <2>2 DEF CraftStep
    <3>2. QED
      BY <1>1, <1>4, <3>1 DEF CraftsAt, Craft
  <2>3. QED
    BY <2>1, <2>2
<1>6. QED
  BY <1>5, ClaimCraftsSame

LEMMA PlayersOfCraftStep ==
    ASSUME NEW t \in CraftTables, NEW k, CraftStep(t, k),
           NEW p \in Players, ~Woken("player_crafts", p)
    PROVE  PlayerCrafts(p)' = PlayerCrafts(p)
<1>1. building' = building /\ named' = named /\ public' = public
  BY DEF CraftStep, land
<1>2. k \in DOMAIN crafts[t] => crafts[t][k].owner # p
  BY CraftTouches DEF CraftStep
<1>3. k \in DOMAIN crafts'[t] => crafts'[t][k].owner # p
  BY CraftTouches DEF CraftStep
<1>4. \A x : ClaimOf(x)' = ClaimOf(x)
  BY <1>1 DEF ClaimOf
<1>5. ASSUME NEW s \in CraftTables
      PROVE  /\ CraftsBy(s, p)' = CraftsBy(s, p)
             /\ \A j \in CraftsBy(s, p) : Craft(s, j)' = Craft(s, j)
  <2>1. CASE s = t
    <3>1. \A j : j # k => (j \in DOMAIN crafts'[t] <=> j \in DOMAIN crafts[t])
                            /\ (j \in DOMAIN crafts[t] => crafts'[t][j] = crafts[t][j])
      BY DEF CraftStep, Only
    <3>2. CraftsBy(t, p)' = CraftsBy(t, p)
      BY <1>2, <1>3, <3>1 DEF CraftsBy
    <3>3. ASSUME NEW j \in CraftsBy(t, p)
          PROVE  Craft(t, j)' = Craft(t, j)
      <4>1. j # k /\ crafts'[t][j] = crafts[t][j]
        BY <1>2, <3>1 DEF CraftsBy
      <4>2. QED
        BY <1>1, <1>4, <4>1 DEF Craft
    <3>4. QED
      BY <2>1, <3>2, <3>3
  <2>2. CASE s # t
    <3>1. crafts'[s] = crafts[s]
      BY <2>2 DEF CraftStep
    <3>2. QED
      BY <1>1, <1>4, <3>1 DEF CraftsBy, Craft
  <2>3. QED
    BY <2>1, <2>2
<1>6. QED
  BY <1>5, PlayerCraftsSame

\* A public row wakes through the craft it repeats.
LEMMA CraftsOfPublicStep ==
    ASSUME PublicRepeats, PublicRepeats', NEW k, PublicStep(k), NEW c, NEW p
    PROVE  /\ c \in Claims => Woken("claim_crafts", c) \/ ClaimCrafts(c)' = ClaimCrafts(c)
           /\ p \in Players => Woken("player_crafts", p) \/ PlayerCrafts(p)' = PlayerCrafts(p)
<1> DEFINE pa == "progressive_action"
<1>1. building' = building /\ named' = named /\ crafts' = crafts
  BY DEF PublicStep, land
<1>2. \A x : ClaimOf(x)' = ClaimOf(x)
  BY <1>1 DEF ClaimOf
<1>3. \A t \in CraftTables : CraftsAt(t, c)' = CraftsAt(t, c) /\ CraftsBy(t, p)' = CraftsBy(t, p)
  BY <1>1, <1>2 DEF CraftsAt, CraftsBy
<1>4. k \in DOMAIN crafts[pa] /\ k \in DOMAIN public =>
          /\ ClaimOf(crafts[pa][k].building) = c /\ c \in Claims => Woken("claim_crafts", c)
          /\ crafts[pa][k].owner = p /\ p \in Players => Woken("player_crafts", p)
  BY CraftTouches DEF PublicStep, PublicRepeats
<1>5. k \in DOMAIN crafts[pa] /\ k \in DOMAIN public' =>
          /\ ClaimOf(crafts[pa][k].building) = c /\ c \in Claims => Woken("claim_crafts", c)
          /\ crafts[pa][k].owner = p /\ p \in Players => Woken("player_crafts", p)
  <2>1. k \in DOMAIN crafts[pa] /\ k \in DOMAIN public' => public'[k] = crafts[pa][k]
    BY <1>1 DEF PublicRepeats
  <2>2. QED
    BY <2>1, CraftTouches DEF PublicStep
<1>6. \A j : j # k => (j \in DOMAIN public' <=> j \in DOMAIN public)
  BY DEF PublicStep, Only
<1>7. ASSUME NEW t \in CraftTables, NEW j, t = pa => (j \in DOMAIN public' <=> j \in DOMAIN public)
      PROVE  Craft(t, j)' = Craft(t, j)
  <2>1. (t = pa /\ j \in DOMAIN public') = (t = pa /\ j \in DOMAIN public)
    BY <1>7
  <2>2. QED
    BY <1>1, <1>2, <2>1 DEF Craft
<1>8. ASSUME c \in Claims, ~Woken("claim_crafts", c)
      PROVE  \A t \in CraftTables : \A j \in CraftsAt(t, c) : Craft(t, j)' = Craft(t, j)
  BY <1>4, <1>5, <1>6, <1>7, <1>8 DEF CraftsAt
<1>9. ASSUME p \in Players, ~Woken("player_crafts", p)
      PROVE  \A t \in CraftTables : \A j \in CraftsBy(t, p) : Craft(t, j)' = Craft(t, j)
  BY <1>4, <1>5, <1>6, <1>7, <1>9 DEF CraftsBy
<1>10. QED
  BY <1>3, <1>8, <1>9, ClaimCraftsSame, PlayerCraftsSame

LEMMA CraftsSteps ==
    ASSUME WInv, WInv', [Next]_vars, NEW c, NEW p
    PROVE  /\ c \in Claims /\ ClaimCrafts(c)' # ClaimCrafts(c) =>
                Woken("claim_crafts", c) \/ row'[1] = "name"
           /\ p \in Players /\ PlayerCrafts(p)' # PlayerCrafts(p) =>
                Woken("player_crafts", p) \/ row'[1] \in {"building", "name"}
<1> DEFINE Goal == /\ c \in Claims /\ ClaimCrafts(c)' # ClaimCrafts(c) =>
                        Woken("claim_crafts", c) \/ row'[1] = "name"
                   /\ p \in Players /\ PlayerCrafts(p)' # PlayerCrafts(p) =>
                        Woken("player_crafts", p) \/ row'[1] \in {"building", "name"}
<1>1. CASE UNCHANGED <<building, named, work>>
  BY <1>1, CraftsFrame
<1>2. ASSUME NEW b, BuildingStep(b)
      PROVE  Goal
  <2>1. row'[1] = "building"
    BY <1>2 DEF BuildingStep
  <2>2. QED
    BY <1>2, <2>1, CraftsOfBuildingStep
<1>3. ASSUME NEW x, NameStep(x)
      PROVE  Goal
  BY <1>3 DEF NameStep
<1>4. ASSUME NEW t \in CraftTables, NEW k, CraftStep(t, k)
      PROVE  Goal
  BY <1>4, ClaimsOfCraftStep, PlayersOfCraftStep
<1>5. ASSUME NEW k, PublicStep(k)
      PROVE  Goal
  BY <1>5, CraftsOfPublicStep DEF WInv
<1>6. ASSUME Next
      PROVE  Goal
  <2> HIDE DEF Goal
  <2>1. TablesOK
    BY TypeOKIs DEF WInv
  <2>2. UNCHANGED <<building, named, work>> => Goal
    BY <1>1 DEF Goal
  <2>3. ASSUME \/ \E b : NicknameStep(b) \/ LocationStep(b)
               \/ \E n : NetworkStep(n)
               \/ \E q : HousingStep(q)
               \/ \E i : InventoryStep(i)
               \/ \E d : DeployableStep(d)
               \/ \E m : MemberStep(m)
               \/ \E t \in ProfileTables : \E q : ProfileStep(t, q)
        PROVE  UNCHANGED <<building, named, work>>
    BY <2>3 DEF NicknameStep, LocationStep, NetworkStep, HousingStep, InventoryStep,
                DeployableStep, MemberStep, ProfileStep, land
  <2>4. QED
    BY <1>2, <1>3, <1>4, <1>5, <1>6, <2>1, <2>2, <2>3, Steps
<1>7. CASE UNCHANGED vars
  BY <1>1, <1>7 DEF vars, land
<1>8. QED
  BY <1>6, <1>7

\* A row of any table that changes the crafts of a claim or of a player wakes
\* them, but for the names and buildings the crafts are shown with.
THEOREM CraftsWakeHolds == Spec => CraftsWake
<1>1. WInv /\ WInv' /\ [Next]_vars =>
        [/\ \A c \in Claims :
              ClaimCrafts(c)' # ClaimCrafts(c) => Woken("claim_crafts", c) \/ row'[1] = "name"
         /\ \A p \in Players :
              PlayerCrafts(p)' # PlayerCrafts(p) =>
                  Woken("player_crafts", p) \/ row'[1] \in {"building", "name"}]_vars
  <2> SUFFICES ASSUME WInv, WInv', [Next]_vars
               PROVE  /\ \A c \in Claims :
                          ClaimCrafts(c)' # ClaimCrafts(c) =>
                              Woken("claim_crafts", c) \/ row'[1] = "name"
                      /\ \A p \in Players :
                          PlayerCrafts(p)' # PlayerCrafts(p) =>
                              Woken("player_crafts", p) \/ row'[1] \in {"building", "name"}
    OBVIOUS
  <2>1. QED
    BY CraftsSteps
<1>2. QED
  BY WInvHolds, <1>1, PTL DEF Spec, CraftsWake

-----------------------------------------------------------------------------
(* Bags and rosters.                                                       *)

\* IsBagOf, of a row that may not be in the table.
RowOf(i, r, p) ==
    \/ r.owner = p /\ r.index \in 0..2
    \/ /\ r.playerOwner = p /\ r.owner \in DOMAIN building
       /\ building[r.owner].desc \in Personal
    \/ IF r.owner \in DOMAIN deployable THEN deployable[r.owner] = p
       ELSE i \in DOMAIN deployable /\ deployable[i] = p

LEMMA RowOfIs ==
    ASSUME NEW i, NEW p
    PROVE  IsBagOf(i, p) <=> RowOf(i, inventory[i], p)
  BY DEF IsBagOf, IsBody, IsPersonal, IsCarried, CarrierOf, RowOf

LEMMA RowOfNext ==
    ASSUME UNCHANGED <<building, deployable>>, NEW i, NEW p
    PROVE  IsBagOf(i, p)' <=> RowOf(i, inventory'[i], p)
  BY DEF IsBagOf, IsBody, IsPersonal, IsCarried, CarrierOf, RowOf

\* A bag row touches the player whose bag it is.
LEMMA BagTouches ==
    ASSUME TablesOK, NEW i, NEW r, NEW p \in Players, RowOf(i, r, p)
    PROVE  Own(p) \subseteq TouchInventory(i, r)
<1>1. DOMAIN building \subseteq Buildings /\ DOMAIN deployable \subseteq Deployables
  BY DEF TablesOK, Table
<1>2. p \notin DOMAIN building /\ p \notin DOMAIN deployable
  BY <1>1, AnswersAssumption
<1>3. CASE r.owner = p
  BY <1>2, <1>3 DEF TouchInventory
<1>4. CASE r.playerOwner = p
  BY <1>4 DEF TouchInventory
<1>5. CASE r.owner \in DOMAIN deployable /\ deployable[r.owner] = p
  BY <1>5 DEF TouchInventory
<1>6. CASE i \in DOMAIN deployable /\ deployable[i] = p
  BY <1>6 DEF TouchInventory
<1>7. QED
  BY <1>3, <1>4, <1>5, <1>6 DEF RowOf

LEMMA BagsAreNext ==
    ASSUME NEW p
    PROVE  BagsOf(p)' = {i \in DOMAIN inventory' : IsBagOf(i, p)'}
<1>1. BagsOf(p) = {i \in DOMAIN inventory : IsBagOf(i, p)}
  BY BagsAre
<1>2. (BagsOf(p) = {i \in DOMAIN inventory : IsBagOf(i, p)})'
  BY <1>1, PTL
<1>3. QED
  BY <1>2

\* Bags that are the same bags of the player before and after.
LEMMA BagsSame ==
    ASSUME NEW p,
           \A i : (i \in DOMAIN inventory' /\ IsBagOf(i, p)')
                    <=> (i \in DOMAIN inventory /\ IsBagOf(i, p)),
           \A i \in DOMAIN inventory : IsBagOf(i, p) => inventory'[i] = inventory[i]
    PROVE  /\ BagsOf(p)' = BagsOf(p) /\ Hexcoins(p)' = Hexcoins(p)
           /\ \A i \in BagsOf(p) : inventory'[i] = inventory[i]
<1>1. BagsOf(p)' = {i \in DOMAIN inventory' : IsBagOf(i, p)'}
  BY BagsAreNext
<1>2. BagsOf(p) = {i \in DOMAIN inventory : IsBagOf(i, p)}
  BY BagsAre
<1>3. BagsOf(p)' = BagsOf(p)
  BY <1>1, <1>2
<1>4. \A i \in BagsOf(p) : inventory'[i] = inventory[i]
  BY <1>2
<1>5. Pockets(BagsOf(p))' = Pockets(BagsOf(p))
  BY <1>3, <1>4 DEF Pockets
<1>6. QED
  BY <1>3, <1>4, <1>5 DEF Hexcoins

\* A bag row that touches no key of a player leaves the player's bags.
LEMMA BagsUntouched ==
    ASSUME TablesOK, NEW i, InventoryStep(i), NEW p \in Players,
           \A T : Recorded(T) => ~(Own(p) \subseteq T)
    PROVE  /\ BagsOf(p)' = BagsOf(p) /\ Hexcoins(p)' = Hexcoins(p)
           /\ \A j \in BagsOf(p) : inventory'[j] = inventory[j]
<1>1. building' = building /\ deployable' = deployable
  BY DEF InventoryStep, land
<1>2. i \in DOMAIN inventory => ~IsBagOf(i, p)
  BY RowOfIs, BagTouches DEF InventoryStep
<1>3. i \in DOMAIN inventory' => ~IsBagOf(i, p)'
  <2>1. i \in DOMAIN inventory' => ~RowOf(i, inventory'[i], p)
    BY BagTouches DEF InventoryStep
  <2>2. QED
    BY <1>1, <2>1, RowOfNext
<1>4. \A j : j # i => (j \in DOMAIN inventory' <=> j \in DOMAIN inventory)
                        /\ (j \in DOMAIN inventory => inventory'[j] = inventory[j])
  BY DEF InventoryStep, Only
<1>5. \A j : j # i /\ j \in DOMAIN inventory => (IsBagOf(j, p)' <=> IsBagOf(j, p))
  BY <1>1, <1>4, RowOfIs, RowOfNext
<1>6. \A j : (j \in DOMAIN inventory' /\ IsBagOf(j, p)')
                <=> (j \in DOMAIN inventory /\ IsBagOf(j, p))
  BY <1>2, <1>3, <1>4, <1>5
<1>7. \A j \in DOMAIN inventory : IsBagOf(j, p) => inventory'[j] = inventory[j]
  BY <1>2, <1>4
<1>8. QED
  BY <1>6, <1>7, BagsSame

LEMMA PlayerInventorySame ==
    ASSUME NEW p, BagsOf(p)' = BagsOf(p),
           \A j \in BagsOf(p) : inventory'[j] = inventory[j] /\ BagFields(j, p)' = BagFields(j, p)
    PROVE  PlayerInventory(p)' = PlayerInventory(p)
  BY DEF PlayerInventory

LEMMA PlayerInventoryFrame ==
    ASSUME UNCHANGED <<building, named, bags>>, NEW p
    PROVE  PlayerInventory(p)' = PlayerInventory(p)
<1>1. \A i : IsBagOf(i, p)' <=> IsBagOf(i, p)
  BY RowOfIs, RowOfNext DEF bags
<1>2. BagsOf(p)' = BagsOf(p)
  BY <1>1, BagsSame DEF bags
<1>3. \A j : BagFields(j, p)' = BagFields(j, p)
  BY DEF BagFields, IsBody, IsPersonal, CarrierOf, ClaimOf, bags
<1>4. QED
  BY <1>2, <1>3, PlayerInventorySame DEF bags

LEMMA PlayerInventoryOfBag ==
    ASSUME TablesOK, NEW i, InventoryStep(i), NEW p \in Players, ~Woken("player_inv", p)
    PROVE  PlayerInventory(p)' = PlayerInventory(p)
<1>1. p # NoId
  BY AnswersAssumption
<1>2. \A T : Recorded(T) => ~(Own(p) \subseteq T)
  BY <1>1, RecordedWakes DEF Own
<1>3. /\ BagsOf(p)' = BagsOf(p)
      /\ \A j \in BagsOf(p) : inventory'[j] = inventory[j]
  BY <1>2, BagsUntouched
<1>4. \A j \in BagsOf(p) : BagFields(j, p)' = BagFields(j, p)
  BY <1>3 DEF BagFields, IsBody, IsPersonal, CarrierOf, ClaimOf, InventoryStep, land
<1>5. QED
  BY <1>3, <1>4, PlayerInventorySame

LEMMA PlayerInventoryOfDeployable ==
    ASSUME NEW d, DeployableStep(d), ~NestedRow, NEW p \in Players, ~Woken("player_inv", p)
    PROVE  PlayerInventory(p)' = PlayerInventory(p)
<1>1. p # NoId
  BY AnswersAssumption
<1>2. building' = building /\ named' = named /\ inventory' = inventory
  BY DEF DeployableStep, land
<1>3. d \in DOMAIN deployable => deployable[d] # p
  BY <1>1, RecordedWakes DEF DeployableStep
<1>4. d \in DOMAIN deployable' => deployable'[d] # p
  BY <1>1, RecordedWakes DEF DeployableStep
<1>5. \A e : e # d => (e \in DOMAIN deployable' <=> e \in DOMAIN deployable)
                        /\ (e \in DOMAIN deployable => deployable'[e] = deployable[e])
  BY DEF DeployableStep, Only
<1>6. \A i \in DOMAIN inventory : inventory[i].owner = d /\ i # d => i \notin DOMAIN deployable
  <2>1. row' = <<"deployable", d>>
    BY DEF DeployableStep
  <2>2. QED
    BY <2>1 DEF NestedRow
<1>7. ASSUME NEW i \in DOMAIN inventory
      PROVE  /\ IsCarried(i, p)' <=> IsCarried(i, p)
             /\ IsCarried(i, p) => CarrierOf(i)' = CarrierOf(i)
  <2>1. CASE inventory[i].owner = d
    <3>1. ~IsCarried(i, p)
      BY <1>3, <1>6, <2>1 DEF IsCarried, CarrierOf
    <3>2. ~IsCarried(i, p)'
      BY <1>2, <1>4, <1>5, <1>6, <2>1 DEF IsCarried, CarrierOf
    <3>3. QED
      BY <3>1, <3>2
  <2>2. CASE inventory[i].owner # d
    <3>1. CarrierOf(i)' = CarrierOf(i)
      BY <1>2, <1>5, <2>2 DEF CarrierOf
    <3>2. QED
      BY <1>3, <1>4, <1>5, <3>1 DEF IsCarried
  <2>3. QED
    BY <2>1, <2>2
<1>8. ASSUME NEW i \in DOMAIN inventory
      PROVE  IsBody(i, p)' = IsBody(i, p) /\ IsPersonal(i, p)' = IsPersonal(i, p)
  BY <1>2 DEF IsBody, IsPersonal
<1>9. \A i \in DOMAIN inventory : IsBagOf(i, p)' <=> IsBagOf(i, p)
  BY <1>7, <1>8 DEF IsBagOf
<1>10. BagsOf(p)' = BagsOf(p)
  BY <1>2, <1>9, BagsSame
<1>11. ASSUME NEW i \in BagsOf(p)
       PROVE  BagFields(i, p)' = BagFields(i, p)
  <2>1. i \in DOMAIN inventory /\ IsBagOf(i, p)
    BY BagsAre
  <2>2. ClaimOf(inventory[i].owner)' = ClaimOf(inventory[i].owner)
    BY <1>2 DEF ClaimOf
  <2>3. CASE IsBody(i, p) \/ IsPersonal(i, p)
    BY <1>2, <1>8, <2>1, <2>2, <2>3 DEF BagFields
  <2>4. CASE ~IsBody(i, p) /\ ~IsPersonal(i, p)
    BY <1>2, <1>7, <1>8, <2>1, <2>4 DEF BagFields, IsBagOf
  <2>5. QED
    BY <2>3, <2>4
<1>12. QED
  BY <1>2, <1>10, <1>11, PlayerInventorySame

LEMMA PlayerInventorySteps ==
    ASSUME WInv, [Next]_vars, NEW p \in Players, PlayerInventory(p)' # PlayerInventory(p)
    PROVE  Woken("player_inv", p) \/ row'[1] \in {"building", "name"} \/ NestedRow
<1> DEFINE Goal == Woken("player_inv", p) \/ row'[1] \in {"building", "name"} \/ NestedRow
<1>1. TablesOK
  BY TypeOKIs DEF WInv
<1>2. CASE UNCHANGED <<building, named, bags>>
  BY <1>2, PlayerInventoryFrame
<1>3. ASSUME NEW b, BuildingStep(b) \/ NameStep(b)
      PROVE  Goal
  BY <1>3 DEF BuildingStep, NameStep
<1>4. ASSUME NEW i, InventoryStep(i)
      PROVE  Goal
  BY <1>1, <1>4, PlayerInventoryOfBag
<1>5. ASSUME NEW d, DeployableStep(d)
      PROVE  Goal
  BY <1>5, PlayerInventoryOfDeployable
<1>6. ASSUME Next
      PROVE  Goal
  <2> HIDE DEF Goal
  <2>1. UNCHANGED <<building, named, bags>> => Goal
    BY <1>2 DEF Goal
  <2>2. ASSUME \/ \E b : NicknameStep(b) \/ LocationStep(b)
               \/ \E n : NetworkStep(n)
               \/ \E q : HousingStep(q)
               \/ \E t \in CraftTables : \E k : CraftStep(t, k)
               \/ \E k : PublicStep(k)
               \/ \E m : MemberStep(m)
               \/ \E t \in ProfileTables : \E q : ProfileStep(t, q)
        PROVE  UNCHANGED <<building, named, bags>>
    BY <2>2 DEF NicknameStep, LocationStep, NetworkStep, HousingStep, CraftStep,
                PublicStep, MemberStep, ProfileStep, land
  <2>3. QED
    BY <1>1, <1>3, <1>4, <1>5, <1>6, <2>1, <2>2, Steps
<1>7. CASE UNCHANGED vars
  BY <1>2, <1>7 DEF vars, land
<1>8. QED
  BY <1>6, <1>7

\* A row of any table that changes a player's bags wakes the player's
\* inventory, but for names, buildings and deployables carried by deployables.
THEOREM PlayerInventoryWakesHolds == Spec => PlayerInventoryWakes
<1>1. WInv /\ [Next]_vars =>
        [\A p \in Players :
            PlayerInventory(p)' # PlayerInventory(p) =>
                Woken("player_inv", p) \/ row'[1] \in {"building", "name"} \/ NestedRow]_vars
  <2> SUFFICES ASSUME WInv, [Next]_vars
               PROVE  \A p \in Players :
                        PlayerInventory(p)' # PlayerInventory(p) =>
                          Woken("player_inv", p) \/ row'[1] \in {"building", "name"} \/ NestedRow
    OBVIOUS
  <2>1. QED
    BY PlayerInventorySteps
<1>2. QED
  BY WInvHolds, <1>1, PTL DEF Spec, PlayerInventoryWakes

-----------------------------------------------------------------------------

LEMMA HexcoinsFrame ==
    ASSUME UNCHANGED <<building, bags>>, NEW p
    PROVE  Hexcoins(p)' = Hexcoins(p)
<1>1. \A i : IsBagOf(i, p)' <=> IsBagOf(i, p)
  BY RowOfIs, RowOfNext DEF bags
<1>2. QED
  BY <1>1, BagsSame DEF bags

LEMMA ClaimMembersSame ==
    ASSUME NEW c, RowsOfClaim(c)' = RowsOfClaim(c),
           \A m \in RowsOfClaim(c) :
              /\ member'[m] = member[m]
              /\ Profile(member[m].player)' = Profile(member[m].player)
              /\ Hexcoins(member[m].player)' = Hexcoins(member[m].player)
    PROVE  ClaimMembers(c)' = ClaimMembers(c)
  BY DEF ClaimMembers

LEMMA ClaimMembersFrame ==
    ASSUME UNCHANGED <<building, bags, member, profile>>, NEW c
    PROVE  ClaimMembers(c)' = ClaimMembers(c)
<1>1. RowsOfClaim(c)' = RowsOfClaim(c)
  BY DEF RowsOfClaim
<1>2. \A m : /\ Profile(member[m].player)' = Profile(member[m].player)
             /\ Hexcoins(member[m].player)' = Hexcoins(member[m].player)
  BY HexcoinsFrame DEF Profile
<1>3. QED
  BY <1>1, <1>2, ClaimMembersSame

LEMMA RosterOfMember ==
    ASSUME NEW m, MemberStep(m), NEW c \in Claims, ~Woken("claim_members", c)
    PROVE  ClaimMembers(c)' = ClaimMembers(c)
<1>1. c # NoId
  BY AnswersAssumption
<1>2. building' = building /\ inventory' = inventory /\ deployable' = deployable
        /\ profile' = profile
  BY DEF MemberStep, land, bags
<1>3. m \in DOMAIN member => member[m].claim # c
  BY <1>1, RecordedWakes DEF MemberStep
<1>4. m \in DOMAIN member' => member'[m].claim # c
  BY <1>1, RecordedWakes DEF MemberStep
<1>5. \A j : j # m => (j \in DOMAIN member' <=> j \in DOMAIN member)
                        /\ (j \in DOMAIN member => member'[j] = member[j])
  BY DEF MemberStep, Only
<1>6. RowsOfClaim(c)' = RowsOfClaim(c)
  BY <1>3, <1>4, <1>5 DEF RowsOfClaim
<1>7. \A j \in RowsOfClaim(c) : member'[j] = member[j]
  BY <1>3, <1>5 DEF RowsOfClaim
<1>8. \A q : Profile(q)' = Profile(q) /\ Hexcoins(q)' = Hexcoins(q)
  BY <1>2, HexcoinsFrame DEF Profile, bags
<1>9. \A j \in RowsOfClaim(c) :
          /\ Profile(member[j].player)' = Profile(member[j].player)
          /\ Hexcoins(member[j].player)' = Hexcoins(member[j].player)
  BY <1>7, <1>8
<1>10. QED
  BY <1>6, <1>7, <1>9, ClaimMembersSame

\* A touched member wakes the rosters the index lists.
LEMMA MemberTouched ==
    ASSUME MembersIndexed, index' = index, NEW c, NEW m \in RowsOfClaim(c),
           NEW T, Recorded(T), <<"member_player", member[m].player>> \in T
    PROVE  Woken("claim_members", c)
<1>1. <<member[m].player, c>> \in index'
  BY DEF MembersIndexed, RowsOfClaim
<1>2. <<"member_player", member[m].player>> \in touched'
  BY DEF Recorded
<1>3. QED
  BY <1>1, <1>2, Rostered

LEMMA RosterOfProfile ==
    ASSUME MembersIndexed, NEW t \in ProfileTables, NEW p, ProfileStep(t, p),
           NEW c \in Claims, ~Woken("claim_members", c)
    PROVE  ClaimMembers(c)' = ClaimMembers(c)
<1>1. building' = building /\ inventory' = inventory /\ deployable' = deployable
        /\ member' = member /\ index' = index
  BY DEF ProfileStep, land, bags
<1>2. \A m \in RowsOfClaim(c) : member[m].player # p
  BY <1>1, MemberTouched DEF ProfileStep
<1>3. ASSUME NEW q, q # p
      PROVE  Profile(q)' = Profile(q)
  <2>1. \A s \in ProfileTables :
            /\ q \in DOMAIN profile'[s] <=> q \in DOMAIN profile[s]
            /\ q \in DOMAIN profile[s] => profile'[s][q] = profile[s][q]
    BY <1>3 DEF ProfileStep, Only
  <2>2. QED
    BY <2>1 DEF Profile
<1>4. \A q : Hexcoins(q)' = Hexcoins(q)
  BY <1>1, HexcoinsFrame DEF bags
<1>5. RowsOfClaim(c)' = RowsOfClaim(c)
  BY <1>1 DEF RowsOfClaim
<1>6. \A m \in RowsOfClaim(c) :
          /\ Profile(member[m].player)' = Profile(member[m].player)
          /\ Hexcoins(member[m].player)' = Hexcoins(member[m].player)
  BY <1>1, <1>2, <1>3, <1>4
<1>7. QED
  BY <1>1, <1>5, <1>6, ClaimMembersSame

LEMMA RosterOfBag ==
    ASSUME TablesOK, MembersIndexed, NEW i, InventoryStep(i),
           NEW c \in Claims, ~Woken("claim_members", c)
    PROVE  ClaimMembers(c)' = ClaimMembers(c)
<1>1. building' = building /\ deployable' = deployable /\ profile' = profile
        /\ member' = member /\ index' = index
  BY DEF InventoryStep, land, people
<1>2. ASSUME NEW m \in RowsOfClaim(c)
      PROVE  Hexcoins(member[m].player)' = Hexcoins(member[m].player)
  <2> PICK q : q = member[m].player
    OBVIOUS
  <2>1. q \in Players
    BY DEF RowsOfClaim, TablesOK, Table, MemberRow
  <2>2. <<"member_player", q>> \in Own(q)
    BY DEF Own
  <2>3. \A T : Recorded(T) => ~(Own(q) \subseteq T)
    BY <1>1, <2>2, MemberTouched
  <2>4. Hexcoins(q)' = Hexcoins(q)
    BY <2>1, <2>3, BagsUntouched
  <2>5. q = member'[m].player
    BY <1>1
  <2>6. QED
    BY <2>4, <2>5
<1>3. \A m \in RowsOfClaim(c) : Profile(member[m].player)' = Profile(member[m].player)
  BY <1>1 DEF Profile
<1>4. RowsOfClaim(c)' = RowsOfClaim(c)
  BY <1>1 DEF RowsOfClaim
<1>5. QED
  BY <1>1, <1>2, <1>3, <1>4, ClaimMembersSame

LEMMA RosterSteps ==
    ASSUME WInv, [Next]_vars, NEW c \in Claims, ClaimMembers(c)' # ClaimMembers(c)
    PROVE  Woken("claim_members", c) \/ row'[1] \in {"deployable", "building"}
<1> DEFINE Goal == Woken("claim_members", c) \/ row'[1] \in {"deployable", "building"}
<1>1. TablesOK /\ MembersIndexed
  BY TypeOKIs DEF WInv
<1>2. CASE UNCHANGED <<building, bags, member, profile>>
  BY <1>2, ClaimMembersFrame
<1>3. ASSUME NEW b, BuildingStep(b) \/ DeployableStep(b)
      PROVE  Goal
  BY <1>3 DEF BuildingStep, DeployableStep
<1>4. ASSUME NEW i, InventoryStep(i)
      PROVE  Goal
  BY <1>1, <1>4, RosterOfBag
<1>5. ASSUME NEW m, MemberStep(m)
      PROVE  Goal
  BY <1>5, RosterOfMember
<1>6. ASSUME NEW t \in ProfileTables, NEW q, ProfileStep(t, q)
      PROVE  Goal
  BY <1>1, <1>6, RosterOfProfile
<1>7. ASSUME Next
      PROVE  Goal
  <2> HIDE DEF Goal
  <2>1. UNCHANGED <<building, bags, member, profile>> => Goal
    BY <1>2 DEF Goal
  <2>2. ASSUME \/ \E b : NicknameStep(b) \/ LocationStep(b)
               \/ \E x : NameStep(x)
               \/ \E n : NetworkStep(n)
               \/ \E q : HousingStep(q)
               \/ \E t \in CraftTables : \E k : CraftStep(t, k)
               \/ \E k : PublicStep(k)
        PROVE  UNCHANGED <<building, bags, member, profile>>
    BY <2>2 DEF NicknameStep, LocationStep, NameStep, NetworkStep, HousingStep, CraftStep,
                PublicStep, land, people
  <2>3. QED
    BY <1>1, <1>3, <1>4, <1>5, <1>6, <1>7, <2>1, <2>2, Steps
<1>8. CASE UNCHANGED vars
  BY <1>2, <1>8 DEF vars, land, people
<1>9. QED
  BY <1>7, <1>8

\* A row that takes a player off the index touches the roster.
LEMMA Forgotten ==
    ASSUME WInv, [Next]_vars, NEW pc \in index \ index'
    PROVE  Woken("claim_members", pc[2])
<1>1. pc[2] # NoId
  BY AnswersAssumption DEF WInv, TypeOK
<1>2. ASSUME NEW m \in MemberRows, DeleteMember(m)
      PROVE  <<"claim_members", pc[2]>> \in touched'
  BY <1>2 DEF DeleteMember, Applied
<1>3. ASSUME NEW m \in MemberRows, NEW r \in MemberRow, InsertMember(m, r)
      PROVE  <<"claim_members", pc[2]>> \in touched'
  <2>1. m \in DOMAIN member /\ pc = <<member[m].player, member[m].claim>>
    BY <1>3 DEF InsertMember
  <2>2. <<"claim_members", member[m].claim>> \in touched'
    BY <1>3, <2>1 DEF InsertMember, Applied
  <2>3. QED
    BY <2>1, <2>2
<1>4. CASE Next
  <2>1. index' # index
    OBVIOUS
  <2>2. \/ \E m \in MemberRows : DeleteMember(m)
        \/ \E m \in MemberRows, r \in MemberRow : InsertMember(m, r)
    BY <1>4, <2>1
    DEF Next, Delete, Insert, DeleteBuilding, DeleteNickname, DeleteLocation, DeleteName,
        DeleteNetwork, DeleteHousing, DeleteProfile, DeleteInventory, DeleteDeployable,
        DeleteCraft, DeletePublic, InsertBuilding, InsertNickname, InsertLocation,
        InsertName, InsertNetwork, InsertHousing, InsertProfile, InsertInventory,
        InsertDeployable, InsertCraft, InsertPublic, people
  <2>3. QED
    BY <1>1, <1>2, <1>3, <2>2, Flushed
<1>5. CASE UNCHANGED vars
  BY <1>5 DEF vars, people
<1>6. QED
  BY <1>4, <1>5


\* A row of any table that changes a roster wakes it, through the index when
\* the row is a member's, but for deployables and buildings.
THEOREM RosterWakesHolds == Spec => RosterWakes
<1>1. WInv /\ [Next]_vars =>
        [/\ \A c \in Claims :
              ClaimMembers(c)' # ClaimMembers(c) =>
                  Woken("claim_members", c) \/ row'[1] \in {"deployable", "building"}
         /\ \A pc \in index \ index' : Woken("claim_members", pc[2])]_vars
  <2> SUFFICES ASSUME WInv, [Next]_vars
               PROVE  /\ \A c \in Claims :
                          ClaimMembers(c)' # ClaimMembers(c) =>
                              Woken("claim_members", c) \/ row'[1] \in {"deployable", "building"}
                      /\ \A pc \in index \ index' : Woken("claim_members", pc[2])
    OBVIOUS
  <2>1. QED
    BY RosterSteps, Forgotten
<1>2. QED
  BY WInvHolds, <1>1, PTL DEF Spec, RosterWakes

-----------------------------------------------------------------------------
(* What is stored in buildings.                                            *)

LEMMA StoredSame ==
    ASSUME NEW b, Labels(b)' = Labels(b), OwnedBy(b)' = OwnedBy(b),
           \A i \in OwnedBy(b) : inventory'[i] = inventory[i]
    PROVE  Stored(b)' = Stored(b)
<1>1. Pockets(OwnedBy(b))' = Pockets(OwnedBy(b))
  BY DEF Pockets
<1>2. QED
  BY <1>1 DEF Stored

\* Where no bag row goes in or out, and no label changes, what is stored stays.
LEMMA StoredFrame ==
    ASSUME inventory' = inventory, NEW b, Labels(b)' = Labels(b)
    PROVE  Stored(b)' = Stored(b)
  BY StoredSame DEF OwnedBy

\* A bag row disturbs the storage of its owner alone.
LEMMA StoredElsewhere ==
    ASSUME NEW i, InventoryStep(i), NEW b,
           i \in DOMAIN inventory => inventory[i].owner # b,
           i \in DOMAIN inventory' => inventory'[i].owner # b
    PROVE  Stored(b)' = Stored(b)
<1>1. \A j : j # i => (j \in DOMAIN inventory' <=> j \in DOMAIN inventory)
                        /\ (j \in DOMAIN inventory => inventory'[j] = inventory[j])
  BY DEF InventoryStep, Only
<1>2. OwnedBy(b)' = OwnedBy(b) /\ \A j \in OwnedBy(b) : inventory'[j] = inventory[j]
  BY <1>1 DEF OwnedBy
<1>3. Labels(b)' = Labels(b)
  BY DEF InventoryStep, land, Labels
<1>4. QED
  BY <1>2, <1>3, StoredSame

\* A row of one building leaves the lookups of the others.
LEMMA OtherBuildings ==
    ASSUME NEW b, BuildingStep(b) \/ NicknameStep(b) \/ LocationStep(b), NEW x, x # b
    PROVE  /\ x \in DOMAIN building' <=> x \in DOMAIN building
           /\ x \in DOMAIN building => building'[x] = building[x]
           /\ x \in DOMAIN location' <=> x \in DOMAIN location
           /\ x \in DOMAIN location => location'[x] = location[x]
           /\ Labels(x)' = Labels(x) /\ DimOf(x)' = DimOf(x)
<1>1. x \in nickname' <=> x \in nickname
  BY DEF BuildingStep, NicknameStep, LocationStep
<1>2. (x \in nickname') = (x \in nickname)
  BY <1>1
<1>3. /\ x \in DOMAIN building' <=> x \in DOMAIN building
      /\ x \in DOMAIN building => building'[x] = building[x]
  BY DEF BuildingStep, NicknameStep, LocationStep, Only
<1>4. /\ x \in DOMAIN location' <=> x \in DOMAIN location
      /\ x \in DOMAIN location => location'[x] = location[x]
  BY DEF BuildingStep, NicknameStep, LocationStep, Only
<1>5. QED
  BY <1>2, <1>3, <1>4 DEF Labels, DimOf

-----------------------------------------------------------------------------
(* Claim inventories.                                                      *)

LEMMA ContentsSame ==
    ASSUME NEW c, ClaimBuildings(c)' = ClaimBuildings(c),
           \A b \in ClaimBuildings(c) : DimOf(b)' = DimOf(b) /\ Stored(b)' = Stored(b),
           \A d : DimensionMeta(d)' = DimensionMeta(d)
    PROVE  ClaimInventory(c)' = ClaimInventory(c)
<1>1. ClaimContents(c)' = ClaimContents(c)
  BY DEF ClaimContents
<1>2. {DimOf(b) : b \in ClaimBuildings(c)}' = {DimOf(b) : b \in ClaimBuildings(c)}
  OBVIOUS
<1>3. ClaimGroups(c)' = ClaimGroups(c)
  BY <1>2 DEF ClaimGroups
<1>4. QED
  BY <1>1, <1>3 DEF ClaimInventory

LEMMA EntranceKept ==
    ASSUME NEW b, BuildingStep(b) \/ NicknameStep(b), ~EntranceRow, NEW d
    PROVE  DimensionMeta(d)' = DimensionMeta(d)
<1>1. network' = network /\ row'[1] \in {"building", "nickname"} /\ row'[2] = b
  BY DEF BuildingStep, NicknameStep
<1>2. \A n \in DOMAIN network : network[n].building # b
  BY <1>1 DEF EntranceRow
<1>3. \A n \in DOMAIN network : Labels(network[n].building)' = Labels(network[n].building)
  <2> TAKE n \in DOMAIN network
  <2> PICK e : e = network[n].building
    OBVIOUS
  <2>1. Labels(e)' = Labels(e)
    BY <1>2, OtherBuildings
  <2>2. e = network'[n].building
    BY <1>1
  <2>3. QED
    BY <2>1, <2>2
<1>4. QED
  BY <1>1, <1>3 DEF DimensionMeta

LEMMA ClaimInventoryFrame ==
    ASSUME UNCHANGED <<building, nickname, location, network, inventory>>, NEW c
    PROVE  ClaimInventory(c)' = ClaimInventory(c)
<1>1. \A b : Labels(b)' = Labels(b) /\ DimOf(b)' = DimOf(b)
  BY DEF Labels, DimOf
<1>2. \A b : Stored(b)' = Stored(b)
  BY <1>1, StoredFrame
<1>3. \A d : DimensionMeta(d)' = DimensionMeta(d)
  BY DEF DimensionMeta, Labels
<1>4. ClaimBuildings(c)' = ClaimBuildings(c)
  BY DEF ClaimBuildings
<1>5. QED
  BY <1>1, <1>2, <1>3, <1>4, ContentsSame

\* The building is none of the claim's storage, before and after.
LEMMA ClaimInventoryOfBuilding ==
    ASSUME NEW b, BuildingStep(b) \/ NicknameStep(b), ~EntranceRow,
           NEW c \in Claims, ~Woken("claim_inv", c)
    PROVE  ClaimInventory(c)' = ClaimInventory(c)
<1>1. c # NoId
  BY AnswersAssumption
<1>2. inventory' = inventory
  BY DEF BuildingStep, NicknameStep, bags
<1>3. \A x : <<"claim_inv", x>> \in TouchBuilding(b, x)
  BY DEF TouchBuilding
<1>4. b \in DOMAIN building => building[b].claim # c
  BY <1>1, <1>3, RecordedWakes DEF BuildingStep, NicknameStep, TouchBuildingEntity
<1>5. b \in DOMAIN building' => building'[b].claim # c
  BY <1>1, <1>3, <1>4, RecordedWakes DEF BuildingStep, NicknameStep
<1>6. ClaimBuildings(c)' = ClaimBuildings(c) /\ b \notin ClaimBuildings(c)
  BY <1>4, <1>5, OtherBuildings DEF ClaimBuildings
<1>7. \A x \in ClaimBuildings(c) : DimOf(x)' = DimOf(x) /\ Stored(x)' = Stored(x)
  BY <1>2, <1>6, OtherBuildings, StoredFrame
<1>8. QED
  BY <1>6, <1>7, EntranceKept, ContentsSame

LEMMA ClaimInventoryOfLocation ==
    ASSUME NEW b, LocationStep(b), NEW c \in Claims, ~Woken("claim_inv", c)
    PROVE  ClaimInventory(c)' = ClaimInventory(c)
<1>1. c # NoId
  BY AnswersAssumption
<1>2. building' = building /\ nickname' = nickname /\ network' = network
        /\ inventory' = inventory
  BY DEF LocationStep, bags
<1>3. \A x : Labels(x)' = Labels(x)
  BY <1>2 DEF Labels
<1>4. \A x : Stored(x)' = Stored(x)
  BY <1>2, <1>3, StoredFrame
<1>5. \A d : DimensionMeta(d)' = DimensionMeta(d)
  BY <1>2 DEF DimensionMeta, Labels
<1>6. ClaimBuildings(c)' = ClaimBuildings(c)
  BY <1>2 DEF ClaimBuildings
<1>7. ASSUME b \in ClaimBuildings(c)
      PROVE  DimOf(b) = Overworld /\ DimOf(b)' = Overworld
  <2>1. ClaimOf(b) = c
    BY <1>7 DEF ClaimBuildings, ClaimOf
  <2>2. \A d : d # Overworld => <<"claim_inv", c>> \in TouchLocation(b, d)
    BY <2>1 DEF TouchLocation
  <2>3. b \in DOMAIN location => location[b] = Overworld
    BY <1>1, <2>2, RecordedWakes DEF LocationStep
  <2>4. b \in DOMAIN location' => location'[b] = Overworld
    BY <1>1, <2>2, RecordedWakes DEF LocationStep
  <2>5. QED
    BY <2>3, <2>4 DEF DimOf
<1>8. \A x \in ClaimBuildings(c) : DimOf(x)' = DimOf(x)
  BY <1>7, OtherBuildings
<1>9. QED
  BY <1>4, <1>5, <1>6, <1>8, ContentsSame

LEMMA ClaimInventoryOfBag ==
    ASSUME TablesOK, NEW i, InventoryStep(i), NEW c \in Claims, ~Woken("claim_inv", c)
    PROVE  ClaimInventory(c)' = ClaimInventory(c)
<1>1. c # NoId
  BY AnswersAssumption
<1>2. building' = building /\ nickname' = nickname /\ network' = network
        /\ location' = location
  BY DEF InventoryStep, land
<1>3. \A x : DimOf(x)' = DimOf(x)
  BY <1>2 DEF DimOf
<1>4. \A d : DimensionMeta(d)' = DimensionMeta(d)
  BY <1>2 DEF DimensionMeta, Labels
<1>5. ClaimBuildings(c)' = ClaimBuildings(c)
  BY <1>2 DEF ClaimBuildings
<1>6. ASSUME NEW b \in ClaimBuildings(c), NEW r, r.owner = b
      PROVE  <<"claim_inv", c>> \in TouchInventory(i, r)
  <2>1. b \in DOMAIN building /\ building[b].claim = c
    BY DEF ClaimBuildings
  <2>2. b \notin DOMAIN deployable
    BY <2>1, AnswersAssumption DEF TablesOK, Table
  <2>3. <<"claim_inv", c>> \in TouchBuilding(b, building[b].claim)
    BY <2>1 DEF TouchBuilding
  <2>4. QED
    BY <1>6, <2>1, <2>2, <2>3 DEF TouchInventory
<1>7. ASSUME NEW b \in ClaimBuildings(c)
      PROVE  Stored(b)' = Stored(b)
  <2>1. i \in DOMAIN inventory => inventory[i].owner # b
    BY <1>1, <1>6, RecordedWakes DEF InventoryStep
  <2>2. i \in DOMAIN inventory' => inventory'[i].owner # b
    BY <1>1, <1>6, RecordedWakes DEF InventoryStep
  <2>3. QED
    BY <2>1, <2>2, StoredElsewhere
<1>8. QED
  BY <1>3, <1>4, <1>5, <1>7, ContentsSame

LEMMA ClaimInventorySteps ==
    ASSUME WInv, [Next]_vars, NEW c \in Claims, ClaimInventory(c)' # ClaimInventory(c)
    PROVE  Woken("claim_inv", c) \/ row'[1] = "network" \/ EntranceRow
<1> DEFINE Goal == Woken("claim_inv", c) \/ row'[1] = "network" \/ EntranceRow
<1>1. TablesOK
  BY TypeOKIs DEF WInv
<1>2. CASE UNCHANGED <<building, nickname, location, network, inventory>>
  BY <1>2, ClaimInventoryFrame
<1>3. ASSUME NEW b, BuildingStep(b) \/ NicknameStep(b)
      PROVE  Goal
  BY <1>3, ClaimInventoryOfBuilding
<1>4. ASSUME NEW b, LocationStep(b)
      PROVE  Goal
  BY <1>4, ClaimInventoryOfLocation
<1>5. ASSUME NEW i, InventoryStep(i)
      PROVE  Goal
  BY <1>1, <1>5, ClaimInventoryOfBag
<1>6. ASSUME NEW n, NetworkStep(n)
      PROVE  Goal
  BY <1>6 DEF NetworkStep
<1>7. ASSUME Next
      PROVE  Goal
  <2> HIDE DEF Goal
  <2>1. UNCHANGED <<building, nickname, location, network, inventory>> => Goal
    BY <1>2 DEF Goal
  <2>2. ASSUME \/ \E x : NameStep(x)
               \/ \E q : HousingStep(q)
               \/ \E d : DeployableStep(d)
               \/ \E t \in CraftTables : \E k : CraftStep(t, k)
               \/ \E k : PublicStep(k)
               \/ \E m : MemberStep(m)
               \/ \E t \in ProfileTables : \E q : ProfileStep(t, q)
        PROVE  UNCHANGED <<building, nickname, location, network, inventory>>
    BY <2>2 DEF NameStep, HousingStep, DeployableStep, CraftStep, PublicStep, MemberStep,
                ProfileStep, land, bags
  <2>3. QED
    BY <1>1, <1>3, <1>4, <1>5, <1>6, <1>7, <2>1, <2>2, Steps
<1>8. CASE UNCHANGED vars
  BY <1>2, <1>8 DEF vars, land, bags
<1>9. QED
  BY <1>7, <1>8

\* A row of any table that changes what a claim's inventory answers wakes it,
\* but for networks and the labels of entrances.
THEOREM ClaimInventoryWakesHolds == Spec => ClaimInventoryWakes
<1>1. WInv /\ [Next]_vars =>
        [\A c \in Claims :
            ClaimInventory(c)' # ClaimInventory(c) =>
                Woken("claim_inv", c) \/ row'[1] = "network" \/ EntranceRow]_vars
  <2> SUFFICES ASSUME WInv, [Next]_vars
               PROVE  \A c \in Claims :
                        ClaimInventory(c)' # ClaimInventory(c) =>
                          Woken("claim_inv", c) \/ row'[1] = "network" \/ EntranceRow
    OBVIOUS
  <2>1. QED
    BY ClaimInventorySteps
<1>2. QED
  BY WInvHolds, <1>1, PTL DEF Spec, ClaimInventoryWakes

-----------------------------------------------------------------------------
(* Houses.                                                                 *)

LEMMA HouseSame ==
    ASSUME NEW p, p \in DOMAIN housing,
           p \in DOMAIN housing', housing'[p] = housing[p], named' = named,
           Labels(housing[p].entrance)' = Labels(housing[p].entrance),
           HousingBuildings(p)' = HousingBuildings(p),
           \A b \in HousingBuildings(p) : Stored(b)' = Stored(b)
    PROVE  PlayerHousing(p)' = PlayerHousing(p)
  BY DEF PlayerHousing

\* The interior of a player's house is dimension d.
LEMMA InteriorTouched ==
    ASSUME TablesOK, NEW p \in Players, p \in DOMAIN housing,
           NEW d \in InteriorOf(p), NEW T, Recorded(T), HouseAt(d) \subseteq T
    PROVE  Woken("player_housing", p)
<1>1. housing[p].network \in DOMAIN network /\ network[housing[p].network].dim = d
  BY DEF InteriorOf
<1>2. <<"player_housing", p>> \in HouseAt(d)
  BY <1>1 DEF HouseAt
<1>3. p # NoId
  BY AnswersAssumption
<1>4. QED
  BY <1>2, <1>3, RecordedWakes

LEMMA HousingFrame ==
    ASSUME UNCHANGED <<building, nickname, location, network, housing, named, inventory>>, NEW p
    PROVE  PlayerHousing(p)' = PlayerHousing(p)
<1>1. \A b : Labels(b)' = Labels(b)
  BY DEF Labels
<1>2. \A b : Stored(b)' = Stored(b)
  BY <1>1, StoredFrame
<1>3. HousingBuildings(p)' = HousingBuildings(p)
  BY DEF HousingBuildings, InteriorOf
<1>4. p \in DOMAIN housing => Labels(housing[p].entrance)' = Labels(housing[p].entrance)
  BY DEF Labels
<1>5. p \in DOMAIN housing => PlayerHousing(p)' = PlayerHousing(p)
  BY <1>2, <1>3, <1>4, HouseSame
<1>6. QED
  BY <1>5 DEF PlayerHousing

LEMMA HouselessStays ==
    ASSUME NEW p, p \notin DOMAIN housing, p \notin DOMAIN housing'
    PROVE  PlayerHousing(p)' = PlayerHousing(p)
  BY DEF PlayerHousing

LEMMA HousingOfBuilding ==
    ASSUME TablesOK, NEW b, BuildingStep(b) \/ NicknameStep(b), ~EntranceRow,
           NEW p \in Players, ~Woken("player_housing", p)
    PROVE  PlayerHousing(p)' = PlayerHousing(p)
<1>1. inventory' = inventory /\ housing' = housing /\ network' = network
        /\ location' = location /\ named' = named
  BY DEF BuildingStep, NicknameStep, bags
<1>2. SUFFICES ASSUME p \in DOMAIN housing
               PROVE  PlayerHousing(p)' = PlayerHousing(p)
  BY <1>1, HouselessStays
<1>3. \A c : HouseAt(DimOf(b)) \subseteq TouchBuilding(b, c)
  BY DEF TouchBuilding, TouchHousingFor
<1>4. HouseAt(DimOf(b)) \subseteq TouchBuildingEntity(b)
  BY <1>3 DEF TouchBuildingEntity, TouchHousingFor
<1>5. NicknameStep(b) => DimOf(b) \notin InteriorOf(p)
  BY <1>2, <1>4, InteriorTouched DEF NicknameStep
<1>6. BuildingStep(b) /\ (b \in DOMAIN building \/ b \in DOMAIN building') =>
          DimOf(b) \notin InteriorOf(p)
  BY <1>2, <1>3, InteriorTouched DEF BuildingStep
<1>7. InteriorOf(p)' = InteriorOf(p)
  BY <1>1 DEF InteriorOf
<1>8. b \notin HousingBuildings(p)
  BY <1>5, <1>6 DEF HousingBuildings, DimOf, NicknameStep
<1>9. NicknameStep(b) => building' = building
  BY DEF NicknameStep
<1>10. b \notin HousingBuildings(p)'
  BY <1>1, <1>5, <1>6, <1>7, <1>9 DEF HousingBuildings, DimOf
<1>11. HousingBuildings(p)' = HousingBuildings(p)
  BY <1>1, <1>7, <1>8, <1>10, OtherBuildings DEF HousingBuildings
<1>12. \A x \in HousingBuildings(p) : Stored(x)' = Stored(x)
  BY <1>1, <1>8, OtherBuildings, StoredFrame
<1>13. Labels(housing[p].entrance)' = Labels(housing[p].entrance)
  <2> PICK e : e = housing[p].entrance
    OBVIOUS
  <2>1. row'[1] \in {"building", "nickname"} /\ row'[2] = b
    BY DEF BuildingStep, NicknameStep
  <2>2. e # b
    BY <1>2, <2>1 DEF EntranceRow
  <2>3. Labels(e)' = Labels(e)
    BY <2>2, OtherBuildings
  <2>4. QED
    BY <1>1, <2>3
<1>14. QED
  BY <1>1, <1>2, <1>11, <1>12, <1>13, HouseSame

LEMMA HousingOfLocation ==
    ASSUME TablesOK, NEW b, LocationStep(b), NEW p \in Players, ~Woken("player_housing", p)
    PROVE  PlayerHousing(p)' = PlayerHousing(p)
<1>1. inventory' = inventory /\ housing' = housing /\ network' = network
        /\ building' = building /\ nickname' = nickname /\ named' = named
  BY DEF LocationStep, bags
<1>2. SUFFICES ASSUME p \in DOMAIN housing
               PROVE  PlayerHousing(p)' = PlayerHousing(p)
  BY <1>1, HouselessStays
<1>3. \A d : d # Overworld => HouseAt(d) \subseteq TouchLocation(b, d)
  BY DEF TouchLocation
<1>4. Overworld \notin InteriorOf(p)
  BY AnswersAssumption DEF InteriorOf, TablesOK, Table, NetworkRow
<1>5. b \in DOMAIN location => location[b] \notin InteriorOf(p)
  BY <1>2, <1>3, <1>4, InteriorTouched DEF LocationStep
<1>6. b \in DOMAIN location' => location'[b] \notin InteriorOf(p)
  BY <1>2, <1>3, <1>4, InteriorTouched DEF LocationStep
<1>7. InteriorOf(p)' = InteriorOf(p)
  BY <1>1 DEF InteriorOf
<1>8. HousingBuildings(p)' = HousingBuildings(p)
  BY <1>1, <1>5, <1>6, <1>7, OtherBuildings DEF HousingBuildings
<1>9. \A x : Labels(x)' = Labels(x)
  BY <1>1 DEF Labels
<1>10. \A x : Stored(x)' = Stored(x)
  BY <1>1, <1>9, StoredFrame
<1>11. Labels(housing[p].entrance)' = Labels(housing[p].entrance)
  BY <1>1 DEF Labels
<1>12. QED
  BY <1>1, <1>2, <1>8, <1>10, <1>11, HouseSame

LEMMA HousingOfBag ==
    ASSUME TablesOK, NEW i, InventoryStep(i), NEW p \in Players, ~Woken("player_housing", p)
    PROVE  PlayerHousing(p)' = PlayerHousing(p)
<1>1. location' = location /\ housing' = housing /\ network' = network
        /\ building' = building /\ nickname' = nickname /\ named' = named
  BY DEF InventoryStep, land
<1>2. SUFFICES ASSUME p \in DOMAIN housing
               PROVE  PlayerHousing(p)' = PlayerHousing(p)
  BY <1>1, HouselessStays
<1>3. ASSUME NEW b \in HousingBuildings(p), NEW r, r.owner = b
      PROVE  HouseAt(DimOf(b)) \subseteq TouchInventory(i, r)
  <2>1. b \in DOMAIN building
    BY DEF HousingBuildings
  <2>2. b \notin DOMAIN deployable
    BY <2>1, AnswersAssumption DEF TablesOK, Table
  <2>3. HouseAt(DimOf(b)) \subseteq TouchBuilding(b, building[b].claim)
    BY DEF TouchBuilding, TouchHousingFor
  <2>4. QED
    BY <1>3, <2>1, <2>2, <2>3 DEF TouchInventory
<1>4. \A b \in HousingBuildings(p) : DimOf(b) \in InteriorOf(p)
  BY DEF HousingBuildings, DimOf
<1>5. ASSUME NEW b \in HousingBuildings(p)
      PROVE  Stored(b)' = Stored(b)
  <2>1. i \in DOMAIN inventory => inventory[i].owner # b
    BY <1>2, <1>3, <1>4, InteriorTouched DEF InventoryStep
  <2>2. i \in DOMAIN inventory' => inventory'[i].owner # b
    BY <1>2, <1>3, <1>4, InteriorTouched DEF InventoryStep
  <2>3. QED
    BY <2>1, <2>2, StoredElsewhere
<1>6. HousingBuildings(p)' = HousingBuildings(p)
  BY <1>1 DEF HousingBuildings, InteriorOf
<1>7. Labels(housing[p].entrance)' = Labels(housing[p].entrance)
  BY <1>1 DEF Labels
<1>8. QED
  BY <1>1, <1>2, <1>5, <1>6, <1>7, HouseSame

LEMMA HousingOfNetwork ==
    ASSUME NEW n, NetworkStep(n), NEW p \in Players, ~Woken("player_housing", p)
    PROVE  PlayerHousing(p)' = PlayerHousing(p)
<1>1. location' = location /\ housing' = housing /\ building' = building
        /\ nickname' = nickname /\ named' = named /\ inventory' = inventory
  BY DEF NetworkStep, bags
<1>2. SUFFICES ASSUME p \in DOMAIN housing
               PROVE  PlayerHousing(p)' = PlayerHousing(p)
  BY <1>1, HouselessStays
<1>3. p # NoId
  BY AnswersAssumption
<1>4. housing[p].network # n
  <2> SUFFICES ASSUME housing[p].network = n
               PROVE  FALSE
    OBVIOUS
  <2>1. <<"player_housing", p>> \in TouchNetwork(n)
    BY <1>2 DEF TouchNetwork
  <2>2. QED
    BY <1>3, <2>1, RecordedWakes DEF NetworkStep
<1>5. InteriorOf(p)' = InteriorOf(p)
  BY <1>1, <1>4 DEF InteriorOf, NetworkStep, Only
<1>6. HousingBuildings(p)' = HousingBuildings(p)
  BY <1>1, <1>5 DEF HousingBuildings
<1>7. \A x : Labels(x)' = Labels(x)
  BY <1>1 DEF Labels
<1>8. \A x : Stored(x)' = Stored(x)
  BY <1>1, <1>7, StoredFrame
<1>9. Labels(housing[p].entrance)' = Labels(housing[p].entrance)
  BY <1>1 DEF Labels
<1>10. QED
  BY <1>1, <1>2, <1>6, <1>8, <1>9, HouseSame

LEMMA HousingOfHouse ==
    ASSUME NEW q, HousingStep(q), NEW p \in Players, ~Woken("player_housing", p)
    PROVE  PlayerHousing(p)' = PlayerHousing(p)
<1>1. location' = location /\ network' = network /\ building' = building
        /\ nickname' = nickname /\ named' = named /\ inventory' = inventory
  BY DEF HousingStep, bags
<1>2. p # NoId
  BY AnswersAssumption
<1>3. p # q
  BY <1>2, RecordedWakes DEF HousingStep
<1>4. (p \in DOMAIN housing' <=> p \in DOMAIN housing)
        /\ (p \in DOMAIN housing => housing'[p] = housing[p])
  BY <1>3 DEF HousingStep, Only
<1>5. SUFFICES ASSUME p \in DOMAIN housing
               PROVE  PlayerHousing(p)' = PlayerHousing(p)
  BY <1>4, HouselessStays
<1>6. HousingBuildings(p)' = HousingBuildings(p)
  BY <1>1, <1>4, <1>5 DEF HousingBuildings, InteriorOf
<1>7. \A x : Labels(x)' = Labels(x)
  BY <1>1 DEF Labels
<1>8. \A x : Stored(x)' = Stored(x)
  BY <1>1, <1>7, StoredFrame
<1>9. Labels(housing[p].entrance)' = Labels(housing[p].entrance)
  BY <1>1, <1>4, <1>5 DEF Labels
<1>10. QED
  BY <1>1, <1>4, <1>5, <1>6, <1>8, <1>9, HouseSame

LEMMA HousingSteps ==
    ASSUME WInv, [Next]_vars, NEW p \in Players, PlayerHousing(p)' # PlayerHousing(p)
    PROVE  Woken("player_housing", p) \/ EntranceRow \/ row'[1] = "name"
<1> DEFINE Goal == Woken("player_housing", p) \/ EntranceRow \/ row'[1] = "name"
           Read == <<building, nickname, location, network, housing, named, inventory>>
<1>1. TablesOK
  BY TypeOKIs DEF WInv
<1>2. CASE UNCHANGED Read
  BY <1>2, HousingFrame
<1>3. ASSUME NEW b, BuildingStep(b) \/ NicknameStep(b)
      PROVE  Goal
  BY <1>1, <1>3, HousingOfBuilding
<1>4. ASSUME NEW b, LocationStep(b)
      PROVE  Goal
  BY <1>1, <1>4, HousingOfLocation
<1>5. ASSUME NEW i, InventoryStep(i)
      PROVE  Goal
  BY <1>1, <1>5, HousingOfBag
<1>6. ASSUME NEW n, NetworkStep(n) \/ HousingStep(n) \/ NameStep(n)
      PROVE  Goal
  BY <1>6, HousingOfNetwork, HousingOfHouse DEF NameStep
<1>7. ASSUME Next
      PROVE  Goal
  <2>1. UNCHANGED Read => Goal
    BY <1>2
  <2>2. ASSUME \/ \E d : DeployableStep(d)
               \/ \E t \in CraftTables : \E k : CraftStep(t, k)
               \/ \E k : PublicStep(k)
               \/ \E m : MemberStep(m)
               \/ \E t \in ProfileTables : \E q : ProfileStep(t, q)
        PROVE  UNCHANGED Read
    BY <2>2 DEF DeployableStep, CraftStep, PublicStep, MemberStep, ProfileStep, land, bags
  <2> HIDE DEF Goal, Read
  <2>3. QED
    BY <1>1, <1>3, <1>4, <1>5, <1>6, <1>7, <2>1, <2>2, Steps
<1>8. CASE UNCHANGED vars
  BY <1>2, <1>8 DEF vars, land, bags
<1>9. QED
  BY <1>7, <1>8

\* A row of any table that changes a house wakes it, but for the owner's name
\* and the labels of its entrance.
THEOREM PlayerHousingWakesHolds == Spec => PlayerHousingWakes
<1>1. WInv /\ [Next]_vars =>
        [\A p \in Players :
            PlayerHousing(p)' # PlayerHousing(p) =>
                Woken("player_housing", p) \/ EntranceRow \/ row'[1] = "name"]_vars
  <2> SUFFICES ASSUME WInv, [Next]_vars
               PROVE  \A p \in Players :
                        PlayerHousing(p)' # PlayerHousing(p) =>
                          Woken("player_housing", p) \/ EntranceRow \/ row'[1] = "name"
    OBVIOUS
  <2>1. QED
    BY HousingSteps
<1>2. QED
  BY WInvHolds, <1>1, PTL DEF Spec, PlayerHousingWakes

-----------------------------------------------------------------------------
(* A transaction: its rows in turn, then one flush of all they touched.    *)

VARIABLES
    batch,  \* the keys recorded since the last commit
    due     \* the keys a flush after every row would have notified since

BatchInit == Init /\ batch = {} /\ due = {}

\* apply_rows records the touches of one row.
BatchRow == Next /\ batch' = batch \cup touched' /\ due' = due \cup Flush(touched)'

\* TouchBatch::flush, after the write lock is released.
Commit == batch' = {} /\ due' = {} /\ UNCHANGED vars

Batches == BatchInit /\ [][BatchRow \/ Commit]_<<vars, batch, due>>

\* Flushing the batch now notifies every key that a flush after each of its rows
\* would have notified (apply_transaction, TouchBatch::flush).
NothingLost == due \subseteq Flush(batch)

\* A row takes nothing away from what the touches so far will wake.
LEMMA FlushKept ==
    ASSUME WInv, [Next]_vars, NEW S
    PROVE  Flush(S) \subseteq Flush(S \cup touched)'
<1> DEFINE listed == {<<"claim_members", pc[2]>> :
                        pc \in {q \in index' : <<"member_player", q[1]>> \in S \cup touched'}}
           own == {x \in S \cup touched' : x[1] # "member_player" /\ x[2] # NoId}
<1>1. Flush(S \cup touched)' = own \cup listed
  BY DEF Flush
<1>2. Flush(touched)' \subseteq own \cup listed
  BY DEF Flush
<1>3. ASSUME NEW pc \in index, <<"member_player", pc[1]>> \in S
      PROVE  <<"claim_members", pc[2]>> \in own \cup listed
  <2>1. CASE pc \in index'
    BY <1>3, <2>1
  <2>2. CASE pc \notin index'
    <3>1. <<"claim_members", pc[2]>> \in Flush(touched)'
      BY <2>2, Forgotten DEF Woken
    <3>2. QED
      BY <1>2, <3>1
  <2>3. QED
    BY <2>1, <2>2
<1>4. \A x \in S : x[1] # "member_player" /\ x[2] # NoId => x \in own
  OBVIOUS
<1>5. QED
  <2> HIDE DEF own, listed
  <2>1. QED
    BY <1>1, <1>3, <1>4 DEF Flush

\* Transactions apply rows and nothing else.
LEMMA RowsOfBatches == Batches => Spec
<1>1. BatchInit => Init
  BY DEF BatchInit
<1>2. [BatchRow \/ Commit]_<<vars, batch, due>> => [Next]_vars
  BY DEF BatchRow, Commit
<1>3. QED
  BY <1>1, <1>2, PTL DEF Batches, Spec

\* The flush at a transaction's end, with the index its last row leaves, wakes
\* every key that a flush after each of its rows would have woken: a row that
\* takes a player off the index after an earlier row touched the player wakes
\* the roster in the index's place.
THEOREM TransactionsWake == Batches => []NothingLost
<1>1. BatchInit => NothingLost
  BY DEF BatchInit, NothingLost
<1>2. ASSUME WInv, NothingLost, [BatchRow \/ Commit]_<<vars, batch, due>>
      PROVE  NothingLost'
  <2>1. CASE BatchRow
    <3> PICK S : S = batch
      OBVIOUS
    <3>1. Flush(batch)' = Flush(S \cup touched)'
      BY <2>1 DEF BatchRow, Flush
    <3>2. Flush(batch) \subseteq Flush(batch)'
      BY <1>2, <2>1, <3>1, FlushKept DEF BatchRow
    <3>3. Flush(touched)' \subseteq Flush(batch)'
      BY <2>1 DEF BatchRow, Flush
    <3>4. QED
      BY <1>2, <2>1, <3>2, <3>3 DEF BatchRow, NothingLost
  <2>2. CASE Commit
    BY <2>2 DEF Commit, NothingLost
  <2>3. CASE UNCHANGED <<vars, batch, due>>
    BY <1>2, <2>3 DEF NothingLost, Flush, vars, people
  <2>4. QED
    BY <1>2, <2>1, <2>2, <2>3
<1>3. QED
  BY <1>1, <1>2, WInvHolds, RowsOfBatches, PTL DEF Batches

=============================================================================
