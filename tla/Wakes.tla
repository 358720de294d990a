------------------------------- MODULE Wakes -------------------------------
(***************************************************************************)
(* apply_rows on the tables of one region, row by row, with the            *)
(* subscription keys each row touches and what a flush makes of them. The  *)
(* question is whether a subscriber of an answer is woken by every row     *)
(* that changes it. A transaction flushes its rows' touches together, with *)
(* the index its last row leaves: WakesProofs shows that this wakes all a  *)
(* flush after every row would.                                            *)
(*                                                                         *)
(* Rows come from the mirror: an update is a delete and an insert, a       *)
(* dimension has one network and a network one house, a player one member  *)
(* row per claim, and a public row repeats the owner and the building of   *)
(* its craft.                                                              *)
(***************************************************************************)
EXTENDS Answers

CONSTANT MaxRows  \* bound on the rows of the region

VARIABLES
    index,     \* the hub's player-to-claims index
    row,       \* the table and the primary key of the last row applied
    touched    \* the keys the batch records for it

people == <<member, index, profile>>
vars == <<land, bags, work, people, row, touched>>

Put(t, k, r) == [j \in DOMAIN t \cup {k} |-> IF j = k THEN r ELSE t[j]]
Drop(t, k) == [j \in DOMAIN t \ {k} |-> t[j]]

-----------------------------------------------------------------------------
(* What a row touches.                                                     *)

OwnMutant(p) == {<<"player_inv", p>>}
Own(p) == {<<"player_inv", p>>, <<"member_player", p>>}

\* The house whose interior is dimension d: its network, then its owner.
HouseAt(d) ==
    {<<"player_housing", p>> : p \in {q \in DOMAIN housing :
        housing[q].network \in DOMAIN network /\ network[housing[q].network].dim = d}}

\* Operators named ...Mutant are plausible bugs; PROJECT.json pairs each with
\* the definition it replaces and the property that must catch it.
TouchHousingForMutant(e) == {}
TouchHousingFor(e) == HouseAt(DimOf(e))

Interior(d) == IF d = Overworld THEN {} ELSE {<<"dim_buildings", d>>}

TouchBuilding(b, c) ==
    {<<"claim_inv", c>>, <<"claim_crafts", c>>}
        \cup Interior(DimOf(b)) \cup TouchHousingFor(b)

TouchInventoryMutant(i, r) ==
    Own(r.playerOwner)
        \cup (IF r.owner \in DOMAIN building
              THEN TouchBuilding(r.owner, building[r.owner].claim) ELSE Own(r.owner))

TouchInventory(i, r) ==
    Own(r.playerOwner)
        \cup (IF r.owner \in DOMAIN deployable THEN Own(deployable[r.owner])
              ELSE IF r.owner \in DOMAIN building
              THEN TouchBuilding(r.owner, building[r.owner].claim)
              ELSE Own(r.owner))
        \cup (IF i \in DOMAIN deployable THEN Own(deployable[i]) ELSE {})

TouchCraftMutant(r) == {<<"player_crafts", r.owner>>}
TouchCraft(r) == {<<"player_crafts", r.owner>>, <<"claim_crafts", ClaimOf(r.building)>>}

TouchBuildingEntity(e) ==
    IF e \in DOMAIN building THEN TouchBuilding(e, building[e].claim) ELSE TouchHousingFor(e)

TouchLocationMutant(e, d) == IF d = Overworld THEN {} ELSE Interior(d) \cup HouseAt(d)

TouchLocation(e, d) ==
    IF d = Overworld THEN {}
    ELSE Interior(d) \cup HouseAt(d) \cup {<<"claim_inv", ClaimOf(e)>>}

TouchNetwork(n) ==
    {<<"player_housing", p>> : p \in {q \in DOMAIN housing : housing[q].network = n}}

\* TouchBatch: id 0 is never recorded, and a touched player stands for the
\* rosters the index lists for the player.
FlushMutant(T) ==
    {x \in T : x[1] # "member_player"}
        \cup {<<"claim_members", pc[2]>> : pc \in {q \in index : <<"member_player", q[1]>> \in T}}

Flush(T) ==
    {x \in T : x[1] # "member_player" /\ x[2] # NoId}
        \cup {<<"claim_members", pc[2]>> : pc \in {q \in index : <<"member_player", q[1]>> \in T}}

Applied(table, k, T) == row' = <<table, k>> /\ touched' = T

Woken(topic, id) == <<topic, id>> \in Flush(touched)'

-----------------------------------------------------------------------------
(* The rows of land: touches of a delete are recorded before the row goes, *)
(* touches of an insert after it is in.                                    *)

DeleteBuilding(b) ==
    /\ b \in DOMAIN building
    /\ Applied("building", b, TouchBuilding(b, building[b].claim))
    /\ building' = Drop(building, b)
    /\ UNCHANGED <<nickname, named, location, network, housing, bags, work, people>>

InsertBuilding(b, r) ==
    /\ b \notin DOMAIN building
    /\ building' = Put(building, b, r)
    /\ Applied("building", b, TouchBuilding(b, r.claim))
    /\ UNCHANGED <<nickname, named, location, network, housing, bags, work, people>>

DeleteNickname(b) ==
    /\ b \in nickname
    /\ Applied("nickname", b, TouchBuildingEntity(b))
    /\ nickname' = nickname \ {b}
    /\ UNCHANGED <<building, named, location, network, housing, bags, work, people>>

InsertNickname(b) ==
    /\ b \notin nickname
    /\ nickname' = nickname \cup {b}
    /\ Applied("nickname", b, TouchBuildingEntity(b))
    /\ UNCHANGED <<building, named, location, network, housing, bags, work, people>>

\* player_username and claim_state rows touch nothing.
DeleteName(x) ==
    /\ x \in named
    /\ Applied("name", x, {})
    /\ named' = named \ {x}
    /\ UNCHANGED <<building, nickname, location, network, housing, bags, work, people>>

InsertName(x) ==
    /\ x \notin named
    /\ Applied("name", x, {})
    /\ named' = named \cup {x}
    /\ UNCHANGED <<building, nickname, location, network, housing, bags, work, people>>

DeleteLocation(b) ==
    /\ b \in DOMAIN location
    /\ Applied("location", b, TouchLocation(b, location[b]))
    /\ location' = Drop(location, b)
    /\ UNCHANGED <<building, nickname, named, network, housing, bags, work, people>>

InsertLocation(b, d) ==
    /\ b \notin DOMAIN location
    /\ location' = Put(location, b, d)
    /\ Applied("location", b, TouchLocation(b, d))
    /\ UNCHANGED <<building, nickname, named, network, housing, bags, work, people>>

DeleteNetwork(n) ==
    /\ n \in DOMAIN network
    /\ Applied("network", n, TouchNetwork(n))
    /\ network' = Drop(network, n)
    /\ UNCHANGED <<building, nickname, named, location, housing, bags, work, people>>

InsertNetwork(n, r) ==
    /\ n \notin DOMAIN network
    /\ \A m \in DOMAIN network : network[m].dim # r.dim
    /\ network' = Put(network, n, r)
    /\ Applied("network", n, TouchNetwork(n))
    /\ UNCHANGED <<building, nickname, named, location, housing, bags, work, people>>

DeleteHousing(p) ==
    /\ p \in DOMAIN housing
    /\ Applied("housing", p, {<<"player_housing", p>>})
    /\ housing' = Drop(housing, p)
    /\ UNCHANGED <<building, nickname, named, location, network, bags, work, people>>

InsertHousing(p, r) ==
    /\ p \notin DOMAIN housing
    /\ \A q \in DOMAIN housing : housing[q].network # r.network
    /\ Applied("housing", p, {<<"player_housing", p>>})
    /\ housing' = Put(housing, p, r)
    /\ UNCHANGED <<building, nickname, named, location, network, bags, work, people>>

-----------------------------------------------------------------------------
(* Bags and what carries them.                                             *)

DeleteInventory(i) ==
    /\ i \in DOMAIN inventory
    /\ Applied("inventory", i, TouchInventory(i, inventory[i]))
    /\ inventory' = Drop(inventory, i)
    /\ UNCHANGED <<land, deployable, work, people>>

InsertInventory(i, r) ==
    /\ i \notin DOMAIN inventory
    /\ Applied("inventory", i, TouchInventory(i, r))
    /\ inventory' = Put(inventory, i, r)
    /\ UNCHANGED <<land, deployable, work, people>>

DeleteDeployable(d) ==
    /\ d \in DOMAIN deployable
    /\ Applied("deployable", d, {<<"player_inv", deployable[d]>>})
    /\ deployable' = Drop(deployable, d)
    /\ UNCHANGED <<land, inventory, work, people>>

\* An insert over a row that is still there touches its old owner as well.
InsertDeployable(d, p) ==
    /\ Applied("deployable", d, {<<"player_inv", p>>}
            \cup {<<"player_inv", deployable[e]>> : e \in {d} \cap DOMAIN deployable})
    /\ deployable' = Put(deployable, d, p)
    /\ UNCHANGED <<land, inventory, work, people>>

-----------------------------------------------------------------------------
(* Crafts and the rows that mark them public.                              *)

DeleteCraft(t, k) ==
    /\ k \in DOMAIN crafts[t]
    /\ Applied(t, k, TouchCraft(crafts[t][k]))
    /\ crafts' = [crafts EXCEPT ![t] = Drop(@, k)]
    /\ UNCHANGED <<land, bags, public, people>>

InsertCraft(t, k, r) ==
    /\ t = "progressive_action" /\ k \in DOMAIN public => public[k] = r
    /\ Applied(t, k, TouchCraft(r)
            \cup (UNION {TouchCraft(crafts[t][j]) : j \in {k} \cap DOMAIN crafts[t]}))
    /\ crafts' = [crafts EXCEPT ![t] = Put(@, k, r)]
    /\ UNCHANGED <<land, bags, public, people>>

DeletePublic(k) ==
    /\ k \in DOMAIN public
    /\ Applied("public", k, TouchCraft(public[k]))
    /\ public' = Drop(public, k)
    /\ UNCHANGED <<land, bags, crafts, people>>

InsertPublic(k, r) ==
    /\ k \notin DOMAIN public
    /\ k \in DOMAIN crafts["progressive_action"] => crafts["progressive_action"][k] = r
    /\ Applied("public", k, TouchCraft(r))
    /\ public' = Put(public, k, r)
    /\ UNCHANGED <<land, bags, crafts, people>>

-----------------------------------------------------------------------------
(* Member rows keep the hub's index; the rows of a member wake the rosters *)
(* the index lists.                                                        *)

DeleteMember(m) ==
    /\ m \in DOMAIN member
    /\ index' = index \ {<<member[m].player, member[m].claim>>}
    /\ Applied("member", m, {<<"claim_members", member[m].claim>>})
    /\ member' = Drop(member, m)
    /\ UNCHANGED <<land, bags, work, profile>>

\* An insert over a row that is still there forgets what the row said.
InsertMember(m, r) ==
    /\ \A j \in DOMAIN member \ {m} : member[j] # r
    /\ index' = (index \ {<<member[j].player, member[j].claim>> : j \in {m} \cap DOMAIN member})
                    \cup {<<r.player, r.claim>>}
    /\ Applied("member", m, {<<"claim_members", r.claim>>}
            \cup {<<"claim_members", member[j].claim>> : j \in {m} \cap DOMAIN member})
    /\ member' = Put(member, m, r)
    /\ UNCHANGED <<land, bags, work, profile>>

DeleteProfile(t, p) ==
    /\ p \in DOMAIN profile[t]
    /\ Applied(t, p, {<<"member_player", p>>})
    /\ profile' = [profile EXCEPT ![t] = Drop(@, p)]
    /\ UNCHANGED <<land, bags, work, member, index>>

InsertProfile(t, p, r) ==
    /\ Applied(t, p, {<<"member_player", p>>})
    /\ profile' = [profile EXCEPT ![t] = Put(@, p, r)]
    /\ UNCHANGED <<land, bags, work, member, index>>

-----------------------------------------------------------------------------

Init ==
    /\ building = <<>> /\ nickname = {} /\ named = {} /\ location = <<>> /\ network = <<>>
    /\ housing = <<>> /\ inventory = <<>> /\ deployable = <<>>
    /\ crafts = [t \in CraftTables |-> <<>>] /\ public = <<>>
    /\ member = <<>> /\ profile = [t \in ProfileTables |-> <<>>]
    /\ index = {} /\ row = <<"none", NoId>> /\ touched = {}

Delete ==
    \/ \E b \in Buildings : DeleteBuilding(b) \/ DeleteNickname(b) \/ DeleteLocation(b)
    \/ \E x \in Players \cup Claims : DeleteName(x)
    \/ \E n \in Networks : DeleteNetwork(n)
    \/ \E p \in Players : DeleteHousing(p) \/ \E t \in ProfileTables : DeleteProfile(t, p)
    \/ \E i \in Bags : DeleteInventory(i)
    \/ \E d \in Deployables : DeleteDeployable(d)
    \/ \E k \in Crafts : DeletePublic(k) \/ \E t \in CraftTables : DeleteCraft(t, k)
    \/ \E m \in MemberRows : DeleteMember(m)

Insert ==
    \/ \E b \in Buildings :
        \/ \E r \in BuildingRow : InsertBuilding(b, r)
        \/ InsertNickname(b)
        \/ \E d \in Dims \cup {Overworld} : InsertLocation(b, d)
    \/ \E x \in Players \cup Claims : InsertName(x)
    \/ \E n \in Networks, r \in NetworkRow : InsertNetwork(n, r)
    \/ \E p \in Players :
        \/ \E r \in HousingRow : InsertHousing(p, r)
        \/ \E t \in ProfileTables, r \in Stamps : InsertProfile(t, p, r)
    \/ \E i \in Bags, r \in BagRow : InsertInventory(i, r)
    \/ \E d \in Deployables, p \in Players : InsertDeployable(d, p)
    \/ \E k \in Crafts, r \in CraftRow :
        InsertPublic(k, r) \/ \E t \in CraftTables : InsertCraft(t, k, r)
    \/ \E m \in MemberRows, r \in MemberRow : InsertMember(m, r)

Rows ==
    Cardinality(DOMAIN building) + Cardinality(nickname) + Cardinality(named)
        + Cardinality(DOMAIN location)
        + Cardinality(DOMAIN network) + Cardinality(DOMAIN housing)
        + Cardinality(DOMAIN inventory) + Cardinality(DOMAIN deployable)
        + Cardinality({tk \in CraftTables \X Crafts : tk[2] \in DOMAIN crafts[tk[1]]})
        + Cardinality(DOMAIN public) + Cardinality(DOMAIN member)
        + Cardinality({tp \in ProfileTables \X Players : tp[2] \in DOMAIN profile[tp[1]]})

Next == Delete \/ (Rows < MaxRows /\ Insert)

Spec == Init /\ [][Next]_vars

-----------------------------------------------------------------------------
(* Properties.                                                             *)

Touchable ==
    ({"player_inv", "player_housing", "player_crafts", "member_player"} \X OwnerIds)
        \cup ({"claim_inv", "claim_crafts", "claim_members"} \X (Claims \cup {NoId}))
        \cup ({"dim_buildings"} \X Dims)

\* The tables hold rows of their types, rows touch keys of their topics, and
\* the keys a flush notifies name a player, a claim or a dimension.
TypeOK ==
    /\ TablesOK
    /\ index \subseteq Players \X Claims
    /\ touched \subseteq Touchable
    /\ \A x \in Flush(touched) : x[1] # "member_player" /\ x[2] # NoId

\* What classify_player_bag would accept is among the rows
\* player_inventory_slots offers it: the joins walk indexes, not the table,
\* so a bag the three sources miss would silently leave the inventory and the
\* Hex Coins of its player, as deployable bags without player_owner once did.
CandidatesComplete ==
    \A p \in Players, i \in DOMAIN inventory : IsBagOf(i, p) => i \in Candidates(p)

\* The last row described an entity that is the entrance of some interior.
EntranceRow ==
    /\ row'[1] \in {"building", "nickname"}
    /\ \/ \E n \in DOMAIN network : network[n].building = row'[2]
       \/ \E p \in DOMAIN housing : housing[p].entrance = row'[2]

\* A row that changes what a claim's inventory answers wakes its subscribers.
\* The join reads more than the touches follow: the network rows that name
\* the entrance of an interior, and the labels of that entrance, which may
\* stand in another claim.
ClaimInventoryWakes ==
    [][\A c \in Claims :
        ClaimInventory(c)' # ClaimInventory(c) =>
            Woken("claim_inv", c) \/ row'[1] = "network" \/ EntranceRow]_vars

\* A row that changes the crafts of a claim wakes them, and one that changes
\* the crafts of a player wakes those, except the rows of what they are shown
\* with: the owner's name and, for a player, the building with its claim.
CraftsWake ==
    [][/\ \A c \in Claims :
            ClaimCrafts(c)' # ClaimCrafts(c) => Woken("claim_crafts", c) \/ row'[1] = "name"
       /\ \A p \in Players :
            PlayerCrafts(p)' # PlayerCrafts(p) =>
                Woken("player_crafts", p) \/ row'[1] \in {"building", "name"}]_vars

\* The last row was a deployable whose bag is another deployable: the bag goes
\* to the owner of the one that holds it, and back when that one is gone.
NestedRow ==
    /\ row'[1] = "deployable"
    /\ \E i \in DOMAIN inventory \cap DOMAIN deployable :
          i # row'[2] /\ inventory[i].owner = row'[2]

\* A row that changes the bags of a player wakes their inventory, except the
\* name of a claim, a building row, which decides whether a bag in it counts as
\* personal, and a deployable that takes a bag from, or gives it back to, the
\* deployable the bag is.
PlayerInventoryWakes ==
    [][\A p \in Players :
        PlayerInventory(p)' # PlayerInventory(p) =>
            Woken("player_inv", p) \/ row'[1] \in {"building", "name"} \/ NestedRow]_vars

\* A row that changes a house wakes it, except the name of its owner and the
\* labels of its entrance, which stands outside the interior the touches
\* follow.
PlayerHousingWakes ==
    [][\A p \in Players :
        PlayerHousing(p)' # PlayerHousing(p) =>
            Woken("player_housing", p) \/ EntranceRow \/ row'[1] = "name"]_vars

\* A row that changes a roster wakes it, through the player-to-claims index
\* when the row is a member's and not the membership's, except the rows that
\* decide whose a bag is without being one: deployables and buildings. A row
\* that takes a player off the index wakes the roster itself: an earlier row
\* of the transaction may have counted on the index to wake it.
RosterWakes ==
    [][/\ \A c \in Claims :
            ClaimMembers(c)' # ClaimMembers(c) =>
                Woken("claim_members", c) \/ row'[1] \in {"deployable", "building"}
       /\ \A pc \in index \ index' : Woken("claim_members", pc[2])]_vars

=============================================================================
