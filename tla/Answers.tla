------------------------------ MODULE Answers ------------------------------
(***************************************************************************)
(* The tables of one region that the HTTP joins read, and what each join   *)
(* answers. A table is a function from the primary keys present to rows.   *)
(* A label is stood for by the description id it comes from, a name by     *)
(* whether there is one, and the pockets of an inventory by the number of  *)
(* Hex Coins in them. The summary of the player or the claim at the head   *)
(* of an answer is left out, and so are recipes and the other catalogs.    *)
(***************************************************************************)
EXTENDS Naturals, FiniteSets
LOCAL INSTANCE Functions

CONSTANTS
    Players, Claims, Buildings, Networks, Bags, Deployables, Crafts, MemberRows,
    Dims,       \* housing-interior dimensions
    Overworld,  \* OVERWORLD_DIMENSION, also what a missing location reads as
    NoId,       \* entity id 0: no claim, no owner
    Descs,      \* building_description_id values
    Included,   \* those included in claim inventories: storage, not a bank
    Personal,   \* those whose name categorize_building_bag recognises
    Indexes,    \* inventory_index values: 0 to 2 are body bags
    Coins,      \* Hex Coins an inventory row can hold
    Stamps,     \* contents of an experience, player_state or mobile row
    None        \* what a lookup without a row answers

ASSUME AnswersAssumption ==
    /\ Players \cap (Buildings \cup Deployables \cup {NoId}) = {}
    /\ Buildings \cap (Deployables \cup {NoId}) = {}
    /\ NoId \notin Deployables \cup Claims
    /\ Overworld \notin Dims /\ None \notin Descs \cup Stamps
    /\ Included \subseteq Descs /\ Personal \subseteq Descs
    /\ Indexes \subseteq Nat /\ Coins \subseteq Nat

VARIABLES
    building,   \* claim and description of each building
    nickname,   \* the buildings with a nickname
    named,      \* the players and claims with a username or claim_state row
    location,   \* dimension of each located entity
    network,    \* entrance dimension and entrance building of each network
    housing,    \* network and entrance building of each player's house
    inventory,  \* owner, player_owner, index and coins of each bag
    deployable, \* owner of each deployable
    crafts,     \* owner and building of each craft, per craft table
    public,     \* the rows that mark a progressive craft public
    member,     \* player and claim of each member row
    profile     \* experience, player_state and mobile_entity rows

land == <<building, nickname, named, location, network, housing>>
bags == <<inventory, deployable>>
work == <<crafts, public>>

CraftTables == {"progressive_action", "passive_craft"}
ProfileTables == {"experience", "player_state", "mobile_entity"}
OwnerIds == Players \cup Buildings \cup Deployables \cup {NoId}
BuildingRow == [claim : Claims \cup {NoId}, desc : Descs]
NetworkRow == [dim : Dims, building : Buildings]
HousingRow == [network : Networks, entrance : Buildings]
BagRow == [owner : OwnerIds, playerOwner : Players \cup {NoId}, index : Indexes, coins : Coins]
CraftRow == [owner : Players, building : Buildings]
MemberRow == [player : Players, claim : Claims]

\* t is a table with rows in R under keys in K.
Table(t, K, R) == DOMAIN t \subseteq K /\ t \in [DOMAIN t -> R]

TablesOK ==
    /\ Table(building, Buildings, BuildingRow)
    /\ nickname \subseteq Buildings /\ named \subseteq Players \cup Claims
    /\ Table(location, Buildings, Dims \cup {Overworld})
    /\ Table(network, Networks, NetworkRow)
    /\ Table(housing, Players, HousingRow)
    /\ Table(inventory, Bags, BagRow)
    /\ Table(deployable, Deployables, Players)
    /\ DOMAIN crafts = CraftTables
    /\ \A t \in CraftTables : Table(crafts[t], Crafts, CraftRow)
    /\ Table(public, Crafts, CraftRow)
    /\ Table(member, MemberRows, MemberRow)
    /\ DOMAIN profile = ProfileTables
    /\ \A t \in ProfileTables : Table(profile[t], Players, Stamps)

-----------------------------------------------------------------------------
(* Lookups the joins share.                                                *)

DimOf(b) == IF b \in DOMAIN location THEN location[b] ELSE Overworld
Labels(b) ==
    [name |-> IF b \in DOMAIN building THEN building[b].desc ELSE None,
     nickname |-> b \in nickname]
ClaimOf(b) == IF b \in DOMAIN building THEN building[b].claim ELSE NoId

\* aggregate_pockets over the bags owned by an entity.
OwnedBy(e) == {i \in DOMAIN inventory : inventory[i].owner = e}
Pockets(S) == [i \in S |-> inventory[i].coins]
Total(pockets) == FoldFunction(+, 0, pockets)
Stored(b) == [labels |-> Labels(b), items |-> Total(Pockets(OwnedBy(b)))]

-----------------------------------------------------------------------------
(* GET /claims/{id}/inventory: build_claim_inventory, dimension_meta.      *)

ClaimBuildings(c) ==
    {b \in DOMAIN building : building[b].claim = c /\ building[b].desc \in Included}

\* The entrance of a dimension; empty is the kind "unknown".
DimensionMeta(d) ==
    {[entrance |-> network[n].building, labels |-> Labels(network[n].building)] :
        n \in {m \in DOMAIN network : network[m].dim = d}}

ClaimContents(c) == [b \in ClaimBuildings(c) |-> [dim |-> DimOf(b), stored |-> Stored(b)]]
ClaimGroups(c) == [d \in {DimOf(b) : b \in ClaimBuildings(c)} |-> DimensionMeta(d)]
ClaimInventory(c) == <<ClaimContents(c), ClaimGroups(c)>>

-----------------------------------------------------------------------------
(* The crafts of a claim and of a player: craft_from_progressive, _passive.*)

Craft(t, k) ==
    LET r == crafts[t][k] IN
    [owner |-> r.owner, username |-> r.owner \in named,
     building |-> r.building, claim |-> ClaimOf(r.building),
     labels |-> IF r.building \in DOMAIN building THEN building[r.building].desc ELSE None,
     public |-> t = "progressive_action" /\ k \in DOMAIN public]

\* collect_crafts_at_claim walks the claim's buildings.
CraftsAt(t, c) == {k \in DOMAIN crafts[t] : ClaimOf(crafts[t][k].building) = c}
ClaimCrafts(c) == [t \in CraftTables |-> [k \in CraftsAt(t, c) |-> Craft(t, k)]]

\* collect_crafts_for_player walks the crafts the player owns.
CraftsBy(t, p) == {k \in DOMAIN crafts[t] : crafts[t][k].owner = p}
PlayerCrafts(p) == [t \in CraftTables |-> [k \in CraftsBy(t, p) |-> Craft(t, k)]]

-----------------------------------------------------------------------------
(* The personal bags of a player.                                          *)

\* Operators named ...Mutant are plausible bugs; PROJECT.json pairs each with
\* the definition it replaces and the property that must catch it.
CandidatesMutant(p) ==
    OwnedBy(p)
        \cup {i \in DOMAIN inventory : inventory[i].playerOwner = p}
        \cup (UNION {OwnedBy(d) : d \in {e \in DOMAIN deployable : deployable[e] = p}})

\* player_inventory_slots: where a player's bags are looked for.
Candidates(p) ==
    LET mine == {d \in DOMAIN deployable : deployable[d] = p} IN
    OwnedBy(p)
        \cup {i \in DOMAIN inventory : inventory[i].playerOwner = p}
        \cup (UNION {OwnedBy(d) : d \in mine})
        \cup (mine \cap DOMAIN inventory)

\* classify_player_bag, in the order it tries them.
IsBody(i, p) == inventory[i].owner = p /\ inventory[i].index \in 0..2
IsPersonal(i, p) ==
    /\ inventory[i].playerOwner = p
    /\ inventory[i].owner \in DOMAIN building
    /\ building[inventory[i].owner].desc \in Personal
CarrierOf(i) == IF inventory[i].owner \in DOMAIN deployable THEN inventory[i].owner ELSE i
IsCarried(i, p) == CarrierOf(i) \in DOMAIN deployable /\ deployable[CarrierOf(i)] = p
IsBagOf(i, p) == IsBody(i, p) \/ IsPersonal(i, p) \/ IsCarried(i, p)

BagFields(i, p) ==
    IF IsBody(i, p) THEN <<"body", inventory[i].index>>
    ELSE IF IsPersonal(i, p)
    THEN <<"building", building[inventory[i].owner], ClaimOf(inventory[i].owner) \in named>>
    ELSE <<"deployable", CarrierOf(i)>>

BagsOf(p) == {i \in Candidates(p) : IsBagOf(i, p)}
PlayerInventory(p) ==
    [i \in BagsOf(p) |-> [fields |-> BagFields(i, p), items |-> inventory[i].coins]]

\* sum_player_hexcoins.
Hexcoins(p) == Total(Pockets(BagsOf(p)))

-----------------------------------------------------------------------------
(* GET /player/{id}/housing and GET /claims/{id}/members, one region's part*)

InteriorOf(p) ==
    {network[n].dim : n \in {housing[p].network} \cap DOMAIN network}

\* collect_housing_buildings.
HousingBuildings(p) ==
    {b \in DOMAIN building \cap DOMAIN location :
        location[b] \in InteriorOf(p) /\ building[b].desc \in Included}

PlayerHousing(p) ==
    IF p \in DOMAIN housing
    THEN <<housing[p].entrance, Labels(housing[p].entrance), p \in named,
           [b \in HousingBuildings(p) |-> Stored(b)]>>
    ELSE <<>>

Profile(p) ==
    [t \in ProfileTables |-> IF p \in DOMAIN profile[t] THEN profile[t][p] ELSE None]

RowsOfClaim(c) == {m \in DOMAIN member : member[m].claim = c}
ClaimMembers(c) ==
    [m \in RowsOfClaim(c) |->
        [player |-> member[m].player, profile |-> Profile(member[m].player),
         hexcoins |-> Hexcoins(member[m].player)]]

=============================================================================
