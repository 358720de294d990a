---------------------------- MODULE HousingRows ----------------------------
(***************************************************************************)
(* The part of a RegionStore the dim-buildings stream reads, and the row   *)
(* operations of apply_rows on it, each with the dimensions it touches.    *)
(*                                                                         *)
(* A store is a record                                                     *)
(*   loc[e]  dimension of entity e, Overworld when location_dim has no row *)
(*   bld[e]  building_description_id of building e, Absent without a row   *)
(*   incl    descriptions the building_desc catalog includes in claim      *)
(*           inventories                                                   *)
(***************************************************************************)
EXTENDS FiniteSets

CONSTANTS
    Entities,   \* entity ids
    Dims,       \* housing-interior dimensions (any dimension but 0 and 1)
    Overworld,  \* OVERWORLD_DIMENSION, also what a missing row reads as
    Descs,      \* building_description_id values
    Absent      \* no building_state row

ASSUME RowsAssumption == Overworld \notin Dims /\ Absent \notin Descs

Stores ==
    [loc : [Entities -> Dims \cup {Overworld}],
     bld : [Entities -> Descs \cup {Absent}],
     incl : SUBSET Descs]

\* RegionStore::empty.
EmptyStore ==
    [loc |-> [e \in Entities |-> Overworld],
     bld |-> [e \in Entities |-> Absent],
     incl |-> {}]

-----------------------------------------------------------------------------
(* What the stream reads.                                                  *)

\* entities_in: overworld rows are never indexed.
EntitiesIn(s, d) == IF d = Overworld THEN {} ELSE {e \in Entities : s.loc[e] = d}

\* housing_building_ids: the storage buildings located in the dimension.
HousingBuildingIds(s, d) == {e \in EntitiesIn(s, d) : s.bld[e] \in s.incl}

-----------------------------------------------------------------------------
(* What apply_rows does to a row.                                          *)

DeleteLocationMutant(s, e) == [s EXCEPT !.loc[e] = Absent]

DeleteBuilding(s, e) == [s EXCEPT !.bld[e] = Absent]
UpsertBuilding(s, e, t) == [s EXCEPT !.bld[e] = t]
DeleteLocation(s, e) == [s EXCEPT !.loc[e] = Overworld]
UpsertLocation(s, e, d) == [s EXCEPT !.loc[e] = d]
DeleteDesc(s, t) == [s EXCEPT !.incl = @ \ {t}]
UpsertDesc(s, t, included) ==
    [s EXCEPT !.incl = IF included THEN @ \cup {t} ELSE @ \ {t}]

-----------------------------------------------------------------------------
(* Which dimensions it wakes.                                              *)

TouchBuildingMutant(s, e) == {}
TouchLocationMutant(d) == {}

\* touch_building: the dimension the store has for the building now.
TouchBuilding(s, e) == {s.loc[e]} \ {Overworld}

\* touch_location_entity: the dimension of the decoded row.
TouchLocation(d) == {d} \ {Overworld}

=============================================================================
