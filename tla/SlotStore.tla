------------------------------ MODULE SlotStore ------------------------------
(***************************************************************************)
(* A columnar table of the region store (src/.../store/*.rs): columns that *)
(* share a slot number, a primary-key map, a LIFO list of freed slots and  *)
(* the secondary indexes by which the queries find rows.                   *)
(*                                                                         *)
(* The stores repeat one scheme by hand and differ in which indexes they   *)
(* keep and which rows an index takes; a store is a record of that:        *)
(*   index   the policy of each secondary index                            *)
(*   resets  delete blanks the indexed columns, not only the entity id     *)
(* Only the indexed columns are kept here, each holding the set of keys    *)
(* the row names (one key, except for a whitelist, taken to name a player  *)
(* once).  Every call runs under the region's write lock, so a step is a   *)
(* whole call.                                                             *)
(***************************************************************************)
EXTENDS Integers, Sequences

CONSTANTS
    Ids,      \* primary keys
    Keys,     \* values of the indexed columns
    Zero,     \* the key 0, which some indexes skip
    Nobody,   \* entity_id 0, in the column of a freed slot
    MaxSlots  \* bound: length of the columns

ASSUME StoreAssumption == Zero \in Keys /\ Nobody \notin Ids /\ MaxSlots \in Nat

Slots == 1..MaxSlots

-----------------------------------------------------------------------------
(* The stores.  An index takes every row, only rows whose key is not 0,    *)
(* every key of a list, or keeps one slot per key.                         *)

Building == [index |-> [by_claim |-> "every", by_desc |-> "every"], resets |-> FALSE]
ClaimMember == [index |-> [by_claim |-> "every"], resets |-> TRUE]
Inventory == [index |-> [by_owner |-> "every", by_player_owner |-> "nonzero"], resets |-> FALSE]
Deployable == [index |-> [by_owner |-> "nonzero"], resets |-> TRUE]
ProgressiveAction == [index |-> [by_owner |-> "every", by_building |-> "every"], resets |-> FALSE]
PassiveCraft == [index |-> [by_owner |-> "every", by_building |-> "every"], resets |-> FALSE]
StorageLog ==
    [index |-> [by_storage |-> "every", by_player |-> "every", by_item |-> "every"],
     resets |-> FALSE]
Rent == [index |-> [by_player |-> "list"], resets |-> TRUE]
PlayerHousing == [index |-> [by_network |-> "unique"], resets |-> TRUE]

\* Stores without an index; "unindexed" is a column that no index follows.
Claim == [index |-> [name |-> "unindexed"], resets |-> FALSE]
ClaimLocal == [index |-> [supplies |-> "unindexed"], resets |-> FALSE]
PlayerUsername == [index |-> [username |-> "unindexed"], resets |-> TRUE]
PlayerState == [index |-> [sign_in_timestamp |-> "unindexed"], resets |-> FALSE]
MobileEntity == [index |-> [timestamp_ms |-> "unindexed"], resets |-> TRUE]

Stores ==
    {Building, ClaimMember, Inventory, Deployable, ProgressiveAction, PassiveCraft,
     StorageLog, Rent, PlayerHousing,
     Claim, ClaimLocal, PlayerUsername, PlayerState, MobileEntity}

-----------------------------------------------------------------------------
VARIABLES
    store,   \* which of the stores this is
    pk,      \* pk[i]: slot of row i, 0 when there is none
    size,    \* length of the columns
    entity,  \* entity[s]: the entity_id column
    column,  \* column[s]: keys in the indexed columns, stale ones of a freed slot too
    free,    \* free_slots, pushed and popped at the end
    index,   \* index[f][k][s]: how often slot s is in the list of key k of index f
    sent     \* history: the rows as sent by the calls, by primary key

vars == <<store, pk, size, entity, column, free, index, sent>>

Fields == DOMAIN store.index
AnyRow == [Fields -> SUBSET Keys]

\* The rows a store can be given: one key per column, or a list of keys.
RowsOf(s) ==
    [DOMAIN s.index -> IF \E f \in DOMAIN s.index : s.index[f] = "list"
                       THEN SUBSET Keys ELSE {{k} : k \in Keys}]
AllRows == UNION {RowsOf(s) : s \in Stores}

\* What a column holds before its first write and after a reset.
Blank == [f \in Fields |-> IF store.index[f] = "list" THEN {} ELSE {Zero}]

\* The keys under which index f lists a row.
IndexKeys(f, r) ==
    CASE store.index[f] = "nonzero" -> r[f] \ {Zero}
      [] store.index[f] = "unindexed" -> {}
      [] OTHER -> r[f]

Live(s) == entity[s] # Nobody

Init ==
    /\ store \in Stores
    /\ pk = [i \in Ids |-> 0]
    /\ size = 0
    /\ entity = [s \in Slots |-> Nobody]
    /\ column = [s \in Slots |-> Blank]
    /\ free = <<>>
    /\ index = [f \in Fields |-> [k \in Keys |-> [s \in Slots |-> 0]]]
    /\ sent = [i \in {} |-> {}]

-----------------------------------------------------------------------------
(* Index maintenance.                                                      *)

\* Operators named ...Mutant are plausible bugs; PROJECT.json pairs each with
\* the definition it replaces and the property that must catch it.
RemoveOneMutant(list, s) == [list EXCEPT ![s] = @ - 1]

\* remove_one (and retain): the list loses one entry of the slot, if any.
RemoveOne(list, s) == [list EXCEPT ![s] = IF @ = 0 THEN 0 ELSE @ - 1]

\* push, or insert into a map of single slots.
Push(f, list, s) ==
    IF store.index[f] = "unique" THEN [t \in Slots |-> IF t = s THEN 1 ELSE 0]
                                 ELSE [list EXCEPT ![s] = @ + 1]

\* The indexes after slot s stops naming the keys `old` and starts naming
\* `new`; a key in both is left alone.
Reindex(s, old, new) ==
    [f \in Fields |-> [k \in Keys |->
        IF k \in old[f] \ new[f] THEN RemoveOne(index[f][k], s)
        ELSE IF k \in new[f] \ old[f] THEN Push(f, index[f][k], s)
        ELSE index[f][k]]]

Named(r) == [f \in Fields |-> IndexKeys(f, r)]
NoKeys == [f \in Fields |-> {}]

-----------------------------------------------------------------------------
(* upsert.                                                                 *)

SentRow(i, r) == sent' = [j \in DOMAIN sent \cup {i} |-> IF j = i THEN r ELSE sent[j]]

WriteAtMutant(s, i, r) == entity' = [entity EXCEPT ![s] = i] /\ UNCHANGED column

WriteAt(s, i, r) ==
    /\ entity' = [entity EXCEPT ![s] = i]
    /\ column' = [column EXCEPT ![s] = r]

ReplaceMutant(i, r) ==
    /\ pk[i] # 0
    /\ WriteAt(pk[i], i, r)
    /\ index' = Reindex(pk[i], Named(column'[pk[i]]), Named(r))
    /\ SentRow(i, r)
    /\ UNCHANGED <<store, pk, size, free>>

\* The row exists: overwrite its slot, move it in the indexes whose key changed.
Replace(i, r) ==
    /\ pk[i] # 0
    /\ WriteAt(pk[i], i, r)
    /\ index' = Reindex(pk[i], Named(column[pk[i]]), Named(r))
    /\ SentRow(i, r)
    /\ UNCHANGED <<store, pk, size, free>>

ReuseSlotMutant(i, r) ==
    /\ pk[i] = 0
    /\ free # <<>>
    /\ LET s == free[Len(free)]
       IN  /\ WriteAt(s, i, r)
           /\ pk' = [pk EXCEPT ![i] = s]
           /\ index' = Reindex(s, NoKeys, Named(r))
    /\ SentRow(i, r)
    /\ UNCHANGED <<store, size, free>>

\* alloc_slot found a freed slot; its stale columns are overwritten.
ReuseSlot(i, r) ==
    /\ pk[i] = 0
    /\ free # <<>>
    /\ LET s == free[Len(free)]
       IN  /\ WriteAt(s, i, r)
           /\ pk' = [pk EXCEPT ![i] = s]
           /\ index' = Reindex(s, NoKeys, Named(r))
    /\ free' = SubSeq(free, 1, Len(free) - 1)
    /\ SentRow(i, r)
    /\ UNCHANGED <<store, size>>

\* alloc_slot extends every column.
ExtendColumns(i, r) ==
    /\ pk[i] = 0
    /\ free = <<>>
    /\ size < MaxSlots
    /\ size' = size + 1
    /\ WriteAt(size + 1, i, r)
    /\ pk' = [pk EXCEPT ![i] = size + 1]
    /\ index' = Reindex(size + 1, NoKeys, Named(r))
    /\ SentRow(i, r)
    /\ UNCHANGED <<store, free>>

DeleteMutant(i) ==
    /\ pk[i] # 0
    /\ entity' = [entity EXCEPT ![pk[i]] = Nobody]
    /\ free' = Append(free, pk[i])
    /\ pk' = [pk EXCEPT ![i] = 0]
    /\ sent' = [j \in DOMAIN sent \ {i} |-> sent[j]]
    /\ UNCHANGED <<store, size, column, index>>

\* delete of a row that exists; for another it returns at once.
Delete(i) ==
    /\ pk[i] # 0
    /\ LET s == pk[i]
       IN  /\ index' = Reindex(s, Named(column[s]), NoKeys)
           /\ entity' = [entity EXCEPT ![s] = Nobody]
           /\ column' = [column EXCEPT ![s] = IF store.resets THEN Blank ELSE @]
           /\ free' = Append(free, s)
    /\ pk' = [pk EXCEPT ![i] = 0]
    /\ sent' = [j \in DOMAIN sent \ {i} |-> sent[j]]
    /\ UNCHANGED <<store, size>>

\* clear_store replaces the whole region store by an empty one.
Clear ==
    /\ pk' = [i \in Ids |-> 0]
    /\ size' = 0
    /\ entity' = [s \in Slots |-> Nobody]
    /\ column' = [s \in Slots |-> Blank]
    /\ free' = <<>>
    /\ index' = [f \in Fields |-> [k \in Keys |-> [s \in Slots |-> 0]]]
    /\ sent' = [i \in {} |-> {}]
    /\ UNCHANGED store

Next ==
    \/ \E i \in Ids : \E r \in RowsOf(store) :
          Replace(i, r) \/ ReuseSlot(i, r) \/ ExtendColumns(i, r)
    \/ \E i \in Ids : Delete(i)
    \/ Clear

Spec == Init /\ [][Next]_vars

-----------------------------------------------------------------------------
(* Properties.                                                             *)

\* Every variable keeps its type.
TypeOK ==
    /\ store \in Stores
    /\ pk \in [Ids -> {0} \cup Slots]
    /\ size \in 0..MaxSlots
    /\ entity \in [Slots -> Ids \cup {Nobody}]
    /\ column \in [Slots -> AnyRow]
    /\ free \in Seq(Slots)
    /\ index \in [Fields -> [Keys -> [Slots -> Nat]]]
    /\ DOMAIN sent \subseteq Ids

\* The primary-key map and the entity_id column agree, and the free list
\* holds each slot in use by no row exactly once: no reuse hands out a slot a
\* row still has, and no slot is lost.
SlotsExact ==
    /\ \A i \in Ids : pk[i] # 0 => entity[pk[i]] = i
    /\ \A s \in Slots : Live(s) => pk[entity[s]] = s /\ s <= size
    /\ \A s \in 1..size : Live(s) \/ \E n \in 1..Len(free) : free[n] = s
    /\ \A n \in 1..Len(free) : ~Live(free[n]) /\ free[n] <= size
    /\ \A m, n \in 1..Len(free) : free[m] = free[n] => m = n

\* A lookup by key lists every row with that key once and nothing else, after
\* any sequence of inserts, key changes, deletes and slot reuse: a freed slot
\* or an old key would put another row into the answer.
LookupsExact ==
    \A f \in Fields : store.index[f] # "unique" =>
        \A k \in Keys, s \in Slots :
            index[f][k][s] = IF Live(s) /\ k \in IndexKeys(f, column[s]) THEN 1 ELSE 0

\* A map of single slots never answers with a freed slot or with a row of
\* another key, even while two rows claim the key.
UniqueSound ==
    \A f \in Fields : store.index[f] = "unique" =>
        \A k \in Keys, s \in Slots : index[f][k][s] # 0 =>
            /\ index[f][k][s] = 1
            /\ Live(s)
            /\ k \in column[s][f]
            /\ \A t \in Slots \ {s} : index[f][k][t] = 0

\* The columns behind the primary keys are the rows the mirror sent, as last
\* written.
Table == INSTANCE RowMap WITH
    Rows <- AllRows,
    rows <- [i \in {j \in Ids : pk[j] # 0} |-> column[pk[i]]]
RowsAreKept == Table!Spec

=============================================================================
