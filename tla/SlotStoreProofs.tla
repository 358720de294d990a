-------------------------- MODULE SlotStoreProofs --------------------------
(***************************************************************************)
(* The columnar stores, for any number of rows, keys and slots: types, the *)
(* bookkeeping of slots, exact lookups, and that the table is the map of   *)
(* rows its readers take it for.                                           *)
(***************************************************************************)
EXTENDS SlotStore, SequenceTheorems, TLAPS

Inv == TypeOK /\ SlotsExact /\ LookupsExact /\ UniqueSound

IndexType == [Fields -> [Keys -> [Slots -> Nat]]]

-----------------------------------------------------------------------------
(* Rows and the keys they name.                                            *)

LEMMA RowTypes ==
    ASSUME NEW r \in RowsOf(store)
    PROVE  r \in AnyRow
  BY DEF RowsOf, AnyRow, Fields

LEMMA BlankType == Blank \in AnyRow
  BY StoreAssumption DEF Blank, AnyRow

LEMMA NamedType ==
    ASSUME NEW r \in AnyRow
    PROVE  Named(r) \in AnyRow
  BY DEF Named, IndexKeys, AnyRow

LEMMA NoKeysType == NoKeys \in AnyRow
  BY DEF NoKeys, AnyRow

-----------------------------------------------------------------------------
(* Index maintenance.                                                      *)

LEMMA ReindexType ==
    ASSUME index \in IndexType, NEW s \in Slots, NEW old, NEW new
    PROVE  Reindex(s, old, new) \in IndexType
<1>1. ASSUME NEW f \in Fields, NEW k \in Keys
      PROVE  /\ RemoveOne(index[f][k], s) \in [Slots -> Nat]
             /\ Push(f, index[f][k], s) \in [Slots -> Nat]
  <2>1. index[f][k] \in [Slots -> Nat]
    BY DEF IndexType
  <2>2. QED
    BY <2>1 DEF RemoveOne, Push
<1>2. QED
  BY <1>1 DEF Reindex, IndexType

\* Reindex entry by entry.
LEMMA ReindexAt ==
    ASSUME index \in IndexType, NEW s \in Slots, NEW old, NEW new,
           NEW f \in Fields, NEW k \in Keys, NEW t \in Slots
    PROVE  Reindex(s, old, new)[f][k][t] =
             IF k \in old[f] \ new[f]
             THEN IF t # s THEN index[f][k][t]
                  ELSE IF index[f][k][t] = 0 THEN 0 ELSE index[f][k][t] - 1
             ELSE IF k \in new[f] \ old[f]
             THEN IF store.index[f] = "unique" THEN IF t = s THEN 1 ELSE 0
                  ELSE IF t = s THEN index[f][k][t] + 1 ELSE index[f][k][t]
             ELSE index[f][k][t]
<1>1. index[f][k] \in [Slots -> Nat]
  BY DEF IndexType
<1>2. RemoveOne(index[f][k], s)[t] =
        IF t # s THEN index[f][k][t]
        ELSE IF index[f][k][t] = 0 THEN 0 ELSE index[f][k][t] - 1
  BY <1>1 DEF RemoveOne
<1>3. Push(f, index[f][k], s)[t] =
        IF store.index[f] = "unique" THEN IF t = s THEN 1 ELSE 0
        ELSE IF t = s THEN index[f][k][t] + 1 ELSE index[f][k][t]
  BY <1>1 DEF Push
<1>4. QED
  BY <1>2, <1>3 DEF Reindex

\* A step that rewrites slot s, and reindexes it from the keys it named to the
\* keys it names, keeps every lookup exact.
LEMMA IndexStep ==
    ASSUME TypeOK, LookupsExact, UniqueSound, store' = store,
           NEW s \in Slots, NEW old, NEW new,
           index' = Reindex(s, old, new),
           \A t \in Slots \ {s} : entity'[t] = entity[t] /\ column'[t] = column[t],
           old = IF entity[s] # Nobody THEN Named(column[s]) ELSE NoKeys,
           new = IF entity'[s] # Nobody THEN Named(column'[s]) ELSE NoKeys
    PROVE  LookupsExact' /\ UniqueSound'
<1>1. index \in IndexType /\ Fields' = Fields
  BY DEF TypeOK, IndexType, Fields
<1>2. \A f \in Fields : old[f] = IF entity[s] # Nobody THEN IndexKeys(f, column[s]) ELSE {}
  BY DEF Named, NoKeys
<1>3. \A f \in Fields : new[f] = IF entity'[s] # Nobody THEN IndexKeys(f, column'[s]) ELSE {}
  BY DEF Named, NoKeys
<1>4. \A f, r : IndexKeys(f, r)' = IndexKeys(f, r')
  BY DEF IndexKeys
<1>5. LookupsExact'
  <2> SUFFICES ASSUME NEW f \in Fields, store.index[f] # "unique", NEW k \in Keys, NEW t \in Slots
               PROVE  index'[f][k][t] =
                        IF entity'[t] # Nobody /\ k \in IndexKeys(f, column'[t]) THEN 1 ELSE 0
    BY <1>1 DEF LookupsExact, Live, IndexKeys
  <2>1. index[f][k][t] = IF entity[t] # Nobody /\ k \in IndexKeys(f, column[t]) THEN 1 ELSE 0
    BY DEF LookupsExact, Live
  <2>2. QED
    BY <1>1, <1>2, <1>3, <2>1, ReindexAt
<1>6. UniqueSound'
  <2> SUFFICES ASSUME NEW f \in Fields, store.index[f] = "unique", NEW k \in Keys, NEW t \in Slots,
                      index'[f][k][t] # 0
               PROVE  /\ index'[f][k][t] = 1
                      /\ entity'[t] # Nobody
                      /\ k \in column'[t][f]
                      /\ \A u \in Slots \ {t} : index'[f][k][u] = 0
    BY <1>1 DEF UniqueSound, Live
  <2>1. \A r : IndexKeys(f, r) = r[f]
    BY DEF IndexKeys
  <2>2. \A u \in Slots : index[f][k][u] # 0 =>
            /\ index[f][k][u] = 1
            /\ entity[u] # Nobody
            /\ k \in column[u][f]
            /\ \A v \in Slots \ {u} : index[f][k][v] = 0
    BY DEF UniqueSound, Live
  <2>3. \A u \in Slots : index'[f][k][u] =
            IF k \in old[f] \ new[f]
            THEN IF u # s THEN index[f][k][u]
                 ELSE IF index[f][k][u] = 0 THEN 0 ELSE index[f][k][u] - 1
            ELSE IF k \in new[f] \ old[f] THEN IF u = s THEN 1 ELSE 0
            ELSE index[f][k][u]
    BY <1>1, ReindexAt
  <2>4. old[f] = (IF entity[s] # Nobody THEN column[s][f] ELSE {})
    BY <1>2, <2>1
  <2>5. new[f] = (IF entity'[s] # Nobody THEN column'[s][f] ELSE {})
    BY <1>3, <2>1
  <2>6. QED
    BY <2>2, <2>3, <2>4, <2>5
<1>7. QED
  BY <1>5, <1>6

-----------------------------------------------------------------------------
(* The four ways to change a slot, each with its index step.               *)

\* The row's slot is a slot and holds it.
LEMMA PkSlot ==
    ASSUME TypeOK, SlotsExact, NEW i \in Ids, pk[i] # 0
    PROVE  pk[i] \in Slots /\ entity[pk[i]] = i /\ pk[i] <= size /\ i # Nobody
  BY StoreAssumption DEF TypeOK, SlotsExact, Live, Slots

\* A call for row i adds or removes only row i.
LEMMA SentType ==
    ASSUME DOMAIN sent \subseteq Ids, NEW i \in Ids
    PROVE  /\ \A r : SentRow(i, r) => DOMAIN sent' \subseteq Ids
           /\ sent' = [j \in DOMAIN sent \ {i} |-> sent[j]] => DOMAIN sent' \subseteq Ids
  BY DEF SentRow

LEMMA ReplaceStep ==
    ASSUME Inv, NEW i \in Ids, NEW r \in AnyRow, Replace(i, r)
    PROVE  Inv'
<1> DEFINE s == pk[i]
<1>1. TypeOK /\ SlotsExact /\ LookupsExact /\ UniqueSound
  BY DEF Inv
<1>2. s \in Slots /\ entity[s] = i /\ i # Nobody
  BY <1>1, PkSlot DEF Replace
<1>3. /\ store' = store /\ pk' = pk /\ size' = size /\ free' = free
      /\ entity' = [entity EXCEPT ![s] = i] /\ column' = [column EXCEPT ![s] = r]
      /\ index' = Reindex(s, Named(column[s]), Named(r))
  BY DEF Replace, WriteAt
<1>4. entity' = entity
  BY <1>1, <1>2, <1>3 DEF TypeOK
<1>5. TypeOK'
  <2>1. DOMAIN sent' \subseteq Ids
    BY <1>1, SentType DEF Replace, TypeOK
  <2>2. QED
    BY <1>1, <1>2, <1>3, <1>4, <2>1, ReindexType DEF TypeOK, IndexType, AnyRow, Fields
<1>6. SlotsExact'
  BY <1>1, <1>3, <1>4 DEF SlotsExact, Live
<1>7. column'[s] = r /\ \A t \in Slots \ {s} : column'[t] = column[t]
  BY <1>1, <1>2, <1>3 DEF TypeOK
<1>8. LookupsExact' /\ UniqueSound'
  BY <1>1, <1>2, <1>3, <1>4, <1>7, IndexStep
<1>9. QED
  BY <1>5, <1>6, <1>8 DEF Inv

\* A slot that no row holds gets the new row i.
LEMMA InsertStep ==
    ASSUME Inv, NEW i \in Ids, NEW r \in AnyRow, NEW s \in Slots,
           pk[i] = 0, ~Live(s),
           store' = store, WriteAt(s, i, r), pk' = [pk EXCEPT ![i] = s],
           index' = Reindex(s, NoKeys, Named(r))
    PROVE  /\ LookupsExact' /\ UniqueSound'
           /\ pk' \in [Ids -> {0} \cup Slots]
           /\ entity' \in [Slots -> Ids \cup {Nobody}]
           /\ column' \in [Slots -> AnyRow]
           /\ index' \in IndexType
           /\ \A j \in Ids : pk'[j] # 0 => entity'[pk'[j]] = j
           /\ \A t \in Slots : entity'[t] # Nobody => pk'[entity'[t]] = t
           /\ entity'[s] # Nobody
           /\ \A t \in Slots \ {s} : entity'[t] = entity[t]
<1>1. TypeOK /\ SlotsExact /\ LookupsExact /\ UniqueSound /\ i # Nobody
  BY StoreAssumption DEF Inv
<1>2. /\ entity'[s] = i /\ column'[s] = r
      /\ \A t \in Slots \ {s} : entity'[t] = entity[t] /\ column'[t] = column[t]
  BY <1>1 DEF WriteAt, TypeOK
<1>3. LookupsExact' /\ UniqueSound'
  BY <1>1, <1>2, IndexStep DEF Live
<1>4. /\ pk' \in [Ids -> {0} \cup Slots]
      /\ entity' \in [Slots -> Ids \cup {Nobody}]
      /\ column' \in [Slots -> AnyRow]
  BY <1>1 DEF TypeOK, WriteAt
<1>5. index' \in IndexType
  BY <1>1, ReindexType DEF TypeOK, IndexType
<1>6. pk'[i] = s /\ \A j \in Ids \ {i} : pk'[j] = pk[j]
  BY <1>1 DEF TypeOK
<1>7. \A j \in Ids \ {i} : pk[j] # 0 => pk[j] \in Slots \ {s} /\ entity[pk[j]] = j
  BY <1>1, PkSlot, StoreAssumption DEF Live
<1>8. \A t \in Slots \ {s} : entity[t] # Nobody => entity[t] \in Ids \ {i} /\ pk[entity[t]] = t
  BY <1>1 DEF TypeOK, SlotsExact, Live, Slots
<1>9. \A j \in Ids : pk'[j] # 0 => entity'[pk'[j]] = j
  BY <1>2, <1>6, <1>7
<1>10. \A t \in Slots : entity'[t] # Nobody => pk'[entity'[t]] = t
  BY <1>2, <1>6, <1>8
<1>11. entity'[s] # Nobody /\ \A t \in Slots \ {s} : entity'[t] = entity[t]
  BY <1>1, <1>2
<1>12. QED
  BY <1>3, <1>4, <1>5, <1>9, <1>10, <1>11, Zenon

\* free_slots.pop().
LEMMA PopProperties ==
    ASSUME NEW S, NEW q \in Seq(S), q # <<>>
    PROVE  /\ SubSeq(q, 1, Len(q) - 1) \in Seq(S)
           /\ Len(SubSeq(q, 1, Len(q) - 1)) = Len(q) - 1
           /\ \A m \in 1..(Len(q) - 1) : SubSeq(q, 1, Len(q) - 1)[m] = q[m]
<1>1. Len(q) \in Nat \ {0} /\ \A m \in 1..Len(q) : q[m] \in S
  BY EmptySeq, LenProperties, ElementOfSeq
<1>2. PICK n \in Nat : Len(q) = n + 1
  BY <1>1
<1>3. n \in Int /\ 1 \in Int /\ \A m \in 1..n : q[m] \in S
  BY <1>1, <1>2
<1>4. /\ SubSeq(q, 1, n) \in Seq(S)
      /\ Len(SubSeq(q, 1, n)) = IF 1 <= n THEN n - 1 + 1 ELSE 0
      /\ \A m \in 1..(n - 1 + 1) : SubSeq(q, 1, n)[m] = q[1 + m - 1]
  BY <1>3, SubSeqProperties
<1>5. Len(SubSeq(q, 1, n)) = n
  BY <1>4
<1>6. \A m \in 1..n : SubSeq(q, 1, n)[m] = q[m]
  BY <1>4
<1>7. Len(q) - 1 = n
  BY <1>2
<1>8. QED
  BY <1>4, <1>5, <1>6, <1>7

LEMMA ReuseSlotStep ==
    ASSUME Inv, NEW i \in Ids, NEW r \in AnyRow, ReuseSlot(i, r)
    PROVE  Inv'
<1> DEFINE n == Len(free)
           s == free[n]
<1>1. TypeOK /\ SlotsExact
  BY DEF Inv
<1>2. free \in Seq(Slots) /\ free # <<>> /\ size \in Nat /\ MaxSlots \in Nat
  BY <1>1, StoreAssumption DEF ReuseSlot, TypeOK
<1>3. n \in Nat /\ n > 0
  BY <1>2, EmptySeq, LenProperties
<1>4. s \in Slots /\ ~Live(s) /\ s <= size
  BY <1>1, <1>2, <1>3, ElementOfSeq DEF SlotsExact
<1>5. /\ free' \in Seq(Slots) /\ Len(free') = n - 1
      /\ \A m \in 1..(n - 1) : free'[m] = free[m]
  BY <1>2, PopProperties DEF ReuseSlot
<1>6. \A m \in 1..n : free[m] \in Slots
  BY <1>2, ElementOfSeq
<1>7. /\ pk[i] = 0 /\ store' = store /\ size' = size /\ WriteAt(s, i, r)
      /\ pk' = [pk EXCEPT ![i] = s] /\ index' = Reindex(s, NoKeys, Named(r))
  BY DEF ReuseSlot
<1>8. /\ LookupsExact' /\ UniqueSound'
      /\ pk' \in [Ids -> {0} \cup Slots]
      /\ entity' \in [Slots -> Ids \cup {Nobody}]
      /\ column' \in [Slots -> AnyRow]
      /\ index' \in IndexType
      /\ \A j \in Ids : pk'[j] # 0 => entity'[pk'[j]] = j
      /\ \A t \in Slots : entity'[t] # Nobody => pk'[entity'[t]] = t
      /\ entity'[s] # Nobody
      /\ \A t \in Slots \ {s} : entity'[t] = entity[t]
  BY <1>4, <1>7, InsertStep
<1>9. TypeOK'
  <2>1. DOMAIN sent' \subseteq Ids
    BY <1>1, SentType DEF ReuseSlot, TypeOK
  <2>2. QED
    BY <1>1, <1>5, <1>7, <1>8, <2>1 DEF TypeOK, IndexType, AnyRow, Fields
<1>10. SlotsExact'
  <2>1. \A t \in Slots : entity'[t] # Nobody => t <= size
    BY <1>1, <1>4, <1>8 DEF SlotsExact, Live
  <2>2. \A t \in 1..size : entity'[t] # Nobody \/ \E m \in 1..(n - 1) : free'[m] = t
    <3>0. \A t \in 1..size : t \in Slots
      BY <1>1, <1>2 DEF TypeOK, Slots
    <3> SUFFICES ASSUME NEW t \in 1..size, t # s, entity[t] = Nobody
                 PROVE  \E m \in 1..(n - 1) : free'[m] = t
      BY <3>0, <1>8
    <3>1. PICK m \in 1..n : free[m] = t
      BY <1>1 DEF SlotsExact, Live
    <3>2. m \in 1..(n - 1)
      BY <3>1, <1>3
    <3>3. QED
      BY <3>1, <3>2, <1>5
  <2>3. \A m \in 1..(n - 1) : entity'[free'[m]] = Nobody /\ free'[m] <= size
    <3> SUFFICES ASSUME NEW m \in 1..(n - 1)
                 PROVE  entity'[free[m]] = Nobody /\ free[m] <= size
      BY <1>5
    <3>1. m \in 1..n /\ n \in 1..n /\ m # n
      BY <1>3
    <3>2. free[m] \in Slots \ {s} /\ entity[free[m]] = Nobody /\ free[m] <= size
      BY <3>1, <1>1, <1>6 DEF SlotsExact, Live
    <3>3. QED
      BY <3>2, <1>8
  <2>4. \A l, m \in 1..(n - 1) : free'[l] = free'[m] => l = m
    <3>1. \A l, m \in 1..n : free[l] = free[m] => l = m
      BY <1>1 DEF SlotsExact
    <3>2. \A m \in 1..(n - 1) : m \in 1..n
      BY <1>3
    <3>3. QED
      BY <3>1, <3>2, <1>5
  <2>5. QED
    BY <1>5, <1>7, <1>8, <2>1, <2>2, <2>3, <2>4 DEF SlotsExact, Live
<1>11. QED
  BY <1>8, <1>9, <1>10 DEF Inv

LEMMA ExtendStep ==
    ASSUME Inv, NEW i \in Ids, NEW r \in AnyRow, ExtendColumns(i, r)
    PROVE  Inv'
<1> DEFINE s == size + 1
<1>1. TypeOK /\ SlotsExact
  BY DEF Inv
<1>2. size \in Nat /\ s \in Slots /\ ~(s <= size) /\ MaxSlots \in Nat
  BY <1>1, StoreAssumption DEF ExtendColumns, TypeOK, Slots
<1>3. ~Live(s)
  BY <1>1, <1>2 DEF SlotsExact
<1>4. /\ pk[i] = 0 /\ store' = store /\ size' = s /\ free' = free /\ WriteAt(s, i, r)
      /\ pk' = [pk EXCEPT ![i] = s] /\ index' = Reindex(s, NoKeys, Named(r))
      /\ free = <<>>
  BY DEF ExtendColumns
<1>5. /\ LookupsExact' /\ UniqueSound'
      /\ pk' \in [Ids -> {0} \cup Slots]
      /\ entity' \in [Slots -> Ids \cup {Nobody}]
      /\ column' \in [Slots -> AnyRow]
      /\ index' \in IndexType
      /\ \A j \in Ids : pk'[j] # 0 => entity'[pk'[j]] = j
      /\ \A t \in Slots : entity'[t] # Nobody => pk'[entity'[t]] = t
      /\ entity'[s] # Nobody
      /\ \A t \in Slots \ {s} : entity'[t] = entity[t]
  BY <1>2, <1>3, <1>4, InsertStep
<1>6. s \in 0..MaxSlots
  BY <1>2 DEF Slots
<1>7. TypeOK'
  <2>1. DOMAIN sent' \subseteq Ids
    BY <1>1, SentType DEF ExtendColumns, TypeOK
  <2>2. QED
    BY <1>1, <1>4, <1>5, <1>6, <2>1 DEF TypeOK, IndexType, AnyRow, Fields
<1>8. SlotsExact'
  <2>1. \A t \in Slots : entity'[t] # Nobody => t <= s
    BY <1>1, <1>2, <1>5 DEF SlotsExact, Live, Slots
  <2>2. 1..Len(free) = {}
    BY <1>4
  <2>3. \A t \in 1..s : entity'[t] # Nobody
    <3> SUFFICES ASSUME NEW t \in 1..size PROVE entity'[t] # Nobody
      BY <1>2, <1>5
    <3>1. entity[t] # Nobody
      BY <1>1, <2>2 DEF SlotsExact, Live
    <3>2. t \in Slots \ {s}
      BY <1>2 DEF Slots
    <3>3. QED
      BY <3>1, <3>2, <1>5
  <2>4. QED
    BY <1>4, <1>5, <2>1, <2>2, <2>3 DEF SlotsExact, Live
<1>9. QED
  BY <1>5, <1>7, <1>8 DEF Inv

LEMMA DeleteStep ==
    ASSUME Inv, NEW i \in Ids, Delete(i)
    PROVE  Inv'
<1> DEFINE s == pk[i]
           n == Len(free)
<1>1. TypeOK /\ SlotsExact /\ LookupsExact /\ UniqueSound
  BY DEF Inv
<1>2. s \in Slots /\ entity[s] = i /\ i # Nobody /\ s <= size
  BY <1>1, PkSlot DEF Delete
<1>3. /\ store' = store /\ size' = size /\ pk' = [pk EXCEPT ![i] = 0]
      /\ entity' = [entity EXCEPT ![s] = Nobody]
      /\ column' = [column EXCEPT ![s] = IF store.resets THEN Blank ELSE @]
      /\ index' = Reindex(s, Named(column[s]), NoKeys)
      /\ free' = Append(free, s)
  BY DEF Delete
<1>4. /\ entity'[s] = Nobody
      /\ \A t \in Slots \ {s} : entity'[t] = entity[t] /\ column'[t] = column[t]
      /\ pk'[i] = 0 /\ \A j \in Ids \ {i} : pk'[j] = pk[j]
  BY <1>1, <1>2, <1>3 DEF TypeOK
<1>5. LookupsExact' /\ UniqueSound'
  BY <1>1, <1>2, <1>3, <1>4, IndexStep
<1>6. free \in Seq(Slots) /\ n \in Nat /\ size \in Nat
  BY <1>1, LenProperties DEF TypeOK
<1>7. /\ free' \in Seq(Slots) /\ Len(free') = n + 1 /\ free'[n + 1] = s
      /\ \A m \in 1..n : free'[m] = free[m] /\ free[m] \in Slots
  BY <1>2, <1>3, <1>6, AppendProperties, ElementOfSeq
<1>8. TypeOK'
  <2>1. column' \in [Slots -> AnyRow]
    BY <1>1, <1>2, <1>3, BlankType DEF TypeOK
  <2>2. index' \in IndexType
    BY <1>1, <1>2, <1>3, ReindexType DEF TypeOK, IndexType
  <2>3. DOMAIN sent' \subseteq Ids
    BY <1>1, SentType DEF Delete, TypeOK
  <2>4. QED
    BY <1>1, <1>3, <1>7, <2>1, <2>2, <2>3 DEF TypeOK, IndexType, AnyRow, Fields
<1>9. SlotsExact'
  <2>1. \A j \in Ids : pk'[j] # 0 => entity'[pk'[j]] = j
    <3> SUFFICES ASSUME NEW j \in Ids \ {i}, pk[j] # 0 PROVE entity'[pk[j]] = j
      BY <1>4
    <3>1. pk[j] \in Slots /\ entity[pk[j]] = j
      BY <1>1, PkSlot
    <3>2. QED
      BY <3>1, <1>2, <1>4
  <2>2. \A t \in Slots : entity'[t] # Nobody => pk'[entity'[t]] = t /\ t <= size
    <3> SUFFICES ASSUME NEW t \in Slots \ {s}, entity[t] # Nobody
                 PROVE  pk'[entity[t]] = t /\ t <= size
      BY <1>4
    <3>1. pk[entity[t]] = t /\ t <= size /\ entity[t] \in Ids
      BY <1>1 DEF SlotsExact, Live, TypeOK
    <3>2. QED
      BY <3>1, <1>4
  <2>3. \A t \in 1..size : entity'[t] # Nobody \/ \E m \in 1..(n + 1) : free'[m] = t
    <3> SUFFICES ASSUME NEW t \in 1..size, t # s, entity[t] = Nobody
                 PROVE  \E m \in 1..(n + 1) : free'[m] = t
      <4>1. \A t \in 1..size : t \in Slots
        BY <1>1, StoreAssumption DEF TypeOK, Slots
      <4>2. n + 1 \in 1..(n + 1)
        BY <1>6
      <4>3. QED
        BY <1>4, <1>7, <4>1, <4>2
    <3>1. PICK m \in 1..n : free[m] = t
      BY <1>1 DEF SlotsExact, Live
    <3>2. m \in 1..(n + 1)
      BY <1>6
    <3>3. QED
      BY <3>1, <3>2, <1>7
  <2>4. \A m \in 1..n : free[m] # s /\ entity'[free[m]] = Nobody /\ free[m] <= size
    BY <1>1, <1>2, <1>4, <1>7 DEF SlotsExact, Live
  <2>5. \A m \in 1..(n + 1) : m \in 1..n \/ m = n + 1
    BY <1>6
  <2>6. \A m \in 1..(n + 1) : entity'[free'[m]] = Nobody /\ free'[m] <= size
    BY <2>4, <2>5, <1>2, <1>4, <1>7
  <2>7. \A l, m \in 1..(n + 1) : free'[l] = free'[m] => l = m
    <3>1. \A l, m \in 1..n : free[l] = free[m] => l = m
      BY <1>1 DEF SlotsExact
    <3>2. QED
      BY <3>1, <2>4, <2>5, <1>7
  <2>8. QED
    BY <1>3, <1>7, <2>1, <2>2, <2>3, <2>6, <2>7 DEF SlotsExact, Live
<1>10. QED
  BY <1>5, <1>8, <1>9 DEF Inv

LEMMA EmptyIsFine ==
    ASSUME store \in Stores, size = 0, free = <<>>,
           pk = [i \in Ids |-> 0],
           entity = [s \in Slots |-> Nobody],
           column = [s \in Slots |-> Blank],
           index = [f \in Fields |-> [k \in Keys |-> [s \in Slots |-> 0]]],
           sent = [i \in {} |-> {}]
    PROVE  Inv
<1>1. free \in Seq(Slots) /\ 1..Len(free) = {} /\ 1..size = {} /\ size \in 0..MaxSlots
  BY EmptySeq, StoreAssumption
<1>2. TypeOK
  BY <1>1, BlankType, StoreAssumption DEF TypeOK
<1>3. SlotsExact
  BY <1>1 DEF SlotsExact, Live
<1>4. LookupsExact /\ UniqueSound
  BY DEF LookupsExact, UniqueSound, Live
<1>5. QED
  BY <1>2, <1>3, <1>4 DEF Inv

LEMMA ClearStep == ASSUME Inv, Clear PROVE Inv'
<1>1. store' = store /\ store \in Stores
  BY DEF Clear, Inv, TypeOK
<1>2. Fields' = Fields /\ Blank' = Blank
  BY <1>1 DEF Fields, Blank
<1>3. TypeOK'
  BY <1>1, <1>2, BlankType, StoreAssumption, EmptySeq DEF Clear, TypeOK, AnyRow
<1>4. SlotsExact'
  BY <1>1 DEF Clear, SlotsExact, Live
<1>5. LookupsExact' /\ UniqueSound'
  BY <1>1, <1>2 DEF Clear, LookupsExact, UniqueSound, Live
<1>6. QED
  BY <1>3, <1>4, <1>5 DEF Inv

LEMMA InvStep == Inv /\ [Next]_vars => Inv'
<1> SUFFICES ASSUME Inv, [Next]_vars PROVE Inv'
  OBVIOUS
<1>1. ASSUME NEW i \in Ids, NEW r \in RowsOf(store),
             Replace(i, r) \/ ReuseSlot(i, r) \/ ExtendColumns(i, r)
      PROVE  Inv'
  BY <1>1, RowTypes, ReplaceStep, ReuseSlotStep, ExtendStep
<1>2. ASSUME NEW i \in Ids, Delete(i) PROVE Inv'
  BY <1>2, DeleteStep
<1>3. CASE Clear
  BY <1>3, ClearStep
<1>4. CASE UNCHANGED vars
  BY <1>4 DEF vars, Inv, TypeOK, SlotsExact, LookupsExact, UniqueSound, Live, AnyRow, Fields,
              IndexKeys
<1>5. QED
  BY <1>1, <1>2, <1>3, <1>4 DEF Next

\* The invariant of the stores (store/*.rs): slots are never shared or lost,
\* and every secondary index answers with exactly the live rows of its key.
THEOREM StoresAreExact == Spec => [](TypeOK /\ SlotsExact /\ LookupsExact /\ UniqueSound)
<1>1. Init => Inv
  BY EmptyIsFine DEF Init
<1>2. QED
  BY <1>1, InvStep, PTL DEF Spec, Inv

\* The columns, the free list and the maps of a store (store/*.rs) stay well
\* typed: no count of a slot in a list goes below zero.
THEOREM TypeCorrect == Spec => []TypeOK
BY StoresAreExact, PTL

\* alloc_slot never hands out a slot that a row still holds, and delete frees
\* each slot once: the primary key and the entity column are inverses.
THEOREM SlotsHold == Spec => []SlotsExact
BY StoresAreExact, PTL

\* A map of single slots (PlayerHousingSoA::by_network) never points to a freed
\* slot or to a row of another key.
THEOREM UniqueHolds == Spec => []UniqueSound
BY StoresAreExact, PTL

-----------------------------------------------------------------------------
(* The table implements the map of rows.                                   *)

TableRows == [i \in {j \in Ids : pk[j] # 0} |-> column[pk[i]]]
Kept == TableRows = sent

\* A write to the slot of row i, shared with no other row, is an Upsert of i.
LEMMA WriteIsUpsert ==
    ASSUME Inv, Kept, NEW i \in Ids, NEW r \in RowsOf(store), NEW s \in Slots,
           WriteAt(s, i, r), SentRow(i, r), pk' = [pk EXCEPT ![i] = s],
           \A j \in Ids \ {i} : pk[j] # s
    PROVE  Table!Upsert(i, r) /\ Kept'
<1>1. TypeOK /\ SlotsExact
  BY DEF Inv
<1>2. pk'[i] = s /\ s # 0 /\ \A j \in Ids \ {i} : pk'[j] = pk[j]
  BY <1>1 DEF TypeOK, Slots
<1>3. column'[s] = r /\ \A t \in Slots \ {s} : column'[t] = column[t]
  BY <1>1 DEF WriteAt, TypeOK
<1>4. \A j \in Ids \ {i} : pk[j] # 0 => pk[j] \in Slots \ {s}
  BY <1>1 DEF TypeOK
<1>5. DOMAIN TableRows \cup {i} = {j \in Ids : pk'[j] # 0}
  BY <1>2 DEF TableRows
<1>6. \A j \in {j \in Ids : pk'[j] # 0} :
          column'[pk'[j]] = IF j = i THEN r ELSE TableRows[j]
  BY <1>2, <1>3, <1>4 DEF TableRows
<1>7. TableRows' = [j \in DOMAIN TableRows \cup {i} |-> IF j = i THEN r ELSE TableRows[j]]
  BY <1>5, <1>6 DEF TableRows
<1>8. QED
  BY <1>7 DEF Kept, SentRow, Table!Upsert, Table!Seen, TableRows

LEMMA DeleteIsDelete ==
    ASSUME Inv, Kept, NEW i \in Ids, Delete(i)
    PROVE  Table!Delete(i) /\ Kept'
<1>1. TypeOK /\ SlotsExact
  BY DEF Inv
<1>2. pk[i] \in Slots /\ entity[pk[i]] = i
  BY <1>1, PkSlot DEF Delete
<1>3. pk'[i] = 0 /\ \A j \in Ids \ {i} : pk'[j] = pk[j]
  BY <1>1 DEF TypeOK, Delete
<1>4. \A t \in Slots \ {pk[i]} : column'[t] = column[t]
  BY <1>1, <1>2 DEF TypeOK, Delete
<1>5. \A j \in Ids \ {i} : pk[j] # 0 => pk[j] \in Slots \ {pk[i]}
  BY <1>1, <1>2, PkSlot
<1>6. DOMAIN TableRows \ {i} = {j \in Ids : pk'[j] # 0}
  BY <1>3 DEF TableRows
<1>7. \A j \in {j \in Ids : pk'[j] # 0} : column'[pk'[j]] = TableRows[j]
  BY <1>3, <1>4, <1>5 DEF TableRows
<1>8. TableRows' = [j \in DOMAIN TableRows \ {i} |-> TableRows[j]]
  BY <1>6, <1>7 DEF TableRows
<1>9. QED
  BY <1>8 DEF Kept, Delete, Table!Delete, Table!Seen, TableRows

LEMMA TableStep == Inv /\ Kept /\ [Next]_vars => [Table!Next]_(Table!vars) /\ Kept'
<1> SUFFICES ASSUME Inv, Kept, [Next]_vars PROVE [Table!Next]_(Table!vars) /\ Kept'
  OBVIOUS
<1>1. TypeOK /\ SlotsExact
  BY DEF Inv
<1>2. ASSUME NEW i \in Ids, NEW r \in RowsOf(store),
             Replace(i, r) \/ ReuseSlot(i, r) \/ ExtendColumns(i, r)
      PROVE  Table!Upsert(i, r) /\ Kept'
  <2>1. CASE Replace(i, r)
    <3>1. pk[i] \in Slots /\ entity[pk[i]] = i /\ \A j \in Ids \ {i} : pk[j] # pk[i]
      BY <1>1, <2>1, PkSlot DEF Replace
    <3>2. pk' = [pk EXCEPT ![i] = pk[i]] /\ WriteAt(pk[i], i, r) /\ SentRow(i, r)
      BY <1>1, <2>1 DEF Replace, TypeOK
    <3>3. QED
      BY <3>1, <3>2, WriteIsUpsert
  <2>2. CASE ReuseSlot(i, r)
    <3> DEFINE s == free[Len(free)]
    <3>1. Len(free) \in 1..Len(free)
      BY <1>1, <2>2, EmptySeq, LenProperties DEF ReuseSlot, TypeOK
    <3>2. s \in Slots /\ entity[s] = Nobody
      BY <1>1, <3>1, ElementOfSeq DEF TypeOK, SlotsExact, Live
    <3>3. \A j \in Ids : pk[j] # s
      BY <1>1, <3>2, PkSlot, StoreAssumption DEF Slots
    <3>4. WriteAt(s, i, r) /\ SentRow(i, r) /\ pk' = [pk EXCEPT ![i] = s]
      BY <2>2 DEF ReuseSlot
    <3>5. QED
      BY <3>2, <3>3, <3>4, WriteIsUpsert
  <2>3. CASE ExtendColumns(i, r)
    <3> DEFINE s == size + 1
    <3>1. s \in Slots /\ size \in Nat
      BY <1>1, <2>3, StoreAssumption DEF ExtendColumns, TypeOK, Slots
    <3>2. \A j \in Ids : pk[j] # s
      BY <1>1, <3>1, PkSlot DEF Slots
    <3>3. WriteAt(s, i, r) /\ SentRow(i, r) /\ pk' = [pk EXCEPT ![i] = s]
      BY <2>3 DEF ExtendColumns
    <3>4. QED
      BY <3>1, <3>2, <3>3, WriteIsUpsert
  <2>4. QED
    BY <1>2, <2>1, <2>2, <2>3
<1>3. ASSUME NEW i \in Ids, Delete(i) PROVE Table!Delete(i) /\ Kept'
  BY <1>3, DeleteIsDelete
<1>4. CASE Clear
  <2>1. pk' = [j \in Ids |-> 0]
    BY <1>4 DEF Clear
  <2>2. {j \in Ids : pk'[j] # 0} = {}
    BY <2>1
  <2>3. TableRows' = [i \in {} |-> {}]
    BY <2>2 DEF TableRows
  <2>4. sent' = [i \in {} |-> {}]
    BY <1>4 DEF Clear
  <2>5. QED
    BY <2>3, <2>4 DEF Kept, Table!Next, Table!Clear, Table!Empty, Table!Seen, TableRows
<1>5. CASE UNCHANGED vars
  BY <1>5 DEF vars, Table!vars, Kept, TableRows
<1>6. \A r \in RowsOf(store) : r \in AllRows
  BY <1>1 DEF AllRows, TypeOK
<1>7. CASE Next
  <2>1. CASE \E i \in Ids : \E r \in RowsOf(store) :
                Replace(i, r) \/ ReuseSlot(i, r) \/ ExtendColumns(i, r)
    BY <1>2, <1>6, <2>1 DEF Table!Next, AllRows
  <2>2. CASE \E i \in Ids : Delete(i)
    BY <1>3, <2>2 DEF Table!Next
  <2>3. QED
    BY <1>4, <1>7, <2>1, <2>2 DEF Next
<1>8. QED
  BY <1>5, <1>7

\* The columnar layout of store/*.rs is invisible to readers: each step of a
\* table is one step of a map from primary keys to rows.
THEOREM TablesKeepRows == Spec => RowsAreKept
<1>1. Init => Inv
  BY EmptyIsFine DEF Init
<1>2. Init => Table!Init /\ Kept
  <2> SUFFICES ASSUME Init PROVE Table!Init /\ Kept
    OBVIOUS
  <2>1. {j \in Ids : pk[j] # 0} = {}
    BY DEF Init
  <2>2. QED
    BY <2>1 DEF Init, Table!Init, Table!Empty, Kept, TableRows
<1>3. QED
  BY <1>1, <1>2, InvStep, TableStep, PTL DEF Spec, RowsAreKept, Table!Spec

=============================================================================
