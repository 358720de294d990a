------------------------- MODULE MemberIndexProofs -------------------------
(***************************************************************************)
(* The player-to-claims index, for any number of regions, players and      *)
(* membership rows: it is wrong only in the two ways its module names.     *)
(***************************************************************************)
EXTENDS MemberIndex, FiniteSetTheorems, TLAPS

\* The edges of a region.
EdgesOf(r) == Players \X ClaimsOf[r]

\* A call still to be made is about an edge of its region; a note is about a
\* row of the store; and a row of the store that is forgotten is noted after.
CallsFit(r) ==
    \A i \in DOMAIN calls[r] :
        /\ calls[r][i][2] \in EdgesOf(r)
        /\ calls[r][i][1] = "note" => calls[r][i][2] \in Pairs(r)
        /\ calls[r][i][1] = "forget" /\ calls[r][i][2] \in Pairs(r) =>
                \E j \in DOMAIN calls[r] : j > i /\ calls[r][j] = Note(calls[r][i][2])

Inv ==
    /\ TypeOK
    /\ \A r \in Regions : Distinct(row[r]) /\ CallsFit(r)
    /\ MissingOnlyIfTorn /\ ExtraOnlyIfOrphaned

-----------------------------------------------------------------------------
(* Edges and calls.                                                        *)

LEMMA PairsAreEdges ==
    ASSUME TypeOK, NEW r \in Regions
    PROVE  Pairs(r) \subseteq EdgesOf(r) /\ EdgesOf(r) \subseteq Edges
<1>1. row[r] \in [Rows -> RowEdges(r)]
  BY DEF TypeOK
<1>2. Pairs(r) \subseteq EdgesOf(r)
  BY <1>1 DEF Pairs, RowEdges, EdgesOf
<1>3. QED
  BY <1>2 DEF EdgesOf, Edges, Claims

\* Regions share no edge.
LEMMA OwnEdges ==
    ASSUME NEW r \in Regions, NEW q \in Regions, NEW e \in EdgesOf(r), e \in EdgesOf(q)
    PROVE  r = q
BY IndexAssumption DEF EdgesOf

\* After the first call is made, the others wait.
LEMMA TailWaits ==
    ASSUME TypeOK, NEW r \in Regions, calls[r] # <<>>, calls' = [calls EXCEPT ![r] = Tail(@)]
    PROVE  /\ calls[r] \in Seq(Calls) /\ calls'[r] = Tail(calls[r])
           /\ \A q \in Regions \ {r} : calls'[q] = calls[q]
           /\ calls' \in [Regions -> Seq(Calls)]
           /\ Head(calls[r]) = calls[r][1] /\ 1 \in DOMAIN calls[r]
           /\ DOMAIN calls'[r] = 1..(Len(calls[r]) - 1) /\ DOMAIN calls[r] = 1..Len(calls[r])
           /\ Len(calls[r]) \in Nat
           /\ \A i \in DOMAIN calls'[r] : calls'[r][i] = calls[r][i + 1]
<1>1. calls \in [Regions -> Seq(Calls)]
  BY DEF TypeOK
<1>2. /\ calls'[r] = Tail(calls[r]) /\ \A q \in Regions \ {r} : calls'[q] = calls[q]
      /\ calls[r] \in Seq(Calls)
  BY <1>1
<1>3. Tail(calls[r]) \in Seq(Calls)
  BY <1>2
<1>4. calls' \in [Regions -> Seq(Calls)]
  BY <1>1, <1>3
<1> DEFINE s == calls[r]
<1> HIDE DEF s
<1>5. s \in Seq(Calls) /\ s # <<>>
  BY <1>2 DEF s
<1>6. /\ Head(s) = s[1] /\ 1 \in DOMAIN s /\ Len(s) \in Nat
      /\ DOMAIN Tail(s) = 1..(Len(s) - 1) /\ DOMAIN s = 1..Len(s)
      /\ \A i \in DOMAIN Tail(s) : Tail(s)[i] = s[i + 1]
  BY <1>5
<1>7. QED
  BY <1>2, <1>4, <1>6 DEF s

LEMMA AfterCall ==
    ASSUME Inv, NEW r \in Regions, calls[r] # <<>>, calls' = [calls EXCEPT ![r] = Tail(@)],
           row' = row
    PROVE  /\ \A q \in Regions : CallsFit(q)'
           /\ \A e : Queued(e) => Queued(e)' \/ e = Head(calls[r])[2]
           /\ Head(calls[r])[2] \in EdgesOf(r)
           /\ Head(calls[r])[1] = "note" => Head(calls[r])[2] \in Pairs(r)
           /\ \A e \in Pairs(r) : Head(calls[r]) = Forget(e) => Queued(e)'
<1>1. /\ calls'[r] = Tail(calls[r]) /\ \A q \in Regions \ {r} : calls'[q] = calls[q]
      /\ Head(calls[r]) = calls[r][1] /\ 1 \in DOMAIN calls[r]
      /\ DOMAIN calls'[r] = 1..(Len(calls[r]) - 1) /\ DOMAIN calls[r] = 1..Len(calls[r])
      /\ Len(calls[r]) \in Nat
      /\ \A i \in DOMAIN calls'[r] : calls'[r][i] = calls[r][i + 1]
  BY TailWaits DEF Inv
<1>2. CallsFit(r)
  BY DEF Inv
<1>3. \A q \in Regions : Pairs(q)' = Pairs(q)
  BY DEF Pairs
<1>4. ASSUME NEW i \in DOMAIN calls[r], i # 1
      PROVE  i - 1 \in DOMAIN calls'[r] /\ calls'[r][i - 1] = calls[r][i]
  BY <1>1, <1>4
<1>5. CallsFit(r)'
  <2>1. ASSUME NEW i \in DOMAIN calls'[r]
        PROVE  /\ calls'[r][i][2] \in EdgesOf(r)
               /\ calls'[r][i][1] = "note" => calls'[r][i][2] \in Pairs(r)
               /\ calls'[r][i][1] = "forget" /\ calls'[r][i][2] \in Pairs(r) =>
                    \E j \in DOMAIN calls'[r] : j > i /\ calls'[r][j] = Note(calls'[r][i][2])
    <3>1. i + 1 \in DOMAIN calls[r] /\ calls'[r][i] = calls[r][i + 1] /\ i \in Nat
      BY <1>1
    <3>2. ASSUME calls[r][i + 1][1] = "forget", calls[r][i + 1][2] \in Pairs(r)
          PROVE  \E j \in DOMAIN calls'[r] : j > i /\ calls'[r][j] = Note(calls[r][i + 1][2])
      <4>1. PICK j \in DOMAIN calls[r] : j > i + 1 /\ calls[r][j] = Note(calls[r][i + 1][2])
        BY <1>2, <3>1, <3>2 DEF CallsFit
      <4>2. j - 1 \in DOMAIN calls'[r] /\ j - 1 > i /\ calls'[r][j - 1] = calls[r][j]
        BY <1>1, <1>4, <3>1, <4>1
      <4>3. QED
        BY <4>1, <4>2
    <3>3. QED
      BY <1>2, <3>1, <3>2 DEF CallsFit
  <2>2. QED
    BY <1>3, <2>1 DEF CallsFit, EdgesOf
<1>6. ASSUME NEW q \in Regions PROVE CallsFit(q)'
  <2>1. CASE q = r
    BY <1>5, <2>1
  <2>2. CASE q # r
    BY <1>1, <1>3, <2>2 DEF Inv, CallsFit, EdgesOf
  <2>3. QED
    BY <2>1, <2>2
<1>7. ASSUME NEW e, Queued(e) PROVE Queued(e)' \/ e = Head(calls[r])[2]
  <2>1. PICK q \in Regions : \E i \in DOMAIN calls[q] : calls[q][i][2] = e
    BY <1>7 DEF Queued
  <2>2. PICK i \in DOMAIN calls[q] : calls[q][i][2] = e
    BY <2>1
  <2>3. CASE q # r
    BY <1>1, <2>2, <2>3 DEF Queued
  <2>4. CASE q = r /\ i # 1
    BY <1>4, <2>2, <2>4 DEF Queued
  <2>5. CASE q = r /\ i = 1
    BY <1>1, <2>2, <2>5
  <2>6. QED
    BY <2>3, <2>4, <2>5
<1>8. ASSUME NEW e \in Pairs(r), Head(calls[r]) = Forget(e) PROVE Queued(e)'
  <2>1. PICK j \in DOMAIN calls[r] : j > 1 /\ calls[r][j] = Note(e)
    BY <1>1, <1>2, <1>8 DEF CallsFit, Forget
  <2>2. calls[r][j][2] = e
    BY <2>1 DEF Note
  <2>3. j - 1 \in DOMAIN calls'[r] /\ calls'[r][j - 1][2] = e
    BY <1>4, <2>1, <2>2
  <2>4. QED
    BY <2>3 DEF Queued
<1>9. QED
  BY <1>1, <1>2, <1>6, <1>7, <1>8 DEF CallsFit

-----------------------------------------------------------------------------
(* Lists of a finite set.                                                  *)

\* SetToSeqs lists every element of a finite set, and nothing else.
LEMMA SeqsList ==
    ASSUME NEW S, IsFiniteSet(S), NEW s \in SetToSeqs(S)
    PROVE  /\ s \in Seq(S) /\ Len(s) \in Nat /\ DOMAIN s = 1..Len(s)
           /\ \A e \in S : \E i \in DOMAIN s : s[i] = e
<1> DEFINE n == Cardinality(S)
<1>1. n \in Nat
  BY FS_CardinalityType
<1>2. s \in [1..n -> S] /\ \A i, j \in 1..n : i # j => s[i] # s[j]
  BY DEF SetToSeqs
<1>3. IsFiniteSet(1..n) /\ Cardinality(1..n) = n
  BY <1>1, FS_Interval
<1>4. s \in Injection(1..n, S)
  BY <1>2 DEF Injection, IsInjective
<1>5. s \in Surjection(1..n, S)
  BY <1>3, <1>4, FS_Injection
<1> HIDE DEF n
<1>6. s \in Seq(S) /\ Len(s) = n /\ DOMAIN s = 1..n
  BY <1>1, <1>2
<1>7. QED
  BY <1>1, <1>5, <1>6 DEF Surjection

\* The edges of a store are finitely many.
LEMMA PairsFinite ==
    ASSUME NEW rs, NEW N
    PROVE  IsFiniteSet({rs[m] : m \in Rows} \ {N})
<1> DEFINE f == [m \in Rows |-> rs[m]]
           T == {rs[m] : m \in Rows}
<1>1. f \in Surjection(Rows, T)
  BY DEF Surjection
<1>2. IsFiniteSet(T)
  BY <1>1, IndexAssumption, FS_Surjection
<1>3. QED
  BY <1>2, FS_Subset

\* Where the elements of two lists are when the second follows the first.
LEMMA Concat ==
    ASSUME NEW S, NEW a \in Seq(S), NEW b \in Seq(S)
    PROVE  /\ a \o b \in Seq(S) /\ DOMAIN (a \o b) = 1..(Len(a) + Len(b))
           /\ Len(a) \in Nat /\ Len(b) \in Nat
           /\ \A i \in 1..Len(a) : (a \o b)[i] = a[i]
           /\ \A i \in 1..Len(b) : (a \o b)[Len(a) + i] = b[i]
<1>1. Len(a) \in Nat /\ Len(b) \in Nat /\ a \o b \in Seq(S) /\ Len(a \o b) = Len(a) + Len(b)
  OBVIOUS
<1>2. \A i \in 1..Len(a) : (a \o b)[i] = a[i]
  OBVIOUS
<1>3. \A i \in 1..Len(b) : (a \o b)[Len(a) + i] = b[i]
  OBVIOUS
<1>4. QED
  BY <1>1, <1>2, <1>3

\* The calls for a changed row: a forget of the old edge, then a note of the new.
LEMMA RowCallsAre ==
    ASSUME NEW o \in Edges \cup {Nobody}, NEW e \in Edges \cup {Nobody}
    PROVE  /\ RowCalls(o, e) \in Seq(Calls)
           /\ \A i \in DOMAIN RowCalls(o, e) :
                 \/ o # Nobody /\ i = 1 /\ RowCalls(o, e)[i] = Forget(o)
                 \/ e # Nobody /\ RowCalls(o, e)[i] = Note(e)
           /\ o # Nobody => 1 \in DOMAIN RowCalls(o, e) /\ RowCalls(o, e)[1] = Forget(o)
           /\ e # Nobody => \E i \in DOMAIN RowCalls(o, e) : RowCalls(o, e)[i] = Note(e)
           /\ o # Nobody /\ e # Nobody => 2 \in DOMAIN RowCalls(o, e) /\ RowCalls(o, e)[2] = Note(e)
<1>1. CASE o = Nobody /\ e = Nobody
  <2>1. RowCalls(o, e) = <<>>
    BY <1>1 DEF RowCalls
  <2>2. QED
    BY <1>1, <2>1
<1>2. CASE o # Nobody /\ e = Nobody
  <2>1. RowCalls(o, e) = <<Forget(o)>> /\ Forget(o) \in Calls
    BY <1>2 DEF RowCalls, Forget, Calls
  <2>2. QED
    BY <1>2, <2>1
<1>3. CASE o = Nobody /\ e # Nobody
  <2>1. RowCalls(o, e) = <<Note(e)>> /\ Note(e) \in Calls
    BY <1>3 DEF RowCalls, Note, Calls
  <2>2. QED
    BY <1>3, <2>1
<1>4. CASE o # Nobody /\ e # Nobody
  <2>1. RowCalls(o, e) = <<Forget(o)>> \o <<Note(e)>>
    BY <1>4 DEF RowCalls
  <2>2. Forget(o) \in Calls /\ Note(e) \in Calls
    BY <1>4 DEF Note, Forget, Calls
  <2> DEFINE a == <<Forget(o)>>
             b == <<Note(e)>>
  <2>3. /\ a \in Seq(Calls) /\ Len(a) = 1 /\ a[1] = Forget(o)
        /\ b \in Seq(Calls) /\ Len(b) = 1 /\ b[1] = Note(e)
    BY <2>2
  <2> HIDE DEF a, b
  <2>4. /\ a \o b \in Seq(Calls) /\ DOMAIN (a \o b) = 1..2
        /\ (a \o b)[1] = Forget(o) /\ (a \o b)[2] = Note(e)
    <3>1. /\ a \o b \in Seq(Calls) /\ DOMAIN (a \o b) = 1..(Len(a) + Len(b))
          /\ \A i \in 1..Len(a) : (a \o b)[i] = a[i]
          /\ \A i \in 1..Len(b) : (a \o b)[Len(a) + i] = b[i]
      BY <2>3, Concat
    <3>2. QED
      BY <2>3, <3>1
  <2>5. RowCalls(o, e) = a \o b
    BY <2>1 DEF a, b
  <2>6. QED
    BY <1>4, <2>4, <2>5
<1>5. QED
  BY <1>1, <1>2, <1>3, <1>4

-----------------------------------------------------------------------------
(* The steps.                                                              *)

LEMMA InitInv == Init => Inv
<1> SUFFICES ASSUME Init PROVE Inv
  OBVIOUS
<1>1. TypeOK
  BY IndexAssumption DEF Init, TypeOK, RowEdges, Edges
<1>2. \A r \in Regions : Pairs(r) = {}
  BY DEF Init, Pairs
<1>3. \A r \in Regions : Distinct(row[r]) /\ CallsFit(r)
  BY DEF Init, Distinct, CallsFit
<1>4. MissingOnlyIfTorn
  BY <1>2 DEF MissingOnlyIfTorn
<1>5. ExtraOnlyIfOrphaned
  BY DEF Init, ExtraOnlyIfOrphaned, InIndex, Edges
<1>6. QED
  BY <1>1, <1>3, <1>4, <1>5 DEF Inv

\* What is in the index of a player follows from the player's entry.
LEMMA SameEdge == \A e, x \in Edges : e[1] = x[1] /\ e[2] = x[2] => e = x
BY DEF Edges

LEMMA NoteStep == ASSUME Inv, NEW r \in Regions, NoteMember(r) PROVE Inv'
<1> DEFINE e == Head(calls[r])[2]
<1>1. /\ Head(calls[r]) = Note(e) /\ calls[r] # <<>> /\ calls' = [calls EXCEPT ![r] = Tail(@)]
      /\ entries' = entries \cup {e[1]} /\ member' = [member EXCEPT ![e[1]] = @ \cup {e[2]}]
      /\ torn' = torn \ {e} /\ orphans' = orphans \ {e}
      /\ UNCHANGED <<row, up, dying, loads, txs>>
  BY DEF NoteMember
<1>2. /\ \A q \in Regions : CallsFit(q)' /\ Pairs(q)' = Pairs(q)
      /\ \A x : Queued(x) => Queued(x)' \/ x = e
      /\ e \in EdgesOf(r)
      /\ e \in Pairs(r)
  <2>1. Head(calls[r])[1] = "note"
    BY <1>1 DEF Note
  <2>2. \A q \in Regions : Pairs(q)' = Pairs(q)
    BY <1>1 DEF Pairs
  <2>3. QED
    BY <1>1, <2>1, <2>2, AfterCall
<1>3. calls' \in [Regions -> Seq(Calls)]
  BY <1>1, TailWaits DEF Inv
<1> HIDE DEF e
<1>4. e \in Edges /\ e[1] \in Players /\ e[2] \in Claims
  BY <1>2, PairsAreEdges DEF Inv, Edges
<1>5. /\ member \in [Players -> SUBSET Claims] /\ TypeOK
      /\ \A p \in Players : p \notin entries => member[p] = {}
  BY DEF Inv, TypeOK
<1>6. /\ member' \in [Players -> SUBSET Claims]
      /\ member'[e[1]] = member[e[1]] \cup {e[2]}
      /\ \A p \in Players : p # e[1] => member'[p] = member[p]
  BY <1>1, <1>4, <1>5
<1>7. TypeOK'
  BY <1>1, <1>3, <1>4, <1>5, <1>6 DEF TypeOK, RowEdges
<1>8. \A x \in Edges : InIndex(x)' <=> InIndex(x) \/ x = e
  BY <1>4, <1>6, SameEdge DEF InIndex, Edges
<1>9. MissingOnlyIfTorn'
  <2>1. ASSUME NEW q \in Regions, NEW x \in Pairs(q) PROVE InIndex(x)' \/ Queued(x)' \/ x \in torn'
    <3>1. x \in Edges
      BY <1>5, PairsAreEdges
    <3>2. InIndex(x) \/ Queued(x) \/ x \in torn
      BY DEF Inv, MissingOnlyIfTorn
    <3>3. QED
      BY <1>1, <1>2, <1>8, <3>1, <3>2
  <2>2. QED
    BY <1>2, <2>1 DEF MissingOnlyIfTorn
<1>10. ExtraOnlyIfOrphaned'
  <2>1. ASSUME NEW x \in Edges, InIndex(x)'
        PROVE  Queued(x)' \/ x \in orphans' \/ \E q \in Regions : x \in Pairs(q)
    BY <1>1, <1>2, <1>8, <2>1 DEF Inv, ExtraOnlyIfOrphaned
  <2>2. QED
    BY <1>2, <2>1 DEF ExtraOnlyIfOrphaned
<1>11. \A q \in Regions : Distinct(row'[q])
  BY <1>1 DEF Inv
<1>12. QED
  BY <1>2, <1>7, <1>9, <1>10, <1>11 DEF Inv, Distinct

LEMMA ForgetStep == ASSUME Inv, NEW r \in Regions, ForgetMember(r) PROVE Inv'
<1> DEFINE e == Head(calls[r])[2]
<1>1. /\ Head(calls[r]) = Forget(e) /\ calls[r] # <<>> /\ calls' = [calls EXCEPT ![r] = Tail(@)]
      /\ member' = [member EXCEPT ![e[1]] = @ \ {e[2]}]
      /\ dying' = [dying EXCEPT ![r] = IF e[1] \in entries /\ member[e[1]] \subseteq {e[2]}
                                            THEN e[1] ELSE Nobody]
      /\ orphans' = orphans \ {e}
      /\ UNCHANGED <<entries, row, up, torn, loads, txs>>
  BY DEF ForgetMember
<1>2. /\ \A q \in Regions : CallsFit(q)' /\ Pairs(q)' = Pairs(q)
      /\ \A x : Queued(x) => Queued(x)' \/ x = e
      /\ e \in EdgesOf(r)
      /\ \A x \in Pairs(r) : x = e => Queued(x)'
  BY <1>1, AfterCall DEF Pairs
<1>3. calls' \in [Regions -> Seq(Calls)]
  BY <1>1, TailWaits DEF Inv
<1> HIDE DEF e
<1>4. e \in Edges /\ e[1] \in Players /\ e[2] \in Claims
  BY <1>2, PairsAreEdges DEF Inv, Edges
<1>5. /\ member \in [Players -> SUBSET Claims] /\ TypeOK
      /\ \A p \in Players : p \notin entries => member[p] = {}
      /\ dying \in [Regions -> Players \cup {Nobody}]
  BY DEF Inv, TypeOK
<1>6. /\ member' \in [Players -> SUBSET Claims]
      /\ member'[e[1]] = member[e[1]] \ {e[2]}
      /\ \A p \in Players : p # e[1] => member'[p] = member[p]
  BY <1>1, <1>4, <1>5
<1>7. dying' \in [Regions -> Players \cup {Nobody}]
  BY <1>1, <1>4, <1>5
<1>8. TypeOK'
  BY <1>1, <1>3, <1>5, <1>6, <1>7 DEF TypeOK, RowEdges
<1>9. \A x \in Edges : InIndex(x)' <=> InIndex(x) /\ x # e
  BY <1>4, <1>6, SameEdge DEF InIndex, Edges
<1>10. MissingOnlyIfTorn'
  <2>1. ASSUME NEW q \in Regions, NEW x \in Pairs(q) PROVE InIndex(x)' \/ Queued(x)' \/ x \in torn'
    <3>1. x \in Edges /\ x \in EdgesOf(q)
      BY <1>5, PairsAreEdges
    <3>2. InIndex(x) \/ Queued(x) \/ x \in torn
      BY DEF Inv, MissingOnlyIfTorn
    <3>3. x = e => q = r
      BY <1>2, <3>1, OwnEdges
    <3>4. QED
      BY <1>1, <1>2, <1>9, <3>1, <3>2, <3>3
  <2>2. QED
    BY <1>2, <2>1 DEF MissingOnlyIfTorn
<1>11. ExtraOnlyIfOrphaned'
  <2>1. ASSUME NEW x \in Edges, InIndex(x)'
        PROVE  Queued(x)' \/ x \in orphans' \/ \E q \in Regions : x \in Pairs(q)
    BY <1>1, <1>2, <1>9, <2>1 DEF Inv, ExtraOnlyIfOrphaned
  <2>2. QED
    BY <1>2, <2>1 DEF ExtraOnlyIfOrphaned
<1>12. \A q \in Regions : Distinct(row'[q])
  BY <1>1 DEF Inv
<1>13. QED
  BY <1>2, <1>8, <1>10, <1>11, <1>12 DEF Inv, Distinct

LEMMA RemoveStep == ASSUME Inv, NEW r \in Regions, RemoveEntry(r) PROVE Inv'
<1> DEFINE p == dying[r]
<1>1. /\ p # Nobody /\ entries' = entries \ {p} /\ torn' = torn \cup ({p} \X member[p])
      /\ member' = [member EXCEPT ![p] = {}] /\ dying' = [dying EXCEPT ![r] = Nobody]
      /\ UNCHANGED <<row, up, calls, orphans, loads, txs>>
  BY DEF RemoveEntry
<1>2. /\ member \in [Players -> SUBSET Claims] /\ TypeOK
      /\ \A x \in Players : x \notin entries => member[x] = {}
      /\ dying \in [Regions -> Players \cup {Nobody}] /\ p \in Players
  BY <1>1 DEF Inv, TypeOK
<1> HIDE DEF p
<1>3. /\ member' \in [Players -> SUBSET Claims] /\ member'[p] = {}
      /\ \A x \in Players : x # p => member'[x] = member[x]
      /\ dying' \in [Regions -> Players \cup {Nobody}]
  BY <1>1, <1>2
<1>4. torn' \in SUBSET Edges
  BY <1>1, <1>2 DEF TypeOK, Edges
<1>5. TypeOK'
  BY <1>1, <1>2, <1>3, <1>4 DEF TypeOK, RowEdges
<1>6. \A q \in Regions : Pairs(q)' = Pairs(q) /\ CallsFit(q)'
  BY <1>1 DEF Inv, Pairs, CallsFit, EdgesOf
<1>7. \A x : Queued(x)' <=> Queued(x)
  BY <1>1 DEF Queued
<1>8. \A x \in Edges : InIndex(x) => InIndex(x)' \/ x \in torn'
  BY <1>1, <1>3 DEF InIndex, Edges
<1>9. \A x \in Edges : InIndex(x)' => InIndex(x)
  BY <1>3 DEF InIndex, Edges
<1>10. MissingOnlyIfTorn'
  <2>1. ASSUME NEW q \in Regions, NEW x \in Pairs(q) PROVE InIndex(x)' \/ Queued(x)' \/ x \in torn'
    <3>1. x \in Edges
      BY <1>2, PairsAreEdges
    <3>2. QED
      BY <1>1, <1>7, <1>8, <3>1 DEF Inv, MissingOnlyIfTorn
  <2>2. QED
    BY <1>6, <2>1 DEF MissingOnlyIfTorn
<1>11. ExtraOnlyIfOrphaned'
  BY <1>1, <1>6, <1>7, <1>9 DEF Inv, ExtraOnlyIfOrphaned
<1>12. QED
  BY <1>1, <1>5, <1>6, <1>10, <1>11 DEF Inv, Distinct

\* A bulk load of region r: its new rows are all noted, its old ones forgotten.
LEMMA LoadStep ==
    ASSUME Inv, NEW r \in Regions, NEW rs \in [Rows -> RowEdges(r)], Load(r, rs)
    PROVE  Inv'
<1> DEFINE New == {rs[m] : m \in Rows} \ {Nobody}
<1>1. /\ calls[r] = <<>> /\ Distinct(rs) /\ row' = [row EXCEPT ![r] = rs] /\ loads > 0
      /\ loads' = loads - 1 /\ up' = [up EXCEPT ![r] = TRUE]
      /\ UNCHANGED <<entries, member, dying, torn, orphans, txs>>
  BY DEF Load, Idle
<1>2. PICK old \in SetToSeqs(Pairs(r)), new \in SetToSeqs(New) :
          calls' = [calls EXCEPT ![r] = [i \in DOMAIN old |-> Forget(old[i])]
                                            \o [i \in DOMAIN new |-> Note(new[i])]]
  BY DEF Load
<1>3. /\ TypeOK /\ calls \in [Regions -> Seq(Calls)]
      /\ row \in [Regions -> [Rows -> Edges \cup {Nobody}]]
      /\ \A q \in Regions : row[q] \in [Rows -> RowEdges(q)]
      /\ RowEdges(r) \subseteq Edges \cup {Nobody}
  BY DEF Inv, TypeOK, RowEdges, Edges, Claims
<1>4. /\ \A q \in Regions : q # r => row'[q] = row[q] /\ calls'[q] = calls[q] /\ Pairs(q)' = Pairs(q)
      /\ Pairs(r)' = New /\ row' \in [Regions -> [Rows -> Edges \cup {Nobody}]]
      /\ row'[r] = rs
  <2>1. /\ \A q \in Regions : q # r => row'[q] = row[q] /\ calls'[q] = calls[q]
        /\ row' \in [Regions -> [Rows -> Edges \cup {Nobody}]] /\ row'[r] = rs
    BY <1>1, <1>2, <1>3
  <2>2. QED
    BY <2>1 DEF Pairs
<1>5. New \subseteq EdgesOf(r) /\ Pairs(r) \subseteq EdgesOf(r) /\ EdgesOf(r) \subseteq Edges
  BY <1>3, PairsAreEdges DEF RowEdges, EdgesOf
<1>6. /\ old \in Seq(Pairs(r)) /\ Len(old) \in Nat /\ DOMAIN old = 1..Len(old)
      /\ \A e \in Pairs(r) : \E i \in DOMAIN old : old[i] = e
  <2>1. IsFiniteSet(Pairs(r))
    BY PairsFinite DEF Pairs
  <2>2. QED
    BY <2>1, SeqsList
<1>7. /\ new \in Seq(New) /\ Len(new) \in Nat /\ DOMAIN new = 1..Len(new)
      /\ \A e \in New : \E i \in DOMAIN new : new[i] = e
  <2>1. IsFiniteSet(New)
    BY PairsFinite
  <2> HIDE DEF New
  <2>2. QED
    BY <2>1, SeqsList
<1> HIDE DEF New
<1> DEFINE a == [i \in DOMAIN old |-> Forget(old[i])]
           b == [i \in DOMAIN new |-> Note(new[i])]
<1>8. /\ a \in Seq(Calls) /\ Len(a) = Len(old) /\ \A i \in 1..Len(old) : a[i] = Forget(old[i])
      /\ b \in Seq(Calls) /\ Len(b) = Len(new) /\ \A i \in 1..Len(new) : b[i] = Note(new[i])
  <2>1. \A i \in DOMAIN old : Forget(old[i]) \in Calls
    BY <1>5, <1>6 DEF Forget, Calls
  <2>2. \A i \in DOMAIN new : Note(new[i]) \in Calls
    BY <1>5, <1>7 DEF Note, Calls
  <2>3. QED
    BY <1>6, <1>7, <2>1, <2>2
<1>9. calls'[r] = a \o b /\ calls' = [calls EXCEPT ![r] = a \o b]
  BY <1>2, <1>3
<1> HIDE DEF a, b
<1>10. /\ a \o b \in Seq(Calls) /\ DOMAIN (a \o b) = 1..(Len(old) + Len(new))
       /\ \A i \in 1..Len(old) : (a \o b)[i] = Forget(old[i])
       /\ \A i \in 1..Len(new) : (a \o b)[Len(old) + i] = Note(new[i])
  <2>1. /\ a \o b \in Seq(Calls) /\ DOMAIN (a \o b) = 1..(Len(a) + Len(b))
        /\ \A i \in 1..Len(a) : (a \o b)[i] = a[i]
        /\ \A i \in 1..Len(b) : (a \o b)[Len(a) + i] = b[i]
    <3>1. a \in Seq(Calls) /\ b \in Seq(Calls)
      BY <1>8
    <3>2. QED
      BY <3>1, Concat
  <2>2. QED
    BY <1>8, <2>1
<1>11. calls' \in [Regions -> Seq(Calls)]
  BY <1>3, <1>9, <1>10
<1>12. TypeOK'
  <2>1. /\ \A q \in Regions : row'[q] \in [Rows -> RowEdges(q)]
        /\ row' \in [Regions -> [Rows -> Edges \cup {Nobody}]]
    BY <1>3, <1>4
  <2>2. loads' \in Nat /\ up' \in [Regions -> BOOLEAN]
    BY <1>1, <1>3 DEF TypeOK
  <2>3. QED
    BY <1>1, <1>3, <1>11, <2>1, <2>2 DEF TypeOK, RowEdges
<1>13. \A e \in New : \E i \in 1..Len(new) : calls'[r][Len(old) + i] = Note(e)
  BY <1>7, <1>9, <1>10
<1>14. \A e \in New : Queued(e)'
  <2>1. SUFFICES ASSUME NEW e \in New PROVE Queued(e)'
    OBVIOUS
  <2>2. PICK i \in 1..Len(new) : calls'[r][Len(old) + i] = Note(e)
    BY <1>13
  <2>3. Len(old) + i \in DOMAIN calls'[r] /\ calls'[r][Len(old) + i][2] = e
    BY <1>6, <1>7, <1>9, <1>10, <2>2 DEF Note
  <2>4. QED
    BY <2>3 DEF Queued
<1>15. \A e \in Pairs(r) : Queued(e)'
  <2>1. SUFFICES ASSUME NEW e \in Pairs(r) PROVE Queued(e)'
    OBVIOUS
  <2>2. PICK i \in DOMAIN old : old[i] = e
    BY <1>6
  <2>3. i \in 1..Len(old) /\ i \in DOMAIN calls'[r] /\ calls'[r][i] = Forget(old[i])
    BY <1>6, <1>7, <1>9, <1>10
  <2>4. calls'[r][i][2] = e
    BY <2>2, <2>3 DEF Forget
  <2>5. QED
    BY <2>3, <2>4 DEF Queued
<1>16. \A e : Queued(e) => Queued(e)'
  BY <1>1, <1>4 DEF Queued
<1>17. CallsFit(r)'
  <2>1. ASSUME NEW i \in DOMAIN calls'[r]
        PROVE  /\ calls'[r][i][2] \in EdgesOf(r)
               /\ calls'[r][i][1] = "note" => calls'[r][i][2] \in New
               /\ calls'[r][i][1] = "forget" /\ calls'[r][i][2] \in New =>
                    \E j \in DOMAIN calls'[r] : j > i /\ calls'[r][j] = Note(calls'[r][i][2])
    <3>1. CASE i \in 1..Len(old)
      <4>1. calls'[r][i] = Forget(old[i]) /\ old[i] \in Pairs(r)
        BY <1>6, <1>9, <1>10, <3>1
      <4>2. ASSUME old[i] \in New
            PROVE  \E j \in DOMAIN calls'[r] : j > i /\ calls'[r][j] = Note(old[i])
        <5>1. PICK k \in 1..Len(new) : calls'[r][Len(old) + k] = Note(old[i])
          BY <1>13, <4>2
        <5>2. Len(old) + k \in DOMAIN calls'[r] /\ Len(old) + k > i
          BY <1>6, <1>7, <1>9, <1>10, <3>1
        <5>3. QED
          BY <5>1, <5>2
      <4>3. QED
        BY <1>5, <4>1, <4>2 DEF Forget
    <3>2. CASE i \notin 1..Len(old)
      <4>1. i - Len(old) \in 1..Len(new) /\ i = Len(old) + (i - Len(old))
        BY <1>6, <1>7, <1>9, <1>10, <3>2
      <4>2. calls'[r][i] = Note(new[i - Len(old)]) /\ new[i - Len(old)] \in New
        <5> DEFINE k == i - Len(old)
        <5>1. k \in 1..Len(new) /\ i = Len(old) + k
          BY <4>1
        <5> HIDE DEF k
        <5>2. calls'[r][Len(old) + k] = Note(new[k]) /\ new[k] \in New
          BY <1>7, <1>9, <1>10, <5>1
        <5>3. QED
          BY <5>1, <5>2 DEF k
      <4>3. QED
        BY <1>5, <4>2 DEF Note
    <3>3. QED
      BY <3>1, <3>2
  <2>2. QED
    BY <1>4, <2>1 DEF CallsFit, EdgesOf
<1>18. \A q \in Regions : Distinct(row'[q]) /\ CallsFit(q)'
  BY <1>1, <1>4, <1>17 DEF Inv, CallsFit, EdgesOf
<1>19. MissingOnlyIfTorn'
  BY <1>1, <1>4, <1>14, <1>16 DEF Inv, MissingOnlyIfTorn, InIndex
<1>20. ExtraOnlyIfOrphaned'
  BY <1>1, <1>4, <1>15, <1>16 DEF Inv, ExtraOnlyIfOrphaned, InIndex
<1>21. QED
  BY <1>12, <1>18, <1>19, <1>20 DEF Inv, Distinct

\* What Clear and ChangeRow do to the rows of one region.
LEMMA ClearStep == ASSUME Inv, NEW r \in Regions, Clear(r) PROVE Inv'
<1>1. /\ calls[r] = <<>> /\ up' = [up EXCEPT ![r] = FALSE]
      /\ row' = [row EXCEPT ![r] = [m \in Rows |-> Nobody]]
      /\ orphans' = orphans \cup {e \in Pairs(r) : e[2] \in member[e[1]]}
      /\ UNCHANGED <<entries, member, calls, dying, torn, loads, txs>>
  BY DEF Clear, Idle
<1>2. /\ TypeOK /\ \A q \in Regions : row[q] \in [Rows -> RowEdges(q)]
      /\ row \in [Regions -> [Rows -> Edges \cup {Nobody}]]
      /\ \A q \in Regions : Pairs(q) \subseteq Edges
  BY PairsAreEdges DEF Inv, TypeOK
<1>3. /\ \A q \in Regions : Pairs(q)' \subseteq Pairs(q)
      /\ \A q \in Regions : q # r => Pairs(q)' = Pairs(q) /\ row'[q] = row[q]
      /\ row'[r] = [m \in Rows |-> Nobody] /\ row' \in [Regions -> [Rows -> Edges \cup {Nobody}]]
      /\ Distinct(row'[r]) /\ \A q \in Regions : row'[q] \in [Rows -> RowEdges(q)]
  <2>1. /\ row'[r] = [m \in Rows |-> Nobody] /\ row' \in [Regions -> [Rows -> Edges \cup {Nobody}]]
        /\ \A q \in Regions : q # r => row'[q] = row[q]
    BY <1>1, <1>2
  <2>2. row'[r] \in [Rows -> RowEdges(r)]
    BY <2>1 DEF RowEdges
  <2>3. QED
    BY <1>2, <2>1, <2>2 DEF Pairs, Distinct
<1>4. TypeOK'
  BY <1>1, <1>2, <1>3 DEF TypeOK, RowEdges
<1>5. \A q \in Regions : Distinct(row'[q]) /\ CallsFit(q)'
  BY <1>1, <1>3 DEF Inv, CallsFit, EdgesOf
<1>6. \A e : Queued(e)' <=> Queued(e)
  BY <1>1 DEF Queued
<1>7. MissingOnlyIfTorn'
  BY <1>1, <1>3, <1>6 DEF Inv, MissingOnlyIfTorn, InIndex
<1>8. ExtraOnlyIfOrphaned'
  <2>1. ASSUME NEW e \in Edges, InIndex(e), NEW q \in Regions, e \in Pairs(q)
        PROVE  e \in orphans' \/ e \in Pairs(q)'
    BY <1>1, <1>3, <2>1 DEF InIndex
  <2>2. QED
    BY <1>1, <1>6, <2>1 DEF Inv, ExtraOnlyIfOrphaned, InIndex
<1>9. QED
  BY <1>4, <1>5, <1>7, <1>8 DEF Inv, Distinct

LEMMA ChangeStep ==
    ASSUME Inv, NEW r \in Regions, NEW m \in Rows, NEW e \in RowEdges(r), ChangeRow(r, m, e)
    PROVE  Inv'
<1>0. PICK o : o = row[r][m]
  OBVIOUS
<1> DEFINE s == RowCalls(o, e)
<1>1. /\ calls[r] = <<>>
      /\ Distinct([row[r] EXCEPT ![m] = e]) /\ row' = [row EXCEPT ![r][m] = e]
      /\ calls' = [calls EXCEPT ![r] = s] /\ txs > 0 /\ txs' = txs - 1
      /\ UNCHANGED <<entries, member, up, dying, torn, orphans, loads>>
  BY <1>0 DEF ChangeRow, Idle
<1>2. /\ TypeOK /\ calls \in [Regions -> Seq(Calls)]
      /\ \A q \in Regions : row[q] \in [Rows -> RowEdges(q)]
      /\ EdgesOf(r) \subseteq Edges /\ e \in Edges \cup {Nobody}
      /\ row \in [Regions -> [Rows -> Edges \cup {Nobody}]]
  BY PairsAreEdges DEF Inv, TypeOK, RowEdges, EdgesOf
<1>3. /\ \A q \in Regions : q # r => row'[q] = row[q] /\ calls'[q] = calls[q] /\ Pairs(q)' = Pairs(q)
      /\ row'[r] = [row[r] EXCEPT ![m] = e] /\ calls'[r] = s
      /\ row' \in [Regions -> [Rows -> Edges \cup {Nobody}]]
  <2> HIDE DEF s
  <2>1. /\ \A q \in Regions : q # r => row'[q] = row[q] /\ calls'[q] = calls[q]
        /\ row'[r] = [row[r] EXCEPT ![m] = e] /\ calls'[r] = s
        /\ row' \in [Regions -> [Rows -> Edges \cup {Nobody}]]
    BY <1>1, <1>2
  <2>2. QED
    BY <2>1 DEF Pairs
<1>4. /\ row'[r] \in [Rows -> RowEdges(r)] /\ row'[r][m] = e
      /\ \A n \in Rows : n # m => row'[r][n] = row[r][n]
      /\ Distinct(row'[r])
  BY <1>1, <1>2, <1>3
<1>5. /\ \A x \in Pairs(r)' : x \in Pairs(r) \/ x = e
      /\ \A x \in Pairs(r) : x \in Pairs(r)' \/ x = o
      /\ e # Nobody => e \in Pairs(r)'
      /\ Nobody \notin Pairs(r)' /\ Nobody \notin Pairs(r)
  BY <1>0, <1>4 DEF Pairs
<1>6. \A x \in Pairs(r)' : x = o => e = o
  BY <1>0, <1>4 DEF Pairs, Inv, Distinct
<1>7. (o # Nobody => o \in EdgesOf(r)) /\ (e # Nobody => e \in EdgesOf(r))
  BY <1>0, <1>2 DEF RowEdges, EdgesOf
<1>8. o \in Edges \cup {Nobody} /\ e \in Edges \cup {Nobody}
  BY <1>2, <1>7
<1>9. s \in Seq(Calls)
  BY <1>8, RowCallsAre
<1>10. \A i \in DOMAIN s :
          (o # Nobody /\ i = 1 /\ s[i] = Forget(o)) \/ (e # Nobody /\ s[i] = Note(e))
  BY <1>8, RowCallsAre
<1>11. /\ o # Nobody => 1 \in DOMAIN s /\ s[1] = Forget(o)
       /\ e # Nobody => \E i \in DOMAIN s : s[i] = Note(e)
       /\ o # Nobody /\ e # Nobody => 2 \in DOMAIN s /\ s[2] = Note(e)
  BY <1>8, RowCallsAre
<1> HIDE DEF s
<1>12. /\ e # Nobody => Queued(e)'
       /\ o # Nobody => Queued(o)'
  BY <1>3, <1>11 DEF Queued, Note, Forget
<1>13. \A x : Queued(x) => Queued(x)'
  BY <1>1, <1>3 DEF Queued
<1>14. TypeOK'
  <2>1. \A q \in Regions : row'[q] \in [Rows -> RowEdges(q)]
    BY <1>2, <1>3, <1>4
  <2>2. txs' \in Nat /\ calls' \in [Regions -> Seq(Calls)]
    BY <1>1, <1>2, <1>9 DEF TypeOK
  <2>3. QED
    BY <1>1, <1>2, <2>1, <2>2 DEF TypeOK, RowEdges
<1>15. CallsFit(r)'
  <2>1. ASSUME NEW i \in DOMAIN s
        PROVE  /\ s[i][2] \in EdgesOf(r)
               /\ s[i][1] = "note" => s[i][2] \in Pairs(r)'
               /\ s[i][1] = "forget" /\ s[i][2] \in Pairs(r)' =>
                    \E j \in DOMAIN s : j > i /\ s[j] = Note(s[i][2])
    <3>1. CASE o # Nobody /\ i = 1 /\ s[i] = Forget(o)
      BY <1>5, <1>6, <1>7, <1>11, <3>1 DEF Forget
    <3>2. CASE e # Nobody /\ s[i] = Note(e)
      BY <1>5, <1>7, <3>2 DEF Note
    <3>3. QED
      BY <1>10, <3>1, <3>2
  <2>2. QED
    BY <1>3, <2>1 DEF CallsFit, EdgesOf
<1>16. \A q \in Regions : Distinct(row'[q]) /\ CallsFit(q)'
  BY <1>3, <1>4, <1>15 DEF Inv, CallsFit, EdgesOf
<1>17. MissingOnlyIfTorn'
  BY <1>1, <1>3, <1>5, <1>12, <1>13 DEF Inv, MissingOnlyIfTorn, InIndex
<1>18. ExtraOnlyIfOrphaned'
  BY <1>1, <1>3, <1>5, <1>12, <1>13 DEF Inv, ExtraOnlyIfOrphaned, InIndex
<1>19. QED
  BY <1>14, <1>16, <1>17, <1>18 DEF Inv, Distinct

-----------------------------------------------------------------------------
(* The theorems.                                                           *)

LEMMA NextInv == Inv /\ [Next]_vars => Inv'
<1> SUFFICES ASSUME Inv, [Next]_vars PROVE Inv'
  OBVIOUS
<1>1. ASSUME NEW r \in Regions, ShardStep(r) PROVE Inv'
  BY <1>1, LoadStep, ClearStep, ChangeStep, NoteStep, ForgetStep, RemoveStep DEF ShardStep
<1>2. CASE UNCHANGED vars
  BY <1>2 DEF vars, Inv, TypeOK, RowEdges, Distinct, CallsFit, EdgesOf, Pairs,
      MissingOnlyIfTorn, ExtraOnlyIfOrphaned, InIndex, Queued
<1>3. QED
  BY <1>1, <1>2 DEF Next

THEOREM InvHolds == Spec => []Inv
BY InitInv, NextInv, PTL DEF Spec

\* The index's variables keep their types: a player without an entry has no
\* claims, and the calls a shard owes are about edges (interest.rs, DashMap).
THEOREM TypeCorrect == Spec => []TypeOK
BY InvHolds, PTL DEF Inv

\* In any fleet a member of a claim is in the index, or its note is still to be
\* made, or another region's insertion raced with the removal of an emptied
\* entry (InterestHub::forget_member).
THEOREM MissingHolds == Spec => []MissingOnlyIfTorn
BY InvHolds, PTL DEF Inv

\* In any fleet the index holds no edge but those of the regions' rows, of rows
\* about to be forgotten and of rows a clear_store dropped without a word.
THEOREM ExtraHolds == Spec => []ExtraOnlyIfOrphaned
BY InvHolds, PTL DEF Inv

=============================================================================
