---------------------------- MODULE MemberIndex ----------------------------
(***************************************************************************)
(* The fleet-wide player -> claims index of the interest hub, shared by    *)
(* the region shards: each shard keeps its own membership edges in it, one *)
(* DashMap call at a time, while the others do the same (interest.rs and   *)
(* the claim_member rows of shard.rs).                                     *)
(***************************************************************************)
EXTENDS SequencesExt, Integers

CONSTANTS
    Regions,   \* the fleet's shards
    Players,   \* player entity ids, a player may be a member in any region
    Rows,      \* claim_member_state entity ids of a region
    ClaimsOf,  \* ClaimsOf[r]: the claims of region r
    Nobody,    \* no row, no player
    MaxLoads,  \* bound: bulk loads
    MaxTx      \* bound: row changes

Claims == UNION {ClaimsOf[r] : r \in Regions}
Edges == Players \X Claims

ASSUME IndexAssumption ==
    /\ \A r, q \in Regions : r # q => ClaimsOf[r] \cap ClaimsOf[q] = {}
    /\ Nobody \notin Players
    /\ Nobody \notin Edges
    /\ IsFiniteSet(Rows)
    /\ MaxLoads \in Nat /\ MaxTx \in Nat

VARIABLES
    entries, \* players with an entry in member_of
    member,  \* member[p]: the claims in p's entry
    row,     \* row[r][m]: the edge of membership row m in region r's store
    up,      \* up[r]: region r is loaded
    calls,   \* calls[r]: hub calls the shard still has to make, in order
    dying,   \* dying[r]: player whose empty set the shard saw, not removed yet
    torn,    \* history: edges that went with an entry that was not empty any more
    orphans, \* history: edges of rows a cleared store forgot
    loads,   \* loads left
    txs      \* row changes left

vars == <<entries, member, row, up, calls, dying, torn, orphans, loads, txs>>

\* Operators named ...Mutant are plausible bugs; PROJECT.json pairs each with
\* the definition it replaces and the property that must catch it.
PairsMutant(r) == {row[r][m] : m \in Rows}

\* player_claim_pairs.
Pairs(r) == {row[r][m] : m \in Rows} \ {Nobody}

Calls == {"note", "forget"} \X Edges
Note(e) == <<"note", e>>
Forget(e) == <<"forget", e>>

Init ==
    /\ entries = {}
    /\ member = [p \in Players |-> {}]
    /\ row = [r \in Regions |-> [m \in Rows |-> Nobody]]
    /\ up = [r \in Regions |-> FALSE]
    /\ calls = [r \in Regions |-> <<>>]
    /\ dying = [r \in Regions |-> Nobody]
    /\ torn = {}
    /\ orphans = {}
    /\ loads = MaxLoads
    /\ txs = MaxTx

-----------------------------------------------------------------------------
(* The hub.                                                                *)

\* The shard is between two hub calls.
Free(r) == dying[r] = Nobody

\* note_member: one entry() call.
NoteMember(r) ==
    /\ Free(r)
    /\ calls[r] # <<>>
    /\ LET e == Head(calls[r])[2]
       IN  /\ Head(calls[r]) = Note(e)
           /\ entries' = entries \cup {e[1]}
           /\ member' = [member EXCEPT ![e[1]] = @ \cup {e[2]}]
           /\ torn' = torn \ {e}
           /\ orphans' = orphans \ {e}
    /\ calls' = [calls EXCEPT ![r] = Tail(@)]
    /\ UNCHANGED <<row, up, dying, loads, txs>>

\* forget_member, first half: remove the claim under the entry's lock.
ForgetMember(r) ==
    /\ Free(r)
    /\ calls[r] # <<>>
    /\ LET e == Head(calls[r])[2]
       IN  /\ Head(calls[r]) = Forget(e)
           /\ member' = [member EXCEPT ![e[1]] = @ \ {e[2]}]
           /\ dying' = [dying EXCEPT ![r] = IF e[1] \in entries /\ member[e[1]] \subseteq {e[2]}
                                                 THEN e[1] ELSE Nobody]
           /\ orphans' = orphans \ {e}
    /\ calls' = [calls EXCEPT ![r] = Tail(@)]
    /\ UNCHANGED <<entries, row, up, torn, loads, txs>>

\* forget_member, second half: remove the entry, whatever it holds by now.
RemoveEntry(r) ==
    /\ dying[r] # Nobody
    /\ entries' = entries \ {dying[r]}
    /\ torn' = torn \cup ({dying[r]} \X member[dying[r]])
    /\ member' = [member EXCEPT ![dying[r]] = {}]
    /\ dying' = [dying EXCEPT ![r] = Nobody]
    /\ UNCHANGED <<row, up, calls, orphans, loads, txs>>

-----------------------------------------------------------------------------
(* The shards.                                                             *)

\* The shard is between two rows.
Idle(r) == Free(r) /\ calls[r] = <<>>

\* A player is a member of a claim at most once.
Distinct(rs) == \A m, n \in Rows : rs[m] = rs[n] /\ rs[m] # Nobody => m = n

\* session: the loaded rows replace the store, then replace_region_members.
Load(r, rs) ==
    /\ Idle(r) /\ ~up[r] /\ loads > 0
    /\ loads' = loads - 1
    /\ Distinct(rs)
    /\ row' = [row EXCEPT ![r] = rs]
    /\ up' = [up EXCEPT ![r] = TRUE]
    /\ \E old \in SetToSeqs(Pairs(r)), new \in SetToSeqs({rs[m] : m \in Rows} \ {Nobody}) :
          calls' = [calls EXCEPT ![r] = [i \in DOMAIN old |-> Forget(old[i])]
                                            \o [i \in DOMAIN new |-> Note(new[i])]]
    /\ UNCHANGED <<entries, member, dying, torn, orphans, txs>>

\* clear_store: the rows go, the hub is not told.
Clear(r) ==
    /\ Idle(r) /\ up[r]
    /\ up' = [up EXCEPT ![r] = FALSE]
    /\ row' = [row EXCEPT ![r] = [m \in Rows |-> Nobody]]
    /\ orphans' = orphans \cup {e \in Pairs(r) : e[2] \in member[e[1]]}
    /\ UNCHANGED <<entries, member, calls, dying, torn, loads, txs>>

RowCallsMutant(old, new) ==
    (IF new = Nobody THEN <<>> ELSE <<Note(new)>>)
        \o (IF old = Nobody THEN <<>> ELSE <<Forget(old)>>)
RowCallsLeakMutant(old, new) == IF new = Nobody THEN <<>> ELSE <<Note(new)>>

\* The hub calls for one row: forget what it said, note what it says now.
RowCalls(old, new) ==
    (IF old = Nobody THEN <<>> ELSE <<Forget(old)>>)
        \o (IF new = Nobody THEN <<>> ELSE <<Note(new)>>)

\* A deleted, inserted or updated claim_member row.
ChangeRow(r, m, e) ==
    /\ Idle(r) /\ up[r] /\ txs > 0
    /\ txs' = txs - 1
    /\ row[r][m] # Nobody \/ e # Nobody
    /\ Distinct([row[r] EXCEPT ![m] = e])
    /\ row' = [row EXCEPT ![r][m] = e]
    /\ calls' = [calls EXCEPT ![r] = RowCalls(row[r][m], e)]
    /\ UNCHANGED <<entries, member, up, dying, torn, orphans, loads>>

\* The edges a row of region r can hold, or none.
RowEdges(r) == (Players \X ClaimsOf[r]) \cup {Nobody}

ShardStep(r) ==
    \/ \E rs \in [Rows -> RowEdges(r)] : Load(r, rs)
    \/ Clear(r)
    \/ \E m \in Rows, e \in RowEdges(r) : ChangeRow(r, m, e)
    \/ NoteMember(r)
    \/ ForgetMember(r)
    \/ RemoveEntry(r)

Next == \E r \in Regions : ShardStep(r)

Spec == Init /\ [][Next]_vars

-----------------------------------------------------------------------------
(* Properties.                                                             *)

TypeOK ==
    /\ entries \in SUBSET Players
    /\ member \in [Players -> SUBSET Claims]
    /\ \A p \in Players : p \notin entries => member[p] = {}
    /\ row \in [Regions -> [Rows -> Edges \cup {Nobody}]]
    /\ \A r \in Regions : row[r] \in [Rows -> RowEdges(r)]
    /\ up \in [Regions -> BOOLEAN]
    /\ calls \in [Regions -> Seq(Calls)]
    /\ dying \in [Regions -> Players \cup {Nobody}]
    /\ torn \in SUBSET Edges
    /\ orphans \in SUBSET Edges
    /\ loads \in Nat
    /\ txs \in Nat

\* The rosters notify_member_rosters wakes for a player.
InIndex(e) == e[2] \in member[e[1]]

Queued(e) == \E r \in Regions : \E i \in DOMAIN calls[r] : calls[r][i][2] = e

\* A member of a claim is in the index, so that a touch on the player's home
\* region wakes the claim's roster, unless the removal of an entry raced with
\* another region's insertion into it.
MissingOnlyIfTorn ==
    \A r \in Regions : \A e \in Pairs(r) : InIndex(e) \/ Queued(e) \/ e \in torn

\* The index holds no edge that is not some region's row, except those of rows
\* a clear_store dropped.
ExtraOnlyIfOrphaned ==
    \A e \in Edges :
        InIndex(e) => Queued(e) \/ e \in orphans \/ \E r \in Regions : e \in Pairs(r)

-----------------------------------------------------------------------------
(* What a comment says, refuted by a run.                                  *)

\* A reload swaps the region's membership edges for the new ones.
ReloadSwapsEdges ==
    \A r \in Regions : up[r] /\ Idle(r) =>
        {e \in Players \X ClaimsOf[r] : InIndex(e)} \subseteq Pairs(r)

=============================================================================
