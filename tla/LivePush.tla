------------------------------ MODULE LivePush ------------------------------
(***************************************************************************)
(* The live push path end to end: region shards applying transactions      *)
(* under their store's write lock and notifying the hub after it           *)
(* (shard.rs, interest.rs), and the dim-buildings WebSocket tasks that     *)
(* re-scan the store and send snapshots and deltas (stream.rs).            *)
(*                                                                         *)
(* A watch receiver is its "has changed" bit: generations matter only      *)
(* through it.  bind_keys runs without an await and before any scan, so    *)
(* binding a set of keys is one step; InterestHub has its finer grain.     *)
(* Heartbeats, pongs and frame texts are left out, and with them the error *)
(* frame for a later subscribe frame that does not parse: nothing changes. *)
(***************************************************************************)
EXTENDS HousingRows, Integers

CONSTANTS
    Regions,     \* the fleet's shards
    Keys,        \* <<region, dimension>> pairs a client may name
    Conns,       \* WebSocket connections
    Unsent,      \* stands for a missing last_sent slot, see NotSent
    Residents,   \* leases held by sockets outside this model
    MaxDimKeys,  \* MAX_DIM_KEYS
    MaxRows,     \* bound: row changes per transaction
    MaxTx,       \* bound: transactions
    MaxLoads,    \* bound: bulk loads
    MaxFrames    \* bound: client frames after the first, and connects

ASSUME PushAssumption ==
    /\ \A k \in Keys : k = <<k[1], k[2]>> /\ k[2] \in Dims \cup {Overworld}
    /\ Unsent \notin Entities
    /\ Residents \in Nat
    /\ MaxTx \in Nat /\ MaxLoads \in Nat /\ MaxFrames \in Nat

VARIABLES
    store,    \* store[r]: the shard's RegionStore
    phase,    \* phase[r]: where the shard task is
    collect,  \* collect[r]: has_subscribers was true for this transaction
    touches,  \* touches[r]: the TouchBatch, later what is still to notify
    before,   \* history: before[r] is the store as last committed: loaded,
              \* cleared, or left by a transaction that was applied to its end
    pc,       \* pc[c]: where the connection task is
    keys,     \* keys[c]: the subscribed keys, each with a lease
    changed,  \* changed[c][k]: the receiver has an unseen generation
    todo,     \* todo[c]: keys left to snapshot, or the pending set to push
    lastSent, \* lastSent[c][k]: the diff baseline
    view,     \* view[c][k]: what the client assembled from the frames
    lost,     \* history: why a key may be stale, since it was last sent
    rows,     \* rows[r]: rows applied by the current transaction
    left      \* what remains of MaxTx, MaxLoads and MaxFrames

shardVars == <<store, phase, collect, touches, before, rows>>
connVars == <<pc, keys, todo, lastSent, view>>
vars == <<store, phase, collect, touches, before, pc, keys, changed, todo,
          lastSent, view, lost, rows, left>>

Phases == {"down", "idle", "checked", "applying", "failed", "flushing"}
Places == {"closed", "waiting", "snapshot", "loop", "coalesce", "push"}

\* Why a client can be left behind; see StaleOnlyIfLost.
Causes == {"rebind", "unwatched", "reset", "catalog"}

\* No last_sent slot: a set that is never an id set.
NotSent == {Unsent}

Baseline == (SUBSET Entities) \cup {NotSent}
Nothing == [k \in Keys |-> NotSent]
NoCause == [k \in Keys |-> {}]

-----------------------------------------------------------------------------
ReadableMutant(r) == TRUE

\* A store can be read while the shard does not hold its write lock.
Readable(r) == phase[r] # "applying"

\* scan_dim: empty for a region outside the fleet.
ScanOf(st, k) == IF k[1] \in Regions THEN HousingBuildingIds(st[k[1]], k[2]) ELSE {}
Scan(k) == ScanOf(store, k)
CanScan(k) == k[1] \in Regions => Readable(k[1])

HasSubscribers == Residents > 0 \/ \E c \in Conns : keys[c] # {}
Watched(k) == \E c \in Conns : k \in keys[c]

KeysOf(r) == {k \in Keys : k[1] = r}
KeysIn(r, dims) == {k \in Keys : k[1] = r /\ k[2] \in dims}

\* lost, with cause y added for the keys of K that are subscribed.
Blame(K, y) ==
    [c \in Conns |->
        [k \in Keys |-> IF k \in K \cap keys[c] THEN lost[c][k] \cup {y}
                        ELSE lost[c][k]]]

Budgets == {"tx", "loads", "frames"}
Spend(f) == left[f] > 0 /\ left' = [left EXCEPT ![f] = @ - 1]

-----------------------------------------------------------------------------
Init ==
    /\ store = [r \in Regions |-> EmptyStore]
    /\ phase = [r \in Regions |-> "down"]
    /\ collect = [r \in Regions |-> FALSE]
    /\ touches = [r \in Regions |-> {}]
    /\ before = [r \in Regions |-> EmptyStore]
    /\ pc = [c \in Conns |-> "closed"]
    /\ keys = [c \in Conns |-> {}]
    /\ changed = [c \in Conns |-> [k \in Keys |-> FALSE]]
    /\ todo = [c \in Conns |-> {}]
    /\ lastSent = [c \in Conns |-> Nothing]
    /\ view = [c \in Conns |-> Nothing]
    /\ lost = [c \in Conns |-> NoCause]
    /\ rows = [r \in Regions |-> 0]
    /\ left = [f \in Budgets |->
                 CASE f = "tx" -> MaxTx [] f = "loads" -> MaxLoads [] OTHER -> MaxFrames]

-----------------------------------------------------------------------------
(* The shard.                                                              *)

\* session: the finished bulk load replaces the store under the write lock.
\* Nothing on the dim-buildings topic is notified.
LoadStore(r) ==
    /\ phase[r] = "down"
    /\ Spend("loads")
    /\ \E s \in Stores : store' = [store EXCEPT ![r] = s]
    /\ phase' = [phase EXCEPT ![r] = "idle"]
    /\ before' = [before EXCEPT ![r] = store'[r]]
    /\ lost' = Blame(KeysOf(r), "reset")
    /\ UNCHANGED <<collect, touches, rows, connVars, changed>>

\* clear_store when the session ends, with or without an error.
ClearStore(r) ==
    /\ phase[r] \in {"idle", "failed"}
    /\ store' = [store EXCEPT ![r] = EmptyStore]
    /\ before' = [before EXCEPT ![r] = EmptyStore]
    /\ phase' = [phase EXCEPT ![r] = "down"]
    /\ lost' = Blame(KeysOf(r), "reset")
    /\ UNCHANGED <<collect, touches, rows, connVars, changed, left>>

\* apply_transaction: decide on a TouchBatch before taking the lock.
CheckSubscribers(r) ==
    /\ phase[r] = "idle"
    /\ Spend("tx")
    /\ collect' = [collect EXCEPT ![r] = HasSubscribers]
    /\ phase' = [phase EXCEPT ![r] = "checked"]
    /\ UNCHANGED <<store, touches, before, rows, connVars, changed, lost>>

TakeLock(r) ==
    /\ phase[r] = "checked"
    /\ phase' = [phase EXCEPT ![r] = "applying"]
    /\ rows' = [rows EXCEPT ![r] = 0]
    /\ UNCHANGED <<store, collect, touches, before, connVars, changed, lost, left>>

\* One row of apply_rows: the new store, and the dimensions it touches.  A
\* touch enters the batch if the batch exists and the key is watched now.
ApplyRow(r, s, dims) ==
    /\ phase[r] = "applying"
    /\ rows[r] < MaxRows
    /\ rows' = [rows EXCEPT ![r] = @ + 1]
    /\ store' = [store EXCEPT ![r] = s]
    /\ touches' =
         [touches EXCEPT ![r] =
             IF collect[r] THEN @ \cup {k \in KeysIn(r, dims) : Watched(k)} ELSE @]
    /\ lost' = IF collect[r] THEN lost ELSE Blame(KeysIn(r, dims), "unwatched")
    /\ UNCHANGED <<phase, collect, before, connVars, changed, left>>

\* A transaction's rows agree with the store: what it deletes is there, what
\* it inserts is not (an update is a delete and an insert).  The order of
\* tables in a transaction is the upstream's, so any order is allowed.
DeleteBuildingRow(r, e) ==
    /\ store[r].bld[e] # Absent
    /\ ApplyRow(r, DeleteBuilding(store[r], e), TouchBuilding(store[r], e))

InsertBuildingRow(r, e, t) ==
    /\ store[r].bld[e] = Absent
    /\ LET s == UpsertBuilding(store[r], e, t)
       IN  ApplyRow(r, s, TouchBuilding(s, e))

DeleteLocationRow(r, e) ==
    /\ store[r].loc[e] # Overworld
    /\ ApplyRow(r, DeleteLocation(store[r], e), TouchLocation(store[r].loc[e]))

InsertLocationRow(r, e, d) ==
    /\ store[r].loc[e] = Overworld
    /\ ApplyRow(r, UpsertLocation(store[r], e, d), TouchLocation(d))

\* building_desc rows change the storage filter of a whole region and touch
\* nothing.
ChangeDescRow(r, s) ==
    /\ phase[r] = "applying"
    /\ rows[r] < MaxRows
    /\ rows' = [rows EXCEPT ![r] = @ + 1]
    /\ store' = [store EXCEPT ![r] = s]
    /\ lost' = Blame(KeysOf(r), "catalog")
    /\ UNCHANGED <<phase, collect, touches, before, connVars, changed, left>>

\* A row that does not decode: `?` leaves the lock with what was applied so
\* far and without flushing the batch; the session ends in clear_store.  Until
\* then readers can see the half transaction, which is not a commit.
FailApply(r) ==
    /\ phase[r] = "applying"
    /\ phase' = [phase EXCEPT ![r] = "failed"]
    /\ touches' = [touches EXCEPT ![r] = {}]
    /\ lost' = Blame(KeysOf(r), "reset")
    /\ UNCHANGED <<store, collect, before, rows, connVars, changed, left>>

ReleaseLock(r) ==
    /\ phase[r] = "applying"
    /\ phase' = [phase EXCEPT ![r] = "flushing"]
    /\ before' = [before EXCEPT ![r] = store[r]]
    /\ UNCHANGED <<store, collect, touches, rows, connVars, changed, lost, left>>

\* TouchBatch::flush: one notify per key.
Notify(r, k) ==
    /\ phase[r] = "flushing"
    /\ k \in touches[r]
    /\ touches' = [touches EXCEPT ![r] = @ \ {k}]
    /\ changed' = [c \in Conns |-> [changed[c] EXCEPT ![k] = @ \/ k \in keys[c]]]
    /\ UNCHANGED <<store, phase, collect, before, rows, connVars, lost, left>>

EndFlush(r) ==
    /\ phase[r] = "flushing"
    /\ touches[r] = {}
    /\ phase' = [phase EXCEPT ![r] = "idle"]
    /\ collect' = [collect EXCEPT ![r] = FALSE]
    /\ rows' = [rows EXCEPT ![r] = 0]
    /\ UNCHANGED <<store, touches, before, connVars, changed, lost, left>>

-----------------------------------------------------------------------------
(* The connection.                                                         *)

BaselineAfterReplaceMutant(c) == lastSent[c]
DrainedMutant(c) == {}

\* last_sent.clear()
BaselineAfterReplace(c) == Nothing

\* drain_changed: the keys whose receivers changed meanwhile.
Drained(c) == {k \in keys[c] : changed[c][k]}

BurstMutant(c, K) == K \ keys[c]

\* push_snapshots: every bound key, those already subscribed included.
Burst(c, K) == K

\* Leave the task: keys, leases and baseline go with it.
Leave(c) ==
    /\ pc' = [pc EXCEPT ![c] = "closed"]
    /\ keys' = [keys EXCEPT ![c] = {}]
    /\ changed' = [changed EXCEPT ![c] = [k \in Keys |-> FALSE]]
    /\ todo' = [todo EXCEPT ![c] = {}]
    /\ lastSent' = [lastSent EXCEPT ![c] = Nothing]
    /\ view' = [view EXCEPT ![c] = Nothing]
    /\ lost' = [lost EXCEPT ![c] = NoCause]

\* A subscribe frame: the keys without dimension 0, deduplicated, not none and
\* not too many, are bound, and the burst of snapshots begins.
Subscribe(c, K) ==
    /\ K # {}
    /\ Cardinality(K) <= MaxDimKeys
    /\ keys' = [keys EXCEPT ![c] = K]
    /\ changed' = [changed EXCEPT ![c] = [k \in Keys |-> FALSE]]
    /\ lastSent' = [lastSent EXCEPT ![c] = BaselineAfterReplace(c)]
    /\ view' = [view EXCEPT ![c] = Nothing]
    /\ lost' = [lost EXCEPT ![c] = NoCause]
    /\ todo' = [todo EXCEPT ![c] = Burst(c, K)]
    /\ pc' = [pc EXCEPT ![c] = "snapshot"]

\* The upgrade succeeded and the task waits for its first frame.
Connect(c) ==
    /\ pc[c] = "closed"
    /\ Spend("frames")
    /\ pc' = [pc EXCEPT ![c] = "waiting"]
    /\ UNCHANGED <<shardVars, keys, changed, todo, lastSent, view, lost>>

FirstFrame(c, K) ==
    /\ pc[c] = "waiting"
    /\ Subscribe(c, K)
    /\ UNCHANGED <<shardVars, left>>

\* No text frame in time, or one that does not parse: error frame and close.
RefuseFirstFrame(c) ==
    /\ pc[c] = "waiting"
    /\ Leave(c)
    /\ UNCHANGED <<shardVars, left>>

\* push_snapshots, one key.
Snapshot(c, k) ==
    /\ pc[c] = "snapshot"
    /\ k \in todo[c]
    /\ CanScan(k)
    /\ lastSent' = [lastSent EXCEPT ![c][k] = Scan(k)]
    /\ view' = [view EXCEPT ![c][k] = Scan(k)]
    /\ lost' = [lost EXCEPT ![c][k] = {}]
    /\ todo' = [todo EXCEPT ![c] = @ \ {k}]
    /\ pc' = [pc EXCEPT ![c] = IF todo[c] = {k} THEN "loop" ELSE "snapshot"]
    /\ UNCHANGED <<shardVars, keys, changed, left>>

\* A later subscribe frame replaces the set.
Resubscribe(c, K) ==
    /\ pc[c] = "loop"
    /\ Spend("frames")
    /\ Subscribe(c, K)
    /\ UNCHANGED shardVars

\* An unsubscribe frame: the remaining keys are bound anew, so their
\* receivers start with nothing unseen, and they are not scanned again.
Unsubscribe(c, K) ==
    /\ pc[c] = "loop"
    /\ Spend("frames")
    /\ keys' = [keys EXCEPT ![c] = @ \ K]
    /\ changed' = [changed EXCEPT ![c] = [k \in Keys |-> FALSE]]
    /\ lastSent' = [lastSent EXCEPT ![c] =
                        [k \in Keys |-> IF k \in K THEN NotSent ELSE lastSent[c][k]]]
    /\ view' = [view EXCEPT ![c] =
                        [k \in Keys |-> IF k \in K THEN NotSent ELSE view[c][k]]]
    /\ lost' = [lost EXCEPT ![c] =
                   [k \in Keys |->
                       IF k \notin keys[c] \ K THEN {}
                       ELSE IF changed[c][k] THEN lost[c][k] \cup {"rebind"}
                       ELSE lost[c][k]]]
    /\ UNCHANGED <<shardVars, pc, todo>>

\* wait_any_change resolves with one key, whose generation is now seen; the
\* task sleeps for the coalesce window.
SeeChange(c, k) ==
    /\ pc[c] = "loop"
    /\ k \in keys[c]
    /\ changed[c][k]
    /\ changed' = [changed EXCEPT ![c][k] = FALSE]
    /\ todo' = [todo EXCEPT ![c] = {k}]
    /\ pc' = [pc EXCEPT ![c] = "coalesce"]
    /\ UNCHANGED <<shardVars, keys, lastSent, view, lost, left>>

\* The window is over: drain_changed.
Drain(c) ==
    /\ pc[c] = "coalesce"
    /\ todo' = [todo EXCEPT ![c] = @ \cup Drained(c)]
    /\ changed' = [changed EXCEPT ![c] = [k \in Keys |-> FALSE]]
    /\ pc' = [pc EXCEPT ![c] = "push"]
    /\ UNCHANGED <<shardVars, keys, lastSent, view, lost, left>>

\* push_delta: scan, diff against the baseline, send what changed.
PushDelta(c, k) ==
    LET new == Scan(k)
        added == new \ lastSent[c][k]
        removed == lastSent[c][k] \ new
    IN  /\ pc[c] = "push"
        /\ k \in todo[c]
        /\ CanScan(k)
        /\ lastSent' = [lastSent EXCEPT ![c][k] = new]
        /\ view' = [view EXCEPT ![c][k] =
                        IF lastSent[c][k] = NotSent THEN new ELSE (@ \ removed) \cup added]
        /\ lost' = [lost EXCEPT ![c][k] = {}]
        /\ todo' = [todo EXCEPT ![c] = @ \ {k}]
        /\ pc' = [pc EXCEPT ![c] = IF todo[c] = {k} THEN "loop" ELSE "push"]
        /\ UNCHANGED <<shardVars, keys, changed, left>>

\* The client closes, or a send fails.
Close(c) ==
    /\ pc[c] \in {"snapshot", "loop", "push"}
    /\ Leave(c)
    /\ UNCHANGED <<shardVars, left>>

-----------------------------------------------------------------------------
RowStep(r) ==
    \E e \in Entities :
        \/ DeleteBuildingRow(r, e)
        \/ \E t \in Descs : InsertBuildingRow(r, e, t)
        \/ DeleteLocationRow(r, e)
        \/ \E d \in Dims : InsertLocationRow(r, e, d)

DescStep(r) ==
    \E t \in Descs :
        \/ ChangeDescRow(r, DeleteDesc(store[r], t))
        \/ \E b \in BOOLEAN : ChangeDescRow(r, UpsertDesc(store[r], t, b))

ShardStep(r) ==
    \/ LoadStore(r)
    \/ ClearStore(r)
    \/ CheckSubscribers(r)
    \/ TakeLock(r)
    \/ RowStep(r)
    \/ DescStep(r)
    \/ FailApply(r)
    \/ ReleaseLock(r)
    \/ \E k \in Keys : Notify(r, k)
    \/ EndFlush(r)

ClientStep(c) ==
    \/ Connect(c)
    \/ \E K \in SUBSET Keys : FirstFrame(c, K) \/ Resubscribe(c, K) \/ Unsubscribe(c, K)
    \/ RefuseFirstFrame(c)
    \/ Close(c)

PushStep(c) ==
    \/ \E k \in Keys : Snapshot(c, k) \/ SeeChange(c, k) \/ PushDelta(c, k)
    \/ Drain(c)

Next ==
    \/ \E r \in Regions : ShardStep(r)
    \/ \E c \in Conns : ClientStep(c) \/ PushStep(c)

Spec == Init /\ [][Next]_vars

\* apply_transaction and flush run to their end without an await; the socket
\* task is polled, and its scans get the read lock once the shard drops it.
\* Nothing obliges the upstream or a client to do anything.
Fairness ==
    /\ \A r \in Regions :
          /\ WF_vars(TakeLock(r))
          /\ WF_vars(ReleaseLock(r) \/ FailApply(r))
          /\ WF_vars(\E k \in Keys : Notify(r, k))
          /\ WF_vars(EndFlush(r))
    /\ \A c \in Conns : WF_vars(PushStep(c))

FairSpec == Spec /\ Fairness

-----------------------------------------------------------------------------
(* Properties.                                                             *)

TypeOK ==
    /\ store \in [Regions -> Stores]
    /\ phase \in [Regions -> Phases]
    /\ collect \in [Regions -> BOOLEAN]
    /\ touches \in [Regions -> SUBSET Keys]
    /\ before \in [Regions -> Stores]
    /\ pc \in [Conns -> Places]
    /\ keys \in [Conns -> SUBSET Keys]
    /\ changed \in [Conns -> [Keys -> BOOLEAN]]
    /\ todo \in [Conns -> SUBSET Keys]
    /\ lastSent \in [Conns -> [Keys -> Baseline]]
    /\ view \in [Conns -> [Keys -> Baseline]]
    /\ lost \in [Conns -> [Keys -> SUBSET Causes]]
    /\ rows \in [Regions -> Nat]
    /\ left \in [Budgets -> Nat]

Fresh(c, k) == lastSent[c][k] = Scan(k)

\* A wake-up for (c, k) is on its way: unseen, being pushed, or in the batch
\* of the shard.
OnItsWay(c, k) ==
    \/ changed[c][k]
    \/ k \in todo[c]
    \/ k[1] \in Regions /\ k \in touches[k[1]]

\* Up to the given causes, a key that is not up to date has a wake-up coming.
FreshUpTo(causes) ==
    \A c \in Conns : \A k \in keys[c] :
        lost[c][k] \subseteq causes => Fresh(c, k) \/ OnItsWay(c, k)

\* No building or location row that changes a subscribed key's id set is ever
\* lost on its way to the client, whatever the interleaving of applies,
\* flushes, scans and subscribes, except by the four things in Causes.
StaleOnlyIfLost == FreshUpTo({})

\* The client's copy, assembled from snapshots and deltas, is the baseline the
\* next delta is computed against (push_snapshots, push_delta, the retain and
\* clear of last_sent).
ViewIsBaseline == view = lastSent

\* A subscribed key without a baseline is still waiting for its snapshot: no
\* delta is ever computed against nothing.
SentBeforeDelta ==
    \A c \in Conns : \A k \in keys[c] :
        lastSent[c][k] = NotSent => pc[c] = "snapshot" /\ k \in todo[c]

\* The keys of a region whose last transaction failed half way, until
\* clear_store: the lock is free and the half applied store can be scanned.
Torn == {k \in Keys : k[1] \in Regions /\ phase[k[1]] = "failed"}

\* The stream implements DimFeed: a snapshot or a delta shows the id set of a
\* store as it was loaded, cleared or left by a whole transaction, never the
\* middle of one under way; only between a transaction that fails half way and
\* the clear_store that follows may a scan show the rows it got to.
Feed == INSTANCE DimFeed WITH
    Ids <- Entities,
    truth <- [k \in Keys |-> ScanOf(before, k)],
    torn <- Torn,
    subs <- keys
FeedSpec == Feed!Spec

\* A key that is stale for none of the causes becomes fresh, or is dropped, or
\* meets one of the causes: coalescing and bursts never swallow the last bump.
EventuallyFresh ==
    \A c \in Conns : \A k \in Keys :
        (k \in keys[c] /\ lost[c][k] = {} /\ ~Fresh(c, k))
            ~> (k \notin keys[c] \/ lost[c][k] # {} \/ Fresh(c, k))

-----------------------------------------------------------------------------
(* What a comment says, refuted by a run.                                  *)

\* The cache is ready and no transaction of the key's region is under way.
Quiet(k) == k[1] \in Regions => phase[k[1]] = "idle"

\* A snapshot taken while the shard is loading is caught up with.
FreshAfterReload ==
    \A c \in Conns : \A k \in keys[c] :
        lost[c][k] \subseteq {"reset"} /\ Quiet(k) => Fresh(c, k) \/ OnItsWay(c, k)

=============================================================================
