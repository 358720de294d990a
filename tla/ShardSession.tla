---------------------------- MODULE ShardSession ----------------------------
(***************************************************************************)
(* One region's shard task (shard.rs, wire.rs): connect to the region's    *)
(* SpacetimeDB mirror, load two additive query sets into a private store,  *)
(* publish it, follow the transactions, and start over when the session    *)
(* ends.                                                                   *)
(*                                                                         *)
(* Of the rows it keeps the claims, the hexite deposits (resource_state,   *)
(* query set 1) and their coordinates (location_state, query set 2, one    *)
(* query per deposit of the first answer).  Timers are abstracted: a poll, *)
(* a tick or a sleep that is due may be handled at any time.               *)
(***************************************************************************)
EXTENDS Sequences, Integers

CONSTANTS
    Claims,      \* claim_state rows
    Sites,       \* hexite deposit entities
    MaxCommits,  \* bound: upstream transactions
    MaxSessions, \* bound: connections
    MaxWire,     \* bound: frames on the wire
    BackoffMin,  \* BACKOFF_MIN and BACKOFF_MAX, in seconds
    BackoffMax

ASSUME SessionAssumption ==
    /\ MaxCommits \in Nat /\ MaxSessions \in Nat /\ MaxWire \in Nat
    /\ BackoffMin \in Nat \ {0} /\ BackoffMax \in Nat /\ BackoffMin <= BackoffMax

VARIABLES
    db,        \* the mirror's rows (external)
    link,      \* the connection: "none", "up" or "cut"
    asked,     \* query sets sent and not answered yet
    served,    \* query sets the mirror keeps up to date
    wanted,    \* deposits query set 2 asks the location of
    wire,      \* frames on their way to the shard
    pc,        \* where the shard task is
    building,  \* the private store of a bulk load
    store,     \* the RegionStore readers see
    seen,      \* the mirror's rows as of the session's last frame
    backoff,   \* what the next sleep lasts
    streak,    \* history: sleeps since a lasting session was lost
    replaced,  \* history: deposits whose row the session saw inserted
    shutdown,  \* the shutdown future has resolved
    commits,   \* transactions left
    sessions   \* connections left

serverVars == <<db, link, asked, served, wanted, wire, commits>>
patience == <<backoff, streak>>
vars == <<db, link, asked, served, wanted, wire, pc, building, store, seen,
          patience, replaced, shutdown, commits, sessions>>

Databases == [claims : SUBSET Claims, hex : SUBSET Sites, loc : SUBSET Sites]
NoRows == [claims |-> {}, hex |-> {}, loc |-> {}]

\* located: the deposits with has_location; only a row has the flag.
Stores ==
    {s \in [ready : BOOLEAN, claims : SUBSET Claims, hex : SUBSET Sites, located : SUBSET Sites] :
        s.located \subseteq s.hex}
EmptyStore == [ready |-> FALSE, claims |-> {}, hex |-> {}, located |-> {}]

QuerySets == {"base", "hexite"}

-----------------------------------------------------------------------------
(* Row operations.                                                         *)

\* A frame is the answer to a subscribe, with a snapshot of the query set, or
\* a TransactionUpdate: rows deleted and inserted, the sets in either order.
Frames ==
    [kind : {"applied"}, set : QuerySets, rows : Databases]
        \cup [kind : {"update"}, rows : Databases,
              delClaims : SUBSET Claims, insClaims : SUBSET Claims,
              delHex : SUBSET Sites, insHex : SUBSET Sites,
              delLoc : SUBSET Sites, insLoc : SUBSET Sites,
              first : QuerySets]

\* Operators named ...Mutant are plausible bugs; PROJECT.json pairs each with
\* the definition it replaces and the property that must catch it.
ApplyBaseMutant(s, u) ==
    [s EXCEPT !.claims = (@ \ u.delClaims) \cup u.insClaims,
              !.hex = (@ \ u.delHex) \cup u.insHex]

\* ClaimSoA and ResourceSoA::delete and upsert: a deleted slot forgets its
\* location, a new slot has none.
ApplyBase(s, u) ==
    [s EXCEPT !.claims = (@ \ u.delClaims) \cup u.insClaims,
              !.hex = (@ \ u.delHex) \cup u.insHex,
              !.located = @ \ u.delHex]

\* clear_location and set_location, which only attaches to a known deposit.
ApplyLocations(s, u) ==
    [s EXCEPT !.located = (@ \ u.delLoc) \cup (u.insLoc \cap s.hex)]

\* apply_transaction_to.
ApplyUpdate(s, u) ==
    IF u.first = "base" THEN ApplyLocations(ApplyBase(s, u), u)
                        ELSE ApplyBase(ApplyLocations(s, u), u)

\* How far a transaction with an undecodable row gets in each of its tables:
\* one table after the other, those of one set before those of the other, and
\* of a table the deletes before the inserts (all of either, or none).
Tables == {"claims", "hex", "loc"}
Progress(first) ==
    LET early == IF first = "base" THEN {"claims", "hex"} ELSE {"loc"}
    IN  {p \in [Tables -> {"none", "deletes", "all"}] :
            /\ \A t, v \in Tables : p[t] = "deletes" /\ p[v] = "deletes" => t = v
            /\ (\E t \in Tables \ early : p[t] # "none") => \A t \in early : p[t] = "all"}

\* The rows of u that were applied.
Part(u, p) ==
    LET deletes(t, rows) == IF p[t] = "none" THEN {} ELSE rows
        inserts(t, rows) == IF p[t] = "all" THEN rows ELSE {}
    IN  [kind |-> "update", rows |-> u.rows, first |-> u.first,
         delClaims |-> deletes("claims", u.delClaims), insClaims |-> inserts("claims", u.insClaims),
         delHex |-> deletes("hex", u.delHex), insHex |-> inserts("hex", u.insHex),
         delLoc |-> deletes("loc", u.delLoc), insLoc |-> inserts("loc", u.insLoc)]

\* What it leaves behind.
TornUpdates(s, u) == {ApplyUpdate(s, Part(u, p)) : p \in Progress(u.first)}

AttachMutant(s, rows) == s
OnUpdateMutant(s, u) == s
ClearedMutant(s) == [s EXCEPT !.ready = FALSE]
AnyMissingLocationMutant(s) == s.located # {} /\ s.hex \ s.located # {}

\* merge_subscribe_applied, base query set: no location of a deposit in it.
MergeBase(s, rows) == [s EXCEPT !.claims = rows.claims, !.hex = rows.hex]

\* merge_subscribe_applied, hexite query set.
Attach(s, rows) == [s EXCEPT !.located = @ \cup (rows.loc \cap s.hex)]

\* on_update of expect_subscribe_applied: into the private store.
OnUpdate(s, u) == ApplyUpdate(s, u)

\* clear_store.
Cleared(s) == EmptyStore

\* ResourceSoA::any_missing_location.
AnyMissingLocation(s) == s.hex \ s.located # {}

-----------------------------------------------------------------------------
Init ==
    /\ db \in Databases
    /\ link = "none"
    /\ asked = {} /\ served = {} /\ wanted = {}
    /\ wire = <<>>
    /\ pc = "gate"
    /\ building = EmptyStore
    /\ store = EmptyStore
    /\ seen = NoRows
    /\ replaced = {}
    /\ backoff = BackoffMin
    /\ streak = 0
    /\ shutdown = FALSE
    /\ commits = MaxCommits
    /\ sessions = MaxSessions

-----------------------------------------------------------------------------
(* The mirror (external).                                                  *)

\* A transaction; rows in `again` are updated, a delete and an insert.  The
\* shard hears of the query sets it subscribed to.
Commit(new, again, first) ==
    LET hears == IF "hexite" \in served THEN wanted ELSE {}
        u == [kind |-> "update", rows |-> new, first |-> first,
              delClaims |-> db.claims \ new.claims,
              insClaims |-> new.claims \ db.claims,
              delHex |-> (db.hex \ new.hex) \cup again,
              insHex |-> (new.hex \ db.hex) \cup again,
              delLoc |-> (db.loc \ new.loc) \cap hears,
              insLoc |-> (new.loc \ db.loc) \cap hears]
    IN  /\ commits > 0
        /\ new # db \/ again # {}
        /\ Len(wire) < MaxWire
        /\ commits' = commits - 1
        /\ db' = new
        /\ wire' = IF link = "up" /\ "base" \in served THEN Append(wire, u) ELSE wire
        /\ UNCHANGED <<link, asked, served, wanted, pc, building, store, seen, patience,
                       replaced, shutdown, sessions>>

\* The mirror runs a subscribe and answers with the rows of that moment.
Serve(q) ==
    /\ link = "up"
    /\ q \in asked
    /\ Len(wire) < MaxWire
    /\ asked' = asked \ {q}
    /\ served' = served \cup {q}
    /\ wire' = Append(wire,
                 [kind |-> "applied", set |-> q,
                  rows |-> IF q = "base" THEN [db EXCEPT !.loc = {}]
                                         ELSE [NoRows EXCEPT !.loc = db.loc \cap wanted]])
    /\ UNCHANGED <<db, link, wanted, pc, building, store, seen, patience, replaced,
                   shutdown, commits, sessions>>

\* The connection breaks; frames at the end of the wire may be lost with it.
Cut ==
    /\ link = "up"
    /\ link' = "cut"
    /\ \E n \in 0 .. Len(wire) : wire' = SubSeq(wire, 1, n)
    /\ UNCHANGED <<db, asked, served, wanted, pc, building, store, seen, patience,
                   replaced, shutdown, commits, sessions>>

ShutDown ==
    /\ ~shutdown
    /\ shutdown' = TRUE
    /\ UNCHANGED <<serverVars, pc, building, store, seen, patience, replaced, sessions>>

-----------------------------------------------------------------------------
(* The shard task.                                                         *)

\* A poll finds the mirror ready; shutdown is only looked at between polls.
\* session() awaits open_connection, which times out, and then the mirror's
\* InitialConnection, for which it waits as long as it takes.
Dial ==
    /\ pc = "gate"
    /\ sessions > 0
    /\ sessions' = sessions - 1
    /\ pc' = "connecting"
    /\ UNCHANGED <<serverVars, building, store, seen, patience, replaced, shutdown>>

\* InitialConnection is there, and the base query set is sent.
Connect ==
    /\ pc = "connecting"
    /\ pc' = "base"
    /\ link' = "up"
    /\ asked' = {"base"}
    /\ served' = {}
    /\ wanted' = {}
    /\ wire' = <<>>
    /\ building' = EmptyStore
    /\ UNCHANGED <<db, store, seen, patience, replaced, shutdown, commits, sessions>>

\* session() returns: the connection and the private store go.
Leave(where) ==
    /\ pc' = where
    /\ link' = "none"
    /\ asked' = {} /\ served' = {} /\ wanted' = {}
    /\ wire' = <<>>
    /\ building' = EmptyStore

\* No connection in time, a broken one, or another first frame than
\* InitialConnection: an error.
FailConnect ==
    /\ pc = "connecting"
    /\ Leave("failed")
    /\ UNCHANGED <<db, store, seen, patience, replaced, shutdown, commits, sessions>>

\* The next frame, while a session is in one of the places.
Receive(places, kind) ==
    /\ pc \in places
    /\ wire # <<>>
    /\ Head(wire).kind = kind
    /\ UNCHANGED <<db, patience, commits, sessions, shutdown>>

\* The session takes the frame and goes on.
Taken == wire' = Tail(wire) /\ UNCHANGED <<link, served>>

\* What the shard knows of the mirror after a frame: an answer of the hexite
\* set says nothing of the base rows, and the base set nothing of locations.
Knowing(m) ==
    CASE m.kind = "update" ->
           [m.rows EXCEPT !.loc = (seen.loc \ m.delLoc) \cup m.insLoc]
      [] m.kind = "applied" /\ m.set = "base" -> m.rows
      [] OTHER -> [seen EXCEPT !.loc = m.rows.loc]

\* The store goes live under the write lock.
Publish(s) ==
    /\ store' = [s EXCEPT !.ready = TRUE]
    /\ building' = EmptyStore
    /\ pc' = "stream"

\* SubscribeApplied of the base set: refuse an empty mirror, or ask for the
\* locations of the deposits, or be done.
RecvBase ==
    LET m == Head(wire)
        s == MergeBase(building, m.rows)
    IN  /\ Receive({"base"}, "applied")
        /\ seen' = Knowing(m)
        /\ \/ /\ s.claims = {}
              /\ Leave("ended")
              /\ UNCHANGED store
           \/ /\ s.claims # {}
              /\ m.rows.hex # {}
              /\ asked' = asked \cup {"hexite"}
              /\ wanted' = m.rows.hex
              /\ building' = s
              /\ pc' = "hexite"
              /\ Taken
              /\ UNCHANGED store
           \/ /\ s.claims # {}
              /\ m.rows.hex = {}
              /\ Publish(s)
              /\ Taken
              /\ UNCHANGED <<asked, wanted>>
        /\ UNCHANGED replaced

\* SubscribeApplied of the hexite set.
RecvHexite ==
    LET m == Head(wire)
    IN  /\ Receive({"hexite"}, "applied")
        /\ Taken
        /\ seen' = Knowing(m)
        /\ Publish(Attach(building, m.rows))
        /\ UNCHANGED <<asked, wanted, replaced>>

\* A TransactionUpdate while an answer is awaited.
RecvEarlyUpdate ==
    LET m == Head(wire)
    IN  /\ Receive({"base", "hexite"}, "update")
        /\ Taken
        /\ seen' = Knowing(m)
        /\ building' = OnUpdate(building, m)
        /\ replaced' = replaced \cup m.insHex
        /\ UNCHANGED <<asked, wanted, pc, store>>

\* The stream loop; its select is biased, shutdown first.
RecvUpdate ==
    LET m == Head(wire)
    IN  /\ ~shutdown
        /\ Receive({"stream"}, "update")
        /\ Taken
        /\ seen' = Knowing(m)
        /\ store' = ApplyUpdate(store, m)
        /\ replaced' = replaced \cup m.insHex
        /\ UNCHANGED <<asked, wanted, pc, building>>

\* A row that does not decode: the error leaves the store as far as it got.
RecvTornUpdate ==
    LET m == Head(wire)
    IN  /\ ~shutdown
        /\ Receive({"stream"}, "update")
        /\ store' \in TornUpdates(store, m)
        /\ Leave("torn")
        /\ UNCHANGED <<seen, replaced>>

\* Everything else that ends a session: while loading, a broken connection, a
\* frame that does not decode or a refused query set is an error; the stream
\* loop loses its connection cleanly, and only a refused query set is an error.
EndSession ==
    /\ \/ pc \in {"base", "hexite"} /\ Leave("failed")
       \/ pc = "stream" /\ ~shutdown /\ (Leave("ended") \/ Leave("failed"))
    /\ UNCHANGED <<db, store, seen, patience, replaced, shutdown, commits, sessions>>

\* The integrity tick finds a deposit without a location.
IntegrityReconnect ==
    /\ pc = "stream"
    /\ ~shutdown
    /\ AnyMissingLocation(store)
    /\ Leave("ended")
    /\ UNCHANGED <<db, store, seen, patience, replaced, shutdown, commits, sessions>>

\* Sleeping the backoff doubles it.
Doubled(b) == IF 2 * b > BackoffMax THEN BackoffMax ELSE 2 * b

ForgivenMutant(clean, lasted, b) == IF lasted THEN BackoffMin ELSE b

\* A session that lasted STABLE_AFTER and ended cleanly starts over; an error
\* does not ask how long the session lasted.
Forgiven(clean, lasted, b) == IF clean /\ lasted THEN BackoffMin ELSE b

\* run_shard_loop after a session: clear the store.
ClearStore ==
    /\ pc \in {"ended", "failed", "torn"}
    /\ store' = Cleared(store)
    /\ \E lasted \in BOOLEAN :
        /\ backoff' = Forgiven(pc = "ended", lasted, backoff)
        /\ streak' = IF pc = "ended" /\ lasted THEN 0 ELSE streak
    /\ pc' = "backoff"
    /\ seen' = NoRows /\ replaced' = {}
    /\ UNCHANGED <<serverVars, building, shutdown, sessions>>

\* The backoff is slept; shutdown is looked at first.
WakeUp ==
    /\ pc = "backoff"
    /\ ~shutdown
    /\ pc' = "gate"
    /\ backoff' = Doubled(backoff)
    /\ streak' = streak + 1
    /\ UNCHANGED <<serverVars, building, store, seen, replaced, shutdown, sessions>>

ListeningMutant == {"gate", "stream"}

\* Shutdown is seen between polls of the gate, by the stream loop and by the
\* backoff, never while connecting or loading.
Listening == {"gate", "stream", "backoff"}

Stop ==
    /\ shutdown
    /\ pc \in Listening
    /\ Leave("stopped")
    /\ store' = Cleared(store)
    /\ seen' = NoRows /\ replaced' = {}
    /\ UNCHANGED <<db, patience, shutdown, commits, sessions>>

-----------------------------------------------------------------------------
Mirror ==
    \/ \E new \in Databases, first \in QuerySets :
          \E again \in SUBSET (db.hex \cap new.hex) : Commit(new, again, first)
    \/ \E q \in QuerySets : Serve(q)
    \/ Cut

Shard ==
    \/ Dial \/ Connect \/ FailConnect
    \/ RecvBase \/ RecvHexite \/ RecvEarlyUpdate
    \/ RecvUpdate \/ RecvTornUpdate
    \/ EndSession \/ IntegrityReconnect
    \/ ClearStore \/ WakeUp \/ Stop

Next == Mirror \/ ShutDown \/ Shard

Spec == Init /\ [][Next]_vars

\* The ticker and the shutdown are polled before the frames, and nothing is
\* awaited between a session's end and clear_store.
Fairness == WF_vars(IntegrityReconnect) /\ WF_vars(ClearStore) /\ WF_vars(Stop)
FairSpec == Spec /\ Fairness

-----------------------------------------------------------------------------
(* Properties.                                                             *)

Places ==
    {"gate", "connecting", "base", "hexite", "stream", "torn", "ended", "failed",
     "backoff", "stopped"}

TypeOK ==
    /\ db \in Databases
    /\ link \in {"none", "up", "cut"}
    /\ asked \in SUBSET QuerySets
    /\ served \in SUBSET QuerySets
    /\ wanted \in SUBSET Sites
    /\ wire \in Seq(Frames)
    /\ pc \in Places
    /\ building \in Stores
    /\ store \in Stores
    /\ seen \in Databases
    /\ backoff \in BackoffMin..BackoffMax
    /\ streak \in Nat
    /\ replaced \in SUBSET Sites
    /\ shutdown \in BOOLEAN
    /\ commits \in Nat
    /\ sessions \in Nat

\* What readers see while the cache is ready is the mirror as of one frame, no
\* transaction skipped, applied twice or out of order, though transactions keep
\* arriving during both phases of the bulk load; and no coordinates the mirror
\* no longer has.  Only a transaction that fails half way shows in between.
ReadyIsExact ==
    store.ready /\ pc # "torn" =>
        /\ store.claims = seen.claims
        /\ store.hex = seen.hex
        /\ store.located \subseteq seen.loc

\* Readers see nothing of a load before it is published, and nothing of a
\* session once the shard has left it.
NotReadyIsEmpty ==
    /\ ~store.ready => store = EmptyStore
    /\ store.ready => pc \in {"stream", "torn", "ended", "failed"}

\* A published deposit has its coordinates, whatever arrives between the two
\* answers, unless a transaction inserted its resource row anew.
LocatedUnlessReplaced ==
    store.ready /\ pc # "torn" =>
        (store.hex \cap seen.loc) \ store.located \subseteq replaced

\* A deposit without coordinates, which the /deposits join would miss, does not
\* stay: the integrity check reloads the region.
Repaired ==
    (store.ready /\ store.hex \ store.located # {})
        ~> (~store.ready \/ store.hex \ store.located = {})

\* Where session() awaits the mirror and nothing else: InitialConnection and the
\* answers to the two subscribes (expect_initial_connection and
\* expect_subscribe_applied have no timeout and do not look at the shutdown).
Deaf == {"connecting", "base", "hexite"}

\* A resolved shutdown stops the shard from wherever it is, unless the mirror
\* falls silent for good while the shard waits for its handshake or its answers:
\* a shard that gets past them goes on to stop.
ShutdownHeard == shutdown ~> (pc = "stopped" \/ [](pc \in Deaf))

\* The minimum doubled n times.
Earned[n \in Nat] == IF n = 0 THEN BackoffMin ELSE 2 * Earned[n - 1]

\* The shard sleeps the minimum doubled once for every sleep since it last lost
\* a session that lasted, up to the maximum: no path through the loop skips or
\* repeats a doubling. A lasting session that ended in an error is not forgiven.
BackoffIsEarned ==
    \/ backoff = Earned[streak]
    \/ backoff = BackoffMax /\ Earned[streak] > BackoffMax

-----------------------------------------------------------------------------
(* What the tests say, refuted by a run.                                   *)

\* A deposit that was depleted or grew back, a resource_state update, keeps the
\* location it was loaded with.
DepletionKeepsLocation ==
    [][\A x \in Sites :
          /\ store.ready /\ store'.ready /\ pc' = "stream"
          /\ x \in store.located
          /\ x \in seen'.hex /\ x \in seen'.loc
          => x \in store'.located]_vars

=============================================================================
