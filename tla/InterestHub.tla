---------------------------- MODULE InterestHub ----------------------------
(***************************************************************************)
(* The publish/subscribe hub between the region shards and the WebSocket   *)
(* tasks (interest.rs), at the grain of its atomic operations: one         *)
(* DashMap call or one atomic counter update per action.                   *)
(*                                                                         *)
(* A ticket is one Subscription together with the receiver bind_keys       *)
(* clones from it.  Its life is                                            *)
(*   none -> attached -> leased -> cloned -> unleased -> checked ->        *)
(*   cloneOnly -> none                                                     *)
(* attached .. checked hold the Subscription's own receiver, cloned ..     *)
(* cloneOnly hold the clone.                                               *)
(***************************************************************************)
EXTENDS Integers, FiniteSets

CONSTANTS
    Tasks,      \* WebSocket upgrade attempts / connection tasks
    MaxConns,   \* the cap passed to try_acquire_connection (MAX_CONNECTIONS)
    Keys,       \* (Topic, entity_id) keys
    Tickets     \* Subscriptions alive at the same time

ASSUME HubAssumption ==
    /\ IsFiniteSet(Tasks)
    /\ IsFiniteSet(Tickets)
    /\ MaxConns \in Nat

VARIABLES
    task,       \* task[w]: "idle", "refusing" (cap exceeded, not undone) or "open"
    active,     \* active_connections
    st,         \* st[t]: where ticket t is in its life
    key,        \* key[t]: the key ticket t watches
    entry,      \* entry[k]: number of the watch sender in the map, 0 if no entry
    made,       \* made[k]: watch channels ever created for k
    chan,       \* chan[t]: number of the watch channel t's receivers belong to
    changed,    \* changed[t]: t's clone has an unseen generation
    leases      \* active_leases

connVars == <<task, active>>
ticketVars == <<st, key, entry, made, chan, changed, leases>>
vars == <<task, active, st, key, entry, made, chan, changed, leases>>

TaskStates == {"idle", "refusing", "open"}
TicketStates ==
    {"none", "attached", "leased", "cloned", "unleased", "checked", "cloneOnly"}

-----------------------------------------------------------------------------
(* What other threads read of the hub.                                     *)

\* Receivers of channel n of key k that are alive.
Receivers(k, n) == {t \in Tickets : st[t] # "none" /\ key[t] = k /\ chan[t] = n}

\* is_watched: the key has an entry and its channel a receiver.
IsWatched(k) == entry[k] # 0 /\ Receivers(k, entry[k]) # {}

-----------------------------------------------------------------------------
Init ==
    /\ task = [w \in Tasks |-> "idle"]
    /\ active = 0
    /\ st = [t \in Tickets |-> "none"]
    /\ key \in [Tickets -> Keys]
    /\ entry = [k \in Keys |-> 0]
    /\ made = [k \in Keys |-> 0]
    /\ chan = [t \in Tickets |-> 0]
    /\ changed = [t \in Tickets |-> FALSE]
    /\ leases = 0

\* Operators named ...Mutant are plausible bugs; PROJECT.json pairs each with
\* the definition below it and the property that must catch it.
CapReachedMutant(prev) == prev > MaxConns
RefundMutant == active
LeaseTakenMutant == leases
DeafMutant(k) == TRUE

CapReached(prev) == prev >= MaxConns
Refund == active - 1
LeaseTaken == leases + 1
Deaf(k) == ~IsWatched(k)

\* try_acquire_connection: fetch_add, then compare the previous value.
FetchAdd(w) ==
    /\ task[w] = "idle"
    /\ active' = active + 1
    /\ task' = [task EXCEPT ![w] = IF CapReached(active) THEN "refusing" ELSE "open"]
    /\ UNCHANGED ticketVars

\* The refused attempt takes its increment back and answers 503.
FetchSub(w) ==
    /\ task[w] = "refusing"
    /\ active' = Refund
    /\ task' = [task EXCEPT ![w] = "idle"]
    /\ UNCHANGED ticketVars

\* ConnectionGuard::drop when the socket task ends.
DropGuard(w) ==
    /\ task[w] = "open"
    /\ active' = active - 1
    /\ task' = [task EXCEPT ![w] = "idle"]
    /\ UNCHANGED ticketVars

-----------------------------------------------------------------------------
\* subscribe, first half: find or create the entry and take a receiver, both
\* under the map's shard lock.  A fresh receiver has seen the generation.
Attach(t, k) ==
    LET n == IF entry[k] = 0 THEN made[k] + 1 ELSE entry[k]
    IN  /\ st[t] = "none"
        /\ st' = [st EXCEPT ![t] = "attached"]
        /\ key' = [key EXCEPT ![t] = k]
        /\ entry' = [entry EXCEPT ![k] = n]
        /\ made' = [made EXCEPT ![k] = IF entry[k] = 0 THEN n ELSE made[k]]
        /\ chan' = [chan EXCEPT ![t] = n]
        /\ changed' = [changed EXCEPT ![t] = FALSE]
        /\ UNCHANGED <<task, active, leases>>

\* subscribe, second half: count the lease.
Lease(t) ==
    /\ st[t] = "attached"
    /\ st' = [st EXCEPT ![t] = "leased"]
    /\ leases' = LeaseTaken
    /\ UNCHANGED <<task, active, key, entry, made, chan, changed>>

\* clone_receiver: the clone inherits the version the original has seen.
CloneReceiver(t) ==
    /\ st[t] = "leased"
    /\ st' = [st EXCEPT ![t] = "cloned"]
    /\ UNCHANGED <<task, active, key, entry, made, chan, changed, leases>>

\* Subscription::drop calls unsubscribe, which gives the lease back first.
Unlease(t) ==
    /\ st[t] = "cloned"
    /\ st' = [st EXCEPT ![t] = "unleased"]
    /\ leases' = leases - 1
    /\ UNCHANGED <<task, active, key, entry, made, chan, changed>>

\* unsubscribe, second half: remove_if(receiver_count() == 0).  The dropping
\* Subscription still owns its receiver, and the clone is alive as well.
RemoveIfDeaf(t) ==
    LET k == key[t]
    IN  /\ st[t] = "unleased"
        /\ st' = [st EXCEPT ![t] = "checked"]
        /\ entry' = [entry EXCEPT ![k] = IF Deaf(k) THEN 0 ELSE entry[k]]
        /\ UNCHANGED <<task, active, key, made, chan, changed, leases>>

\* Rust drops the field rx after the body of Drop::drop.
DropReceiver(t) ==
    /\ st[t] = "checked"
    /\ st' = [st EXCEPT ![t] = "cloneOnly"]
    /\ UNCHANGED <<task, active, key, entry, made, chan, changed, leases>>

\* KeyWatches drops _leases before rxs: the clone goes last.
DropClone(t) ==
    /\ st[t] = "cloneOnly"
    /\ st' = [st EXCEPT ![t] = "none"]
    /\ UNCHANGED <<task, active, key, entry, made, chan, changed, leases>>

-----------------------------------------------------------------------------
\* notify: bump the generation of the channel in the map, unless no one listens.
Notify(k) ==
    /\ IsWatched(k)
    /\ changed' = [t \in Tickets |-> changed[t] \/ t \in Receivers(k, entry[k])]
    /\ UNCHANGED <<task, active, st, key, entry, made, chan, leases>>

\* changed().await / borrow_and_update on the clone.
SeeChange(t) ==
    /\ st[t] = "cloned"
    /\ changed[t]
    /\ changed' = [changed EXCEPT ![t] = FALSE]
    /\ UNCHANGED <<task, active, st, key, entry, made, chan, leases>>

ConnectionStep == \E w \in Tasks : FetchAdd(w) \/ FetchSub(w) \/ DropGuard(w)

TicketStep ==
    \E t \in Tickets :
        \/ \E k \in Keys : Attach(t, k)
        \/ Lease(t)
        \/ CloneReceiver(t)
        \/ Unlease(t)
        \/ RemoveIfDeaf(t)
        \/ DropReceiver(t)
        \/ DropClone(t)
        \/ SeeChange(t)

Next == ConnectionStep \/ TicketStep \/ \E k \in Keys : Notify(k)

Spec == Init /\ [][Next]_vars

-----------------------------------------------------------------------------
(* Properties.                                                             *)

TypeOK ==
    /\ task \in [Tasks -> TaskStates]
    /\ active \in Nat
    /\ st \in [Tickets -> TicketStates]
    /\ key \in [Tickets -> Keys]
    /\ entry \in [Keys -> Nat]
    /\ made \in [Keys -> Nat]
    /\ chan \in [Tickets -> Nat]
    /\ changed \in [Tickets -> BOOLEAN]
    /\ leases \in Nat

Open == {w \in Tasks : task[w] = "open"}
Counted == {w \in Tasks : task[w] # "idle"}
Leased == {t \in Tickets : st[t] \in {"leased", "cloned"}}

\* However the fetch_add, the comparison and the fetch_sub of concurrent
\* upgrade attempts interleave, at most MaxConns sockets hold a guard
\* (try_acquire_connection, ConnectionGuard::drop).
ConnectionCap == Cardinality(Open) <= MaxConns

\* active_connections counts exactly the sockets with a guard and the refused
\* attempts that have not taken their increment back, so no interleaving makes
\* the counter drift and later refuse or admit sockets wrongly.
ConnectionsCounted == active = Cardinality(Counted)

\* active_leases counts exactly the Subscriptions between subscribe's increment
\* and unsubscribe's decrement: it cannot wrap below zero, so has_subscribers
\* can neither stay true for ever nor be false while a bound key is held.
LeasesCounted == leases = Cardinality(Leased)

\* Both counters of the hub are exact, whatever interleaves.
CountersExact == ConnectionsCounted /\ LeasesCounted

\* Every live receiver belongs to the channel that is in the map: no
\* interleaving of subscribe's entry() with unsubscribe's remove_if leaves a
\* socket listening to a channel that notify and is_watched no longer reach.
ReceiversReachable ==
    \A t \in Tickets : st[t] # "none" => entry[key[t]] = chan[t] /\ chan[t] # 0

\* A map entry is gone once the last receiver of its key is: what subscribe's
\* doc comment says.
EntryRemovedWithLastReceiver ==
    \A k \in Keys : entry[k] # 0 => \E t \in Tickets : st[t] # "none" /\ key[t] = k

Listening == {t \in Tickets : st[t] # "none"}

\* The hub implements Mailboxes: the shards and sockets of any interleaving of
\* subscribe, unsubscribe, notify and the connection counter see an admission
\* that is one step, and a notify that reaches every listener of its key at
\* once, though entries and channels come and go under them.
Promise == INSTANCE Mailboxes WITH
    open <- Open,
    listening <- Listening,
    marked <- {t \in Listening : changed[t]}
MailboxSpec == Promise!Spec

=============================================================================
