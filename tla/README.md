# relay-cache, in TLA+

A model of `crates/relay-cache` of bitcraft-relay, the in-memory read cache over
the region mirrors: what its shards, its interest hub and its WebSocket push do
when they run at the same time, checked with TLC on small instances and, where it
matters most, proved with TLAPS for every instance.

## The system

| component | state | operations | talks to |
|---|---|---|---|
| region shard (`shard.rs`, `wire.rs`) | session, private store of a bulk load, backoff | wait for the mirror, connect, load two query sets, publish, apply transactions, check integrity, clear | mirror (WebSocket), store (write lock), hub (notify, member index) |
| region store (`store/*.rs`) | about 30 tables as columns with slots, free lists and indexes, `ready` | upsert, delete, lookups | behind one `RwLock` per region |
| interest hub (`interest.rs`) | watch channel per (topic, id), lease and connection counters, player -> claims index | acquire, subscribe, notify, note/forget member | every shard and every socket |
| dim-buildings stream (`stream.rs`) | subscribed keys, receivers, last sent id sets | subscribe, replace, unsubscribe, snapshot, coalesce, delta | hub (leases), store (read lock), client |
| HTTP read API (`serve.rs`) | none | lookups, rollups and joins over ready shards, one read lock at a time | store (read lock) |
| row decoding (`decode.rs`) | none | BSATN row to record | shard |
| start-up (`main.rs`, `discovery.rs`, `config.rs`) | memory pressure flag | discover regions, spawn shards, sample memory | all |
| `xp.rs`, protobuf, `tools/`, `www/` | none | tables, layouts, scripts, pages | |

What is hard here:

- *Interleaving.* Shards and sockets share the hub without a lock around more
  than one operation: a connection slot, a lease, an entry of the map and an
  emptied member set are all handled in two steps, with others in between.
- *State read before a lock and used after it.* `apply_transaction` asks
  `has_subscribers` before it takes the write lock; the member index is brought
  up to date from a store that was cleared earlier.
- *A request over many shards.* A handler locks one shard after the other while
  regions end, reload, or hand a player over.
- *Joins and their wakes.* An answer joins up to six tables, and the rows of each
  must wake it through keys that are worked out row by row.
- *Order.* Rows touch the hub after the lock is released; building and location
  rows come in any order; an update is a delete and an insert; transactions
  arrive in the middle of a two-phase load.
- *Failure.* A session may end anywhere. A row that does not decode leaves half a
  transaction behind.
- *Liveness.* A burst of wake-ups is coalesced, and the last one must not be lost.

Per component, being correct means: the hub keeps its cap and its counters and
never strands a receiver; the index agrees with the stores; the push path
loses no change and shows no transaction under way, nor half of one but where it
failed; a ready region is exactly what its mirror said; an answer holds what was there, and all of what stayed; a
row that changes an answer wakes its subscribers. `PROJECT.json` lists each hazard at its line.

## Modules

| module | models | what its state stands for |
|---|---|---|
| `InterestHub` | `interest.rs` at the grain of one atomic or DashMap operation | `task`: WebSocket upgrades around `try_acquire_connection`; `st`, `key`, `chan`: a `Subscription` and its receivers; `entry`: the hub's map, `made` its channels |
| `Mailboxes` | what the hub promises: admission in one step, and a notify that marks every listener of its key | `open`: sockets let in; `listening`, `key`, `marked`: the subscriptions, what each listens to, and whether it was notified since it looked |
| `HousingRows` | the tables behind a housing interior, and what a row touches | a store is a record of location, building and description maps |
| `LivePush` | shards applying transactions and sockets pushing, end to end | `phase`: where `apply_transaction` is; `touches`: the `TouchBatch`; `changed`: a receiver's unseen bit; `lastSent`, `view`: baseline and client |
| `DimFeed` | the abstract promise of the feed: a view goes from one committed id set to a later one, unless its key is torn | `truth`, `torn`, `subs`, `view` |
| `ShardSession` | one shard against its mirror | `building`, `store`: private and public store; `wire`: frames; `seen`: the mirror's rows as of the last frame received |
| `SlotStore` | the fourteen columnar stores of `store/*.rs`, each given by the indexes it keeps | `entity`, `column`: the columns; `free`, `pk`, `index`: `free_slots`, `pk` and the `by_...` maps, a list of slots as how often it holds each; `sent`: the row last sent per key, a history variable |
| `RowMap` | what a table promises: a map from primary key to the row last written | `sent`: what was written; `rows`: what readers find |
| `MemberIndex` | the player -> claims index under several shards | `row`: membership rows; `calls`: the hub calls a shard still has to make |
| `Answers` | the tables of one region and the joins of `serve.rs` over them | a table is a function from primary keys to rows; a join is an operator |
| `Wakes` | `apply_rows` on those tables, row by row: what each row touches and a flush notifies | `row`: the last row applied; `touched`: the keys the `TouchBatch` records for it; `index`: the hub's player -> claims map |
| `FanOut` | one HTTP request walking the shards of a changing fleet | `req`: the handler's stage, next shard and what it has gathered; `ready`, `rows`: the stores; `always`, `ever`, `up`, `was`: history |
| `Calendar` | `civil_from_unix_secs` against a clock that only knows the lengths of the months | `day`, `tod`: the seconds, split; `date`, `time`: the clock |

`LivePush` EXTENDS `HousingRows` and instantiates `DimFeed` with a refinement
mapping (`Feed`): the abstract truth of a key is its id set in `before`, the store
as last loaded, cleared or left by a transaction applied to its end. The code has
no rollback: a row that does not decode drops the lock on half a transaction, which
can be scanned until `clear_store` (`shard.rs:839-846`). `before` does not move then;
the keys of the region are `torn`, and of a torn key the feed promises nothing. `InterestHub`
is the fine grain of what `LivePush` does in one step: `bind_keys` has no await,
and `InterestHub` implements `Mailboxes` (`MailboxSpec`: `open` are the tasks with a
guard, `listening` the tickets with a receiver, `marked` those whose receiver has an
unseen generation), which is the hub `LivePush` assumes when it reads a receiver as
a bit; `CountersExact` says when `has_subscribers` agrees.

`SlotStore` implements `RowMap` (`RowsAreKept`), which is what lets `HousingRows`,
`ShardSession` and `MemberIndex` treat tables as maps. The stores write the same
scheme out by hand; a record per store says which indexes it keeps, which rows
each takes and whether a delete blanks the columns. The order inside a list of
slots is dropped: no reader depends on it.

`Answers` holds no behaviour: `Wakes` moves its tables, and asks of every row what
a flush right after it would notify. `TouchBatch` flushes once per transaction;
`TransactionsWake` (below) is why the question per row is the right one. `FanOut` keeps of a region
only the rows that answer the request under way, named by what they are for, so
one request of each kind stands for every handler of that kind; requests only
read, so one at a time stands for any number. `Wakes` asks what one region wakes,
`LivePush` what happens to a wake-up from there on, `FanOut` what a reader who was
woken then sees.

Abstractions: rows are what the properties tell apart (an id's dimension, its
description, whether a deposit has coordinates). Timers are nondeterministic: a
tick, a poll or a sleep that is due may be handled at any time. Heartbeats,
pongs, counters for metrics, logs and frame texts are left out. A transaction's
rows agree with the store, and a player is a member of a claim at most once,
which the upstream tables guarantee. `building_nickname` rows touch like building
rows do and change no id set: spurious wake-ups, left out of `LivePush`; `Wakes` has them, because they change
labels. `Answers` leaves out the summary of the player or the claim at the head of
an answer, recipes and the other catalogs; a label is the description it comes
from, a name is whether there is one, and the items of a bag are its Hex Coins.
`Wakes` relies on what upstream guarantees: a member row per player and claim, a
network per interior, a house per network, and a public row that repeats the owner
and building of its craft. `FanOut` counts how often an id is in a list; readers
sort lists.

Operators named `...Mutant` are plausible bugs. They are used by nothing: each is
paired in `PROJECT.json` with the definition it replaces and the property that
must then fail.

## Runs

| run | bounds | what it shows |
|---|---|---|
| `hub` | 4 upgrades, 2 slots, 3 leases, 2 keys; symmetric | the cap is never exceeded (two racing refusals need 4 tasks at 2 slots); counters exact; a lease dropped while another attaches strands nobody; all of it implements `Mailboxes`; no deadlock |
| `live_push` | 1 region, 2 interiors, 1 building, 1 socket; 2 transactions of 2 rows, 1 load, 2 client frames | safety, the refinement of `DimFeed`, and `EventuallyFresh` |
| `session` | 1 claim, 1 deposit; 3 transactions, 3 connections, 2 frames on the wire, backoff from 1 to 3 | readers see the mirror exactly or nothing, a deposit without coordinates is repaired, the backoff is earned, a shutdown is heard unless the mirror falls silent |
| `members` | 2 regions, 1 claim each, 2 rows | the index is wrong only in the two ways named |
| `stores` | 3 rows, keys 0 and one other, 3 slots, every store; symmetric | slots and lookups stay exact; the table is a map of rows |
| `wakes` | 2 players, one each of the other keys, a bag that is a deployable; regions of up to 5 rows; symmetric | every row that changes an answer wakes it, with the exceptions each property names; a row that takes a player off the index wakes the roster |
| `fanout` | 2 shards, 1 bag, 3 changes of the fleet during a request | every answer was there; what stayed is in it; not found means it |
| `calendar` | every day from 1970 to 2400 | dates and times are those of the calendar |

Row changes of different ids and deposits never meet in the code but through the
key they touch, so one id with two dimensions shows every order of a move; two
rows make a half transaction, two transactions a coalesced pair. In `session`
three transactions cover before, between and after the two answers in one
execution, and three connections two failures in a row with a backoff that reaches
its maximum. Five rows are what the largest join needs: a bag in a house takes the
housing, network, location, building and inventory rows. The second player lets a
row hand something over. The view of `wakes` drops what the last row was and
woke: it decides nothing that follows, and TLC checks the properties, which are
about steps, on every step. In `fanout` a row can move behind the walk or ahead of
it with two shards and two changes, and the third ends or loads a region meanwhile;
a 400-year era is where the corrections of `calendar` repeat. In `stores` every operation treats the keys of an index
one by one, so the key 0 and one other show every change of key. What the bounds
cut off the proofs cover, in every one of these runs, but for liveness.
Deadlock is checked in `hub`, `stores` and `wakes`; the other models run out of
their budgets or may really stop (a socket closes, a shard shuts down, a request is
answered).

The other runs each find one counterexample, reported as a finding:

| run | property refuted | behaviour |
|---|---|---|
| `hub_entry` | `EntryRemovedWithLastReceiver` | `Subscription::drop` tests `receiver_count` while its own receiver lives: entries are never removed |
| `members_reload` | `ReloadSwapsEdges` | after `clear_store` there is nothing to swap out: edges of former members stay |
| `push_reload` | `FreshAfterReload` | a load notifies nobody |
| `session_depletion` | `DepletionKeepsLocation` | delete and insert of a deposit's row loses its coordinates |

Other losses are named by the properties that except them. `StaleOnlyIfLost`
excepts the four `Causes`: `reset`, which `push_reload` shows; `unwatched`, a key
whose first subscriber comes between `has_subscribers` and the write lock;
`rebind`, an unsubscribe that marks the pending changes of the keys it keeps as
seen; and `catalog`, a `building_desc` row, which touches nothing. Nothing else
makes a client miss a change. `MissingOnlyIfTorn` excepts an emptied member set
that is removed after its lock was released, with whatever another region put in.

The wakes have exceptions too, and each property of `Wakes` names its own: names
(`player_username`, `claim_state`) touch nothing; a network row, and the labels of
an entrance that stands outside the interior, do not reach the claim inventory or
the house that shows them; a building row decides whether a bag in it is personal
and wakes no player; a deployable row decides whose the bags in it are and wakes
its owner's inventory, but no roster and, where the bag is a deployable of another
player, not that player (`NestedRow`). Today only the dim-buildings socket
subscribes to anything, and its topic has none of these exceptions; `interest.rs:14`
says the other touches are wiring kept for topics to come, so these are gaps for
whoever adds one, and no finding.

Two smaller divergences have no run. `DIM-BUILDINGS-WS.md:79` says a subscribe
frame that fails validation closes the socket; a later one only gets an error
frame (`stream.rs:222`). `shard.rs:548` says an empty mirror never becomes ready,
but the test runs on the first answer, and an update before the second may delete
the last claim.

## Fairness

- `LivePush`: once it holds or wants the lock a transaction runs to the end of
  its flush without an await (`TakeLock`, `ReleaseLock \/ FailApply`, `Notify`,
  `EndFlush`), and a socket's task is polled (`PushStep`). Nothing obliges the
  mirror or a client to act.
- `ShardSession`: the select of the stream loop is biased and polls shutdown and
  the integrity ticker before the frames (`Stop`, `IntegrityReconnect`), and
  nothing is awaited between a session's end and `clear_store` (`ClearStore`).
  `Repaired` needs the second and third, `ShutdownHeard` all: a shard that is told
  to stop while it streams does, and one whose session just ended clears its store
  and finds the shutdown in the backoff. While it waits for `InitialConnection`
  (`Dial` to `Connect`) and in a bulk load it awaits the mirror and nothing else; the
  property excepts a shard that stays there for good (`Deaf`), and still demands the
  stop of one that gets past. Opening the connection does time out, but the handshake
  behind it does not, so the one place stands for both. The mirror, the connection and
  the backoff get no fairness.

## Proofs

For every value of the constants that meets the assumptions:

- `InterestHubProofs`: type correctness, the cap, both counters,
  `ReceiversReachable`, and `Spec => MailboxSpec`. The cap is not inductive: what is, is the cap together
  with `ConnectionsCounted`, that the counter equals the number of tasks between
  add and give-back; a task admitted at less than `MaxConns` then saw at most
  `MaxConns - 1` others. Reachability is inductive with the types and the exact
  lease counter: a channel is never replaced while it has a receiver. The
  refinement rests on both: `fetch_add` is the admission because the counter it
  reads is at least the number of guards, and the receivers of the channel `notify`
  finds are all listeners of the key because every listener is reachable.
- `LivePushProofs`: type correctness, `ViewIsBaseline`, `SentBeforeDelta` and
  `StaleOnlyIfLost`, from the invariant `TypeOK /\ ViewIsBaseline /\ ConnShape /\
  StaleOnlyIfLost`. `ConnShape` says where a socket's task has keys and where it
  still has some to send; without it a pending push could be for a key already
  dropped. For a row step the argument is local: a row that changes the id set of
  a key touches the key's dimension (`HousingRows`), so its batch holds it or a
  cause is recorded.
  Then `Spec => FeedSpec`, with two more invariants: the store is the one last
  committed unless a transaction is under way or failed half way (`Committed`), and
  only subscribed keys have a baseline (`NoLeftovers`). `FailApply` is the one step
  that tears (`TearsByFailing`).
- `SlotStoreProofs`: `SlotsExact`, `LookupsExact` and `UniqueSound` are inductive
  together, for any store layout: `LookupsExact` needs `SlotsExact` to know that a
  slot handed out names no key, and one lemma (`IndexStep`) serves all writers: a
  step that reindexes slot s from the keys it named to the keys it names. Then
  `Spec => RowsAreKept`, because no two rows share a slot: the rows a table reads
  back are the rows sent (`Kept`), in every state.
- `ShardSessionProofs`: type correctness, `ReadyIsExact`, `NotReadyIsEmpty`,
  `LocatedUnlessReplaced` and `BackoffIsEarned`, for any claims, deposits,
  transactions and length of the wire. The invariant has to say what may be on the
  wire in each phase of a session (`Shape`) and that the frames on it lead, row by
  row of the base query set, from what the shard has seen to what the mirror holds
  (`Chained`); `Loading` is what the private store lacks in each phase, `Live` what
  the public one has. Each frame received moves `seen` one link along the chain. The
  backoff is inductive together with the types, once the powers of two are known:
  `Earned` is a recursive function, and the library's theorems about those take
  operators. So it is characterised instead: a sequence of doublings exists up to
  every n and is unique (`DoublesExists`, `DoublesUnique`), by induction over the
  set of the n for which it holds, which `AllNats` draws from the well-foundedness
  of `<`.
- `MemberIndexProofs`: type correctness, `MissingOnlyIfTorn` and
  `ExtraOnlyIfOrphaned`, for any number of regions, players and rows. Added: the
  rows of a claim's member are distinct (`Distinct`), and the calls a region still
  owes are about its own edges, with a forgotten live row noted after (`CallsFit`).
- `FanOutProofs`: type correctness and all five properties, for any fleet, any
  bags and any number of changes. Added: where the walk is (`Framed`), what the
  shards behind it have given the answer (`Walked`), and that what they have not
  given was not visible in them all along (`Unlisted`). A change of the fleet can
  only shrink `always` and grow `ever`, so every conjunct survives it.
- `WakesProofs`: type correctness, `CandidatesComplete` and the five wakes, for any
  tables, any number of rows and any players and claims. Two facts about the mirror
  have to be kept: a public row repeats its craft (`PublicRepeats`), and the index
  lists the claims of every member (`MembersIndexed`), or a public row or a member's
  bag would wake the wrong keys. Each of the 22 actions is one of twelve steps, a
  table changing one row with its touches recorded as the row was and as it is
  (`Steps`). An answer that reads none of the table is a frame; else a row that
  leaves the key out of its touches is shown to be in no part of the answer, before
  or after. `TransactionsWake` then is about whole transactions (`Batches` adds two
  history variables: the keys recorded since the last commit, and those a flush
  after every row would have notified): the one flush at the end misses none. The
  danger is a row that touches a member and a later one that takes the member off
  the index before the flush reads it; `FlushKept` shows that the later row touches
  the roster itself, and that no other row changes what is still to be woken.
- `CalendarProofs`: `CivilTomorrow`, that the date of day d + 1 is the day after the
  date of day d, for every d from 0000-03-01 on; and `CivilIsCalendar` for any number
  of days, from the invariant `Clock`: the date is the formula's, and the clock's hours,
  minutes and seconds add up to the second of the day. The formulas divide by a year of 365 days after
  corrections for leap days; the proof shows that the year of the era they find is
  the one whose first day is the last not after d (`DayOfYear` within the year's
  length), then splits the next day into one in the same month, the next month, the
  next year and the next era.

Every safety property that a passing run checks is a theorem. Only model-checked are
the liveness properties (`EventuallyFresh`, `Repaired`, `ShutdownHeard`): fairness
needs `ENABLED`, which the provers do not have. Induction goes as far as sets of
naturals go; the library's theorems that take an operator cannot be cited, so
nothing is proved about recursion over sequences or tables, and nothing needed it. No
`RECURSIVE` operator is used in a module with a theorem.

## Not modelled

Decoding, layouts, scripts and pages (pure conversion or I/O); the level of a
skill (a search in a constant table); discovery and flags (run once); the catalogs
that are a single `HashMap`; the parsing of queries and the filters of the storage
log (per row, no state). Of `/deposits` only that a deposit has the coordinates it is
found by is modelled (`ShardSession`), not the join of the claim with its
coordinates, its resource row and its respawn timers.

`civil_from_unix_secs` rounds a negative day number towards the era before twice,
once by subtracting and once by `div_euclid`, so its dates before 0000-03-01 are
wrong; no timestamp of the game is there, and `calendar` starts at the epoch.

`PlayerHousingSoA::by_network` and `DimensionNetworkStore::by_entrance_dim` keep
one row per key: when two rows share it and the later one goes, the earlier cannot
be found by that key. `UniqueSound` says that they never find a wrong one; upstream
gives every house a network of its own.

## Plan

1. Done: all modules above, with their proofs.
2. Done: proofs of every safety property the passing runs check, of the three
   refinements (`DimFeed`, `RowMap`, `Mailboxes`), and that transactions wake what
   their rows do.
3. Out of reach: proofs of liveness.
