------------------------------ MODULE DimFeed ------------------------------
(***************************************************************************)
(* What the dim-buildings stream promises, without shards, hubs or frames: *)
(* per subscribed key a client's view only ever moves to the id set that   *)
(* is committed in the cache at that moment, and it is forgotten when the  *)
(* key is unsubscribed or the whole set replaced.  The one exception is a  *)
(* torn key: a transaction on its rows failed half way and was not rolled  *)
(* back, so until the next commit the feed promises nothing about it.      *)
(***************************************************************************)
CONSTANTS Conns, Keys, Ids, NotSent

VARIABLES
    truth,  \* truth[k]: the committed id set of key k
    torn,   \* the keys half a transaction shows through
    subs,   \* subs[c]: the keys c is subscribed to
    view    \* view[c][k]: what client c believes, NotSent before a snapshot

vars == <<truth, torn, subs, view>>

Nothing == [k \in Keys |-> NotSent]

Init ==
    /\ truth \in [Keys -> SUBSET Ids]
    /\ torn = {}
    /\ subs = [c \in Conns |-> {}]
    /\ view = [c \in Conns |-> Nothing]

\* The cache commits: a transaction, a cleared store or a bulk load.  Keys are
\* mended, never torn.
Commit ==
    /\ truth' \in [Keys -> SUBSET Ids]
    /\ torn' \in SUBSET torn
    /\ UNCHANGED <<subs, view>>

\* A transaction fails half way: nothing is committed by it.
Tear ==
    /\ torn' \in SUBSET Keys
    /\ torn \subseteq torn'
    /\ UNCHANGED <<truth, subs, view>>

\* A subscribe frame replaces the set; leaving is subscribing to nothing.
Replace(c) ==
    /\ subs' \in [Conns -> SUBSET Keys]
    /\ subs' = [subs EXCEPT ![c] = subs'[c]]
    /\ view' = [view EXCEPT ![c] = Nothing]
    /\ UNCHANGED <<truth, torn>>

\* An unsubscribe frame forgets its keys and leaves the other views alone.
Narrow(c) ==
    \E K \in SUBSET subs[c] :
        /\ subs' = [subs EXCEPT ![c] = K]
        /\ view' = [view EXCEPT ![c] =
                        [k \in Keys |-> IF k \in K THEN view[c][k] ELSE NotSent]]
        /\ UNCHANGED <<truth, torn>>

\* A snapshot or a delta brings one view up to date, or shows a torn key as the
\* failed transaction left it.
Deliver(c) ==
    \E k \in subs[c], ids \in SUBSET Ids :
        /\ k \notin torn => ids = truth[k]
        /\ view' = [view EXCEPT ![c][k] = ids]
        /\ UNCHANGED <<truth, torn, subs>>

Next == Commit \/ Tear \/ \E c \in Conns : Replace(c) \/ Narrow(c) \/ Deliver(c)

Spec == Init /\ [][Next]_vars

=============================================================================
