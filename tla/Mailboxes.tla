----------------------------- MODULE Mailboxes -----------------------------
(***************************************************************************)
(* What the interest hub promises the sockets and the shards, without its  *)
(* map, channels and counters: a socket is let in while fewer than         *)
(* MaxConns are, and a notify of a key marks the mailbox of everyone who   *)
(* listens to the key at that moment, and of no one else. A mark stays     *)
(* until its owner looks or leaves.                                        *)
(***************************************************************************)
EXTENDS Naturals, FiniteSets

CONSTANTS Tasks, MaxConns, Keys, Tickets

VARIABLES
    open,       \* the sockets that were let in
    listening,  \* the tickets in use
    key,        \* key[t]: the key ticket t listens to, or listened to last
    marked      \* the tickets with a mark

vars == <<open, listening, key, marked>>

Init ==
    /\ open = {}
    /\ listening = {}
    /\ key \in [Tickets -> Keys]
    /\ marked = {}

Enter(w) ==
    /\ w \notin open
    /\ Cardinality(open) < MaxConns
    /\ open' = open \cup {w}
    /\ UNCHANGED <<listening, key, marked>>

Exit(w) ==
    /\ w \in open
    /\ open' = open \ {w}
    /\ UNCHANGED <<listening, key, marked>>

\* A new listener has no mark: what it reads next is newer than any notify.
Listen(t, k) ==
    /\ t \notin listening
    /\ listening' = listening \cup {t}
    /\ key' = [key EXCEPT ![t] = k]
    /\ UNCHANGED <<open, marked>>

Leave(t) ==
    /\ t \in listening
    /\ listening' = listening \ {t}
    /\ marked' = marked \ {t}
    /\ UNCHANGED <<open, key>>

Look(t) ==
    /\ t \in marked
    /\ marked' = marked \ {t}
    /\ UNCHANGED <<open, listening, key>>

Notify(k) ==
    /\ marked' = marked \cup {t \in listening : key[t] = k}
    /\ UNCHANGED <<open, listening, key>>

Next ==
    \/ \E w \in Tasks : Enter(w) \/ Exit(w)
    \/ \E t \in Tickets : Leave(t) \/ Look(t) \/ \E k \in Keys : Listen(t, k)
    \/ \E k \in Keys : Notify(k)

Spec == Init /\ [][Next]_vars

=============================================================================
