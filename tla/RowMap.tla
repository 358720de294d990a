------------------------------- MODULE RowMap -------------------------------
(***************************************************************************)
(* What a table of the region store promises: a reader finds, under each   *)
(* primary key, the row the mirror sent for it last, and no other rows.    *)
(***************************************************************************)
CONSTANTS
    Ids,  \* primary keys
    Rows  \* row contents

VARIABLES
    sent,  \* primary key -> row, as the mirror sent them
    rows   \* primary key -> row, as readers find them

vars == <<sent, rows>>

Empty == [i \in {} |-> {}]

Init == sent = Empty /\ rows = Empty

\* A reader sees what was sent as soon as the call returns.
Seen == rows' = sent'

Upsert(i, r) == sent' = [j \in DOMAIN sent \cup {i} |-> IF j = i THEN r ELSE sent[j]] /\ Seen
Delete(i) == sent' = [j \in DOMAIN sent \ {i} |-> sent[j]] /\ Seen
Clear == sent' = Empty /\ Seen

Next ==
    \/ \E i \in Ids, r \in Rows : Upsert(i, r)
    \/ \E i \in Ids : Delete(i)
    \/ Clear

Spec == Init /\ [][Next]_vars

=============================================================================
