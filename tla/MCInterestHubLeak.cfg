SPECIFICATION Spec
CONSTANTS
    Tasks = {w1}
    MaxConns = 1
    Keys = {k1}
    Tickets = {t1, t2}
INVARIANTS
    EntryRemovedWithLastReceiver
