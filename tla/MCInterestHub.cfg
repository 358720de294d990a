SPECIFICATION Spec
CONSTANTS
    Tasks = {w1, w2, w3, w4}
    MaxConns = 2
    Keys = {k1, k2}
    Tickets = {t1, t2, t3}
SYMMETRY Symmetry
INVARIANTS
    TypeOK
    ConnectionCap
    CountersExact
    ReceiversReachable
PROPERTIES
    MailboxSpec
