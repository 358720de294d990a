------------------------- MODULE InterestHubProofs -------------------------
(***************************************************************************)
(* The hub's invariants, for any number of tasks, keys and tickets.        *)
(***************************************************************************)
EXTENDS InterestHub, FiniteSetTheorems, TLAPS

\* The counters are exact, so a task admitted at the comparison
\* `prev >= max` saw at most MaxConns - 1 others: the cap is inductive only
\* together with ConnectionsCounted.
ConnInv ==
    /\ task \in [Tasks -> TaskStates]
    /\ active \in Nat
    /\ ConnectionsCounted
    /\ ConnectionCap

-----------------------------------------------------------------------------
\* Moving one element in or out of a finite set changes its size by one.
LEMMA AddOne ==
    ASSUME NEW S, IsFiniteSet(S), NEW x, x \notin S
    PROVE  /\ IsFiniteSet(S \cup {x})
           /\ Cardinality(S \cup {x}) = Cardinality(S) + 1
  BY FS_AddElement

LEMMA RemoveOne ==
    ASSUME NEW S, IsFiniteSet(S), NEW x \in S
    PROVE  /\ IsFiniteSet(S \ {x})
           /\ Cardinality(S \ {x}) = Cardinality(S) - 1
  BY FS_RemoveElement

LEMMA TaskSetsFinite ==
    /\ IsFiniteSet(Open) /\ IsFiniteSet(Counted)
    /\ Cardinality(Open) \in Nat /\ Cardinality(Counted) \in Nat
    /\ Cardinality(Open) <= Cardinality(Counted)
<1>1. Open \subseteq Counted /\ Counted \subseteq Tasks
  BY DEF Open, Counted
<1>2. IsFiniteSet(Counted)
  BY <1>1, FS_Subset, HubAssumption DEF HubAssumption
<1>3. QED
  BY <1>1, <1>2, FS_Subset, FS_CardinalityType

LEMMA ConnInit == Init => ConnInv
<1> SUFFICES ASSUME Init PROVE ConnInv
  OBVIOUS
<1>1. Open = {} /\ Counted = {}
  BY DEF Init, Open, Counted
<1>2. QED
  BY <1>1, FS_EmptySet, HubAssumption
     DEF Init, ConnInv, ConnectionsCounted, ConnectionCap, TaskStates, HubAssumption

LEMMA FetchAddConn ==
    ASSUME ConnInv, NEW w \in Tasks, FetchAdd(w)
    PROVE  ConnInv'
<1>1. w \notin Counted /\ w \notin Open
  BY DEF FetchAdd, Counted, Open
<1>2. Counted' = Counted \cup {w}
  BY DEF FetchAdd, Counted, ConnInv, CapReached
<1>3. Cardinality(Counted') = Cardinality(Counted) + 1
  BY <1>1, <1>2, AddOne, TaskSetsFinite
<1>4. active' = Cardinality(Counted') /\ active' \in Nat
  BY <1>3 DEF FetchAdd, ConnInv, ConnectionsCounted
<1>5. Cardinality(Open') <= MaxConns
  <2>1. CASE CapReached(active)
    <3>1. Open' = Open
      BY <2>1 DEF FetchAdd, Open, ConnInv
    <3>2. QED
      BY <3>1 DEF ConnInv, ConnectionCap
  <2>2. CASE ~CapReached(active)
    <3>1. Open' = Open \cup {w}
      BY <2>2 DEF FetchAdd, Open, ConnInv
    <3>2. Cardinality(Open') = Cardinality(Open) + 1
      BY <1>1, <3>1, AddOne, TaskSetsFinite
    <3>3. Cardinality(Open) < MaxConns
      BY <2>2, TaskSetsFinite, HubAssumption
         DEF CapReached, ConnInv, ConnectionsCounted, HubAssumption
    <3>4. QED
      BY <3>2, <3>3, TaskSetsFinite, HubAssumption DEF HubAssumption
  <2>3. QED
    BY <2>1, <2>2
<1>6. QED
  BY <1>4, <1>5
     DEF FetchAdd, ConnInv, ConnectionsCounted, ConnectionCap, TaskStates

LEMMA LeaveConn ==
    ASSUME ConnInv, NEW w \in Tasks, FetchSub(w) \/ DropGuard(w)
    PROVE  ConnInv'
<1>1. w \in Counted /\ Counted' = Counted \ {w}
  BY DEF FetchSub, DropGuard, Counted, ConnInv
<1>2. Cardinality(Counted') = Cardinality(Counted) - 1 /\ Cardinality(Counted') \in Nat
  BY <1>1, RemoveOne, TaskSetsFinite, FS_CardinalityType
<1>3. active' = Cardinality(Counted') /\ active' \in Nat
  BY <1>2 DEF FetchSub, DropGuard, Refund, ConnInv, ConnectionsCounted
<1>4. Cardinality(Open') <= Cardinality(Open) /\ Cardinality(Open') \in Nat
  <2>1. Open' \subseteq Open
    BY DEF FetchSub, DropGuard, Open, ConnInv
  <2>2. QED
    BY <2>1, TaskSetsFinite, FS_Subset, FS_CardinalityType
<1>5. QED
  BY <1>3, <1>4, TaskSetsFinite, HubAssumption
     DEF FetchSub, DropGuard, ConnInv, ConnectionsCounted, ConnectionCap,
         TaskStates, HubAssumption

LEMMA ConnFrame ==
    ASSUME ConnInv, UNCHANGED connVars
    PROVE  ConnInv'
  BY DEF ConnInv, connVars, ConnectionsCounted, ConnectionCap, Open, Counted

LEMMA ConnNext == ConnInv /\ [Next]_vars => ConnInv'
<1> SUFFICES ASSUME ConnInv, [Next]_vars PROVE ConnInv'
  OBVIOUS
<1>1. CASE ConnectionStep
  BY <1>1, FetchAddConn, LeaveConn DEF ConnectionStep
<1>2. CASE TicketStep
  <2>1. UNCHANGED connVars
    BY <1>2 DEF TicketStep, Attach, Lease, CloneReceiver, Unlease, RemoveIfDeaf,
                DropReceiver, DropClone, SeeChange, connVars
  <2>2. QED
    BY <2>1, ConnFrame
<1>3. CASE \E k \in Keys : Notify(k)
  BY <1>3, ConnFrame DEF Notify, connVars
<1>4. CASE UNCHANGED vars
  BY <1>4, ConnFrame DEF vars, connVars
<1>5. QED
  BY <1>1, <1>2, <1>3, <1>4 DEF Next

\* At most MaxConns sockets are admitted at any time, for any number of
\* concurrent upgrade attempts (try_acquire_connection).
THEOREM CapHolds == Spec => []ConnectionCap
<1>1. ConnInv => ConnectionCap
  BY DEF ConnInv
<1>2. QED
  BY <1>1, ConnInit, ConnNext, PTL DEF Spec

-----------------------------------------------------------------------------
\* The ticket half: a channel is never replaced while it has a receiver, and
\* the lease count follows the tickets.
TicketTypes ==
    /\ st \in [Tickets -> TicketStates]
    /\ key \in [Tickets -> Keys]
    /\ entry \in [Keys -> Nat]
    /\ made \in [Keys -> Nat]
    /\ chan \in [Tickets -> Nat]
    /\ changed \in [Tickets -> BOOLEAN]
    /\ leases \in Nat

TicketInv == TicketTypes /\ LeasesCounted /\ ReceiversReachable

LEMMA LeasedFinite ==
    IsFiniteSet(Leased) /\ Cardinality(Leased) \in Nat
<1>1. Leased \subseteq Tickets
  BY DEF Leased
<1>2. QED
  BY <1>1, FS_Subset, FS_CardinalityType, HubAssumption DEF HubAssumption

LEMMA TicketInit == Init => TicketInv
<1> SUFFICES ASSUME Init PROVE TicketInv
  OBVIOUS
<1>1. Leased = {}
  BY DEF Init, Leased
<1>2. QED
  BY <1>1, FS_EmptySet
     DEF Init, TicketInv, TicketTypes, LeasesCounted, ReceiversReachable, TicketStates

\* A holder of a receiver keeps its own key watched.
LEMMA HolderWatches ==
    ASSUME TicketInv, NEW t \in Tickets, st[t] # "none"
    PROVE  IsWatched(key[t])
  BY DEF TicketInv, ReceiversReachable, IsWatched, Receivers

LEMMA AttachTicket ==
    ASSUME TicketInv, NEW t \in Tickets, NEW k \in Keys, Attach(t, k)
    PROVE  TicketInv'
<1>1. TicketTypes'
  BY DEF Attach, TicketInv, TicketTypes, TicketStates
<1>2. Leased' = Leased
  BY DEF Attach, Leased, TicketInv, TicketTypes
<1>3. LeasesCounted'
  BY <1>2 DEF Attach, TicketInv, LeasesCounted
<1>4. ReceiversReachable'
  <2> SUFFICES ASSUME NEW u \in Tickets, st'[u] # "none"
               PROVE  entry'[key'[u]] = chan'[u] /\ chan'[u] # 0
    BY DEF ReceiversReachable
  <2>1. CASE u = t
    BY <2>1 DEF Attach, TicketInv, TicketTypes
  <2>2. CASE u # t
    <3>1. st[u] # "none" /\ key'[u] = key[u] /\ chan'[u] = chan[u]
      BY <2>2 DEF Attach, TicketInv, TicketTypes
    <3>2. entry[key[u]] = chan[u] /\ chan[u] # 0
      BY <3>1 DEF TicketInv, ReceiversReachable
    <3>3. entry'[key[u]] = entry[key[u]]
      BY <3>2 DEF Attach, TicketInv, TicketTypes
    <3>4. QED
      BY <3>1, <3>2, <3>3
  <2>3. QED
    BY <2>1, <2>2
<1>5. QED
  BY <1>1, <1>3, <1>4 DEF TicketInv

LEMMA LeaseTicket ==
    ASSUME TicketInv, NEW t \in Tickets, Lease(t)
    PROVE  TicketInv'
<1>1. t \notin Leased /\ Leased' = Leased \cup {t}
  BY DEF Lease, Leased, TicketInv, TicketTypes
<1>2. Cardinality(Leased') = Cardinality(Leased) + 1
  BY <1>1, AddOne, LeasedFinite
<1>3. LeasesCounted' /\ TicketTypes'
  BY <1>2 DEF Lease, LeaseTaken, TicketInv, TicketTypes, TicketStates, LeasesCounted
<1>4. ReceiversReachable'
  BY DEF Lease, TicketInv, TicketTypes, ReceiversReachable
<1>5. QED
  BY <1>3, <1>4 DEF TicketInv

LEMMA UnleaseTicket ==
    ASSUME TicketInv, NEW t \in Tickets, Unlease(t)
    PROVE  TicketInv'
<1>1. t \in Leased /\ Leased' = Leased \ {t}
  BY DEF Unlease, Leased, TicketInv, TicketTypes
<1>2. Cardinality(Leased') = Cardinality(Leased) - 1 /\ Cardinality(Leased') \in Nat
  BY <1>1, RemoveOne, LeasedFinite, FS_CardinalityType
<1>3. LeasesCounted' /\ TicketTypes'
  BY <1>2 DEF Unlease, TicketInv, TicketTypes, TicketStates, LeasesCounted
<1>4. ReceiversReachable'
  BY DEF Unlease, TicketInv, TicketTypes, ReceiversReachable
<1>5. QED
  BY <1>3, <1>4 DEF TicketInv

\* The steps that neither create a channel nor touch a counter.
LEMMA QuietTicket ==
    ASSUME TicketInv, NEW t \in Tickets,
           \/ CloneReceiver(t) \/ RemoveIfDeaf(t) \/ DropReceiver(t)
           \/ DropClone(t) \/ SeeChange(t)
    PROVE  TicketInv'
<1>1. UNCHANGED <<key, entry, made, chan, leases>>
  <2>1. CASE RemoveIfDeaf(t)
    <3>1. ~Deaf(key[t])
      BY <2>1, HolderWatches DEF RemoveIfDeaf, Deaf
    <3>2. QED
      BY <2>1, <3>1 DEF RemoveIfDeaf, TicketInv, TicketTypes
  <2>2. QED
    BY <2>1 DEF CloneReceiver, DropReceiver, DropClone, SeeChange
<1>2. Leased' = Leased
  BY DEF CloneReceiver, RemoveIfDeaf, DropReceiver, DropClone, SeeChange,
         Leased, TicketInv, TicketTypes
<1>3. TicketTypes'
  BY <1>1 DEF CloneReceiver, RemoveIfDeaf, DropReceiver, DropClone, SeeChange,
              TicketInv, TicketTypes, TicketStates
<1>4. \A u \in Tickets : st'[u] # "none" => st[u] # "none"
  BY DEF CloneReceiver, RemoveIfDeaf, DropReceiver, DropClone, SeeChange,
         TicketInv, TicketTypes
<1>5. QED
  BY <1>1, <1>2, <1>3, <1>4 DEF TicketInv, LeasesCounted, ReceiversReachable

LEMMA TicketNext == TicketInv /\ [Next]_vars => TicketInv'
<1> SUFFICES ASSUME TicketInv, [Next]_vars PROVE TicketInv'
  OBVIOUS
<1>1. CASE TicketStep
  BY <1>1, AttachTicket, LeaseTicket, UnleaseTicket, QuietTicket DEF TicketStep
<1>2. CASE \E k \in Keys : Notify(k)
  BY <1>2 DEF Notify, TicketInv, TicketTypes, LeasesCounted, Leased, ReceiversReachable
<1>3. CASE ConnectionStep \/ UNCHANGED vars
  <2>1. UNCHANGED ticketVars
    BY <1>3 DEF ConnectionStep, FetchAdd, FetchSub, DropGuard, vars, ticketVars
  <2>2. QED
    BY <2>1 DEF ticketVars, TicketInv, TicketTypes, LeasesCounted, Leased,
                ReceiversReachable
<1>4. QED
  BY <1>1, <1>2, <1>3 DEF Next

\* A bound key can always be woken: the channel of every live receiver is the
\* one notify and is_watched find in the map (subscribe, unsubscribe).
THEOREM AlwaysReachable == Spec => []ReceiversReachable
<1>1. TicketInv => ReceiversReachable
  BY DEF TicketInv
<1>2. QED
  BY <1>1, TicketInit, TicketNext, PTL DEF Spec

\* active_connections never drifts from the attempts that incremented it, and
\* active_leases is the number of counted Subscriptions, hence never wraps.
THEOREM CountersHold == Spec => []CountersExact
<1>1. ConnInv /\ TicketInv => CountersExact
  BY DEF ConnInv, TicketInv, CountersExact
<1>2. QED
  BY <1>1, ConnInit, ConnNext, TicketInit, TicketNext, PTL DEF Spec

\* The types of every hub variable, the counters being naturals included.
THEOREM TypeCorrect == Spec => []TypeOK
<1>1. ConnInv /\ TicketInv => TypeOK
  BY DEF ConnInv, TicketInv, TicketTypes, TypeOK
<1>2. QED
  BY <1>1, ConnInit, ConnNext, TicketInit, TicketNext, PTL DEF Spec

-----------------------------------------------------------------------------
(* The hub implements Mailboxes.                                           *)

Marked == {t \in Listening : changed[t]}

LEMMA HubPromises == Init => Promise!Init
  BY DEF Init, Promise!Init, Open, Listening

\* Mailboxes counts as the hub does.
LEMMA SameCardinality ==
    ASSUME NEW S
    PROVE  Promise!Cardinality(S) = Cardinality(S)
  BY DEF Promise!Cardinality, Cardinality

\* The fetch_add is the admission: the counter it reads is at least the number
\* of sockets that were let in.
LEMMA EnterStep ==
    ASSUME ConnInv, NEW w \in Tasks, FetchAdd(w)
    PROVE  Promise!Enter(w) \/ UNCHANGED Promise!vars
<1>1. UNCHANGED <<Listening, key, Marked>>
  BY DEF FetchAdd, ticketVars, Listening, Marked
<1>2. CASE CapReached(active)
  <2>1. Open' = Open
    BY <1>2 DEF FetchAdd, Open, ConnInv
  <2>2. QED
    BY <1>1, <2>1 DEF Promise!vars, Marked
<1>3. CASE ~CapReached(active)
  <2>1. w \notin Open /\ Open' = Open \cup {w}
    BY <1>3 DEF FetchAdd, Open, ConnInv
  <2>2. Cardinality(Open) < MaxConns
    BY <1>3, TaskSetsFinite, HubAssumption
       DEF CapReached, ConnInv, ConnectionsCounted, HubAssumption
  <2>3. Promise!Enter(w)
    BY <1>1, <2>1, <2>2, SameCardinality DEF Promise!Enter, Marked
  <2>4. QED
    BY <2>3
<1>4. QED
  BY <1>2, <1>3

LEMMA ExitStep ==
    ASSUME ConnInv, NEW w \in Tasks, FetchSub(w) \/ DropGuard(w)
    PROVE  Promise!Exit(w) \/ UNCHANGED Promise!vars
<1>1. UNCHANGED <<Listening, key, Marked>>
  BY DEF FetchSub, DropGuard, ticketVars, Listening, Marked
<1>2. CASE FetchSub(w)
  <2>1. Open' = Open
    BY <1>2 DEF FetchSub, Open, ConnInv
  <2>2. QED
    BY <1>1, <2>1 DEF Promise!vars, Marked
<1>3. CASE DropGuard(w)
  <2>1. w \in Open /\ Open' = Open \ {w}
    BY <1>3 DEF DropGuard, Open, ConnInv
  <2>2. QED
    BY <1>1, <2>1 DEF Promise!Exit, Marked
<1>4. QED
  BY <1>2, <1>3

LEMMA ListenStep ==
    ASSUME TicketInv, NEW t \in Tickets, NEW k \in Keys, Attach(t, k)
    PROVE  Promise!Listen(t, k)
<1>1. Open' = Open
  BY DEF Attach, Open
<1>2. t \notin Listening /\ Listening' = Listening \cup {t}
  BY DEF Attach, Listening, TicketInv, TicketTypes
<1>3. Marked' = Marked
  BY <1>2 DEF Attach, Marked, Listening, TicketInv, TicketTypes
<1>4. key' = [key EXCEPT ![t] = k]
  BY DEF Attach
<1>5. QED
  BY <1>1, <1>2, <1>3, <1>4 DEF Promise!Listen, Marked

LEMMA LeaveStep ==
    ASSUME TicketInv, NEW t \in Tickets, DropClone(t)
    PROVE  Promise!Leave(t)
<1>1. UNCHANGED <<Open, key>>
  BY DEF DropClone, Open
<1>2. t \in Listening /\ Listening' = Listening \ {t}
  BY DEF DropClone, Listening, TicketInv, TicketTypes
<1>3. Marked' = Marked \ {t}
  BY <1>2 DEF DropClone, Marked
<1>4. QED
  BY <1>1, <1>2, <1>3 DEF Promise!Leave, Marked

LEMMA LookStep ==
    ASSUME TicketInv, NEW t \in Tickets, SeeChange(t)
    PROVE  Promise!Look(t)
<1>1. UNCHANGED <<Open, Listening, key>>
  BY DEF SeeChange, Open, Listening
<1>2. t \in Marked /\ Marked' = Marked \ {t}
  BY <1>1 DEF SeeChange, Marked, Listening, TicketInv, TicketTypes
<1>3. QED
  BY <1>1, <1>2 DEF Promise!Look, Marked

\* The steps a subscriber takes between attaching and leaving.
LEMMA HiddenStep ==
    ASSUME TicketInv, NEW t \in Tickets,
           Lease(t) \/ CloneReceiver(t) \/ Unlease(t) \/ RemoveIfDeaf(t) \/ DropReceiver(t)
    PROVE  UNCHANGED Promise!vars
<1>1. UNCHANGED <<Open, key, changed>>
  BY DEF Lease, CloneReceiver, Unlease, RemoveIfDeaf, DropReceiver, Open
<1>2. Listening' = Listening
  BY DEF Lease, CloneReceiver, Unlease, RemoveIfDeaf, DropReceiver, Listening,
         TicketInv, TicketTypes
<1>3. QED
  BY <1>1, <1>2 DEF Promise!vars

\* Everyone who listens to a key has a receiver on the channel notify finds.
LEMMA NotifyStep ==
    ASSUME TicketInv, NEW k \in Keys, Notify(k)
    PROVE  Promise!Notify(k)
<1>1. UNCHANGED <<Open, Listening, key>>
  BY DEF Notify, Open, Listening
<1>2. Receivers(k, entry[k]) = {t \in Listening : key[t] = k}
  BY DEF Receivers, Listening, TicketInv, ReceiversReachable
<1>3. Marked' = Marked \cup {t \in Listening : key[t] = k}
  BY <1>1, <1>2 DEF Notify, Marked, Listening
<1>4. QED
  BY <1>1, <1>3 DEF Promise!Notify, Marked

\* The hub implements Mailboxes: its connection counter admits like a semaphore
\* and its map of channels delivers every notify to every listener, for any
\* number of sockets, keys and subscriptions.
THEOREM ImplementsMailboxes == Spec => MailboxSpec
<1>1. ASSUME ConnInv, TicketInv, [Next]_vars
      PROVE  [Promise!Next]_(Promise!vars)
  <2>1. CASE ConnectionStep
    BY <1>1, <2>1, EnterStep, ExitStep DEF ConnectionStep, Promise!Next
  <2>2. CASE TicketStep
    BY <1>1, <2>2, ListenStep, LeaveStep, LookStep, HiddenStep DEF TicketStep, Promise!Next
  <2>3. CASE \E k \in Keys : Notify(k)
    BY <1>1, <2>3, NotifyStep DEF Promise!Next
  <2>4. CASE UNCHANGED vars
    BY <2>4 DEF vars, Promise!vars, Open, Listening
  <2>5. QED
    BY <1>1, <2>1, <2>2, <2>3, <2>4 DEF Next
<1>2. QED
  BY <1>1, HubPromises, ConnInit, ConnNext, TicketInit, TicketNext, PTL
  DEF Spec, MailboxSpec, Promise!Spec

=============================================================================
