--------------------------- MODULE TunnelRegistry ---------------------------
(***************************************************************************)
(* The Bridge's view of its data-plane tunnels:                            *)
(* cloud-bridge/runtime/bridge/registry/tunnel_registry.go.                *)
(*                                                                         *)
(* Every method of TunnelRegistry runs under one mutex, so each is one     *)
(* atomic operator here.  A method that can refuse (ErrTunnelNotFound,     *)
(* ErrInvalidTunnelStateTransition, ...) comes with the predicate under    *)
(* which it does not; a refused call changes nothing, and the modules that *)
(* use the registry say what the caller does then.                         *)
(*                                                                         *)
(* Tunnel records are split by field.  Timestamps, binding names and error *)
(* texts are left out.                                                     *)
(***************************************************************************)
EXTENDS Integers, Sequences, FiniteSets

CONSTANTS
    Tunnels,        \* tunnel IDs
    Connectors,     \* connector IDs
    Sessions,       \* session IDs
    ConnectorOf     \* the connector each session belongs to

ASSUME ConnectorOfAssumption == ConnectorOf \in [Sessions -> Connectors]

VARIABLES
    tstate,         \* state of the record of each tunnel; "none": no record
    home,           \* session the tunnel was registered under
    recycleSeq,     \* TunnelRuntime.RecycleSeq
    reuseCount,     \* TunnelRuntime.ReuseCount
    idleQueue       \* idleByConnector: FIFO of tunnel IDs, one per connector

registryVars == <<tstate, home, recycleSeq, reuseCount, idleQueue>>

TunnelStates == {"idle", "reserved", "active", "closed", "broken"}
Terminal     == {"closed", "broken"}

Registered(t) == tstate[t] # "none"

RegistryTypeOK ==
    /\ tstate     \in [Tunnels -> TunnelStates \cup {"none"}]
    /\ home       \in [Tunnels -> Sessions]
    /\ recycleSeq \in [Tunnels -> Nat]
    /\ reuseCount \in [Tunnels -> Nat]

RegistryInit ==
    /\ tstate     = [t \in Tunnels |-> "none"]
    /\ home       \in [Tunnels -> Sessions]
    /\ recycleSeq = [t \in Tunnels |-> 0]
    /\ reuseCount = [t \in Tunnels |-> 0]
    /\ idleQueue  = [c \in Connectors |-> <<>>]

(***************************************************************************)
(* Queue bookkeeping.                                                      *)
(***************************************************************************)
Queue(t) == ConnectorOf[home[t]]

\* removeIdleLocked, for every tunnel of a set.
WithoutIdle(removed) ==
    [c \in Connectors |-> SelectSeq(idleQueue[c], LAMBDA t : t \notin removed)]

Enqueue(t, c) == [idleQueue EXCEPT ![c] = Append(@, t)]

(***************************************************************************)
(* Operations.                                                             *)
(***************************************************************************)
\* UpsertIdle refuses an ID that already has a record.
CanUpsertIdle(t) == ~Registered(t)

UpsertIdle(t, s) ==
    /\ CanUpsertIdle(t)
    /\ tstate'     = [tstate EXCEPT ![t] = "idle"]
    /\ home'       = [home EXCEPT ![t] = s]
    /\ recycleSeq' = [recycleSeq EXCEPT ![t] = 0]
    /\ reuseCount' = [reuseCount EXCEPT ![t] = 0]
    /\ idleQueue'  = Enqueue(t, ConnectorOf[s])

\* AcquireIdle pops the connector's queue up to the first ID whose record is
\* idle and reserves it; the IDs popped before it are dropped.
FirstIdleAt(c, k) ==
    /\ k \in DOMAIN idleQueue[c]
    /\ tstate[idleQueue[c][k]] = "idle"
    /\ \A j \in 1..(k - 1) : tstate[idleQueue[c][j]] # "idle"

AcquireIdle(c, t) ==
    \E k \in DOMAIN idleQueue[c] :
        /\ FirstIdleAt(c, k)
        /\ idleQueue[c][k] = t
        /\ tstate'    = [tstate EXCEPT ![t] = "reserved"]
        /\ idleQueue' = [idleQueue EXCEPT ![c] = SubSeq(@, k + 1, Len(@))]
        /\ UNCHANGED <<home, recycleSeq, reuseCount>>

NoneIdle(c) == \A k \in DOMAIN idleQueue[c] : ~FirstIdleAt(c, k)

CanMarkActive(t) == tstate[t] = "reserved"

MarkActive(t) ==
    /\ CanMarkActive(t)
    /\ tstate' = [tstate EXCEPT ![t] = "active"]
    /\ UNCHANGED <<home, recycleSeq, reuseCount, idleQueue>>

\* (A mutant: only the recycle number is checked.)
CanMarkIdleIfNewer(t, n) == n > recycleSeq[t]

CanMarkIdle(t, n) == tstate[t] \in {"active", "reserved"} /\ n > recycleSeq[t]

MarkIdleAfterRecycle(t, n) ==
    /\ CanMarkIdle(t, n)
    /\ tstate'     = [tstate EXCEPT ![t] = "idle"]
    /\ recycleSeq' = [recycleSeq EXCEPT ![t] = n]
    /\ reuseCount' = [reuseCount EXCEPT ![t] = @ + 1]
    /\ idleQueue'  = Enqueue(t, Queue(t))
    /\ UNCHANGED home

\* isValidTunnelTransition, for the two terminal targets.
\* (A mutant: a reserved tunnel cannot be broken.)
CanMarkTerminalNotReserved(t, target) ==
    \/ target = "closed" /\ tstate[t] \in {"reserved", "active"}
    \/ target = "broken" /\ tstate[t] \in {"idle", "active"}

CanMarkTerminal(t, target) ==
    \/ target = "closed" /\ tstate[t] \in {"reserved", "active"}
    \/ target = "broken" /\ tstate[t] \in {"idle", "reserved", "active"}

MarkTerminal(t, target) ==
    /\ CanMarkTerminal(t, target)
    /\ tstate'    = [tstate EXCEPT ![t] = target]
    /\ idleQueue' = IF tstate[t] = "idle" THEN WithoutIdle({t}) ELSE idleQueue
    /\ UNCHANGED <<home, recycleSeq, reuseCount>>

CanRemoveTerminal(t) == tstate[t] \in Terminal

RemoveTerminal(t) ==
    /\ CanRemoveTerminal(t)
    /\ tstate'    = [tstate EXCEPT ![t] = "none"]
    /\ idleQueue' = WithoutIdle({t})
    /\ UNCHANGED <<home, recycleSeq, reuseCount>>

\* The records a purge of session s takes out; Close runs on them after the
\* mutex is released, so the caller is left with the set.
OfSession(s) == {t \in Tunnels : Registered(t) /\ home[t] = s}

Drop(ts) ==
    /\ tstate'    = [t \in Tunnels |-> IF t \in ts THEN "none" ELSE tstate[t]]
    /\ idleQueue' = WithoutIdle(ts)
    /\ UNCHANGED <<home, recycleSeq, reuseCount>>

PurgeBySession(s) == Drop(OfSession(s))

\* RecycleIdleBySession takes the idle records with the oldest UpdatedAt.  The
\* timestamps are read before the mutex is taken, so their order is not that of
\* the queue: any set of the right size can be the oldest one.
IdleOf(s) == {t \in OfSession(s) : tstate[t] = "idle"}

RecycleIdleBySession(s, limit, ts) ==
    /\ ts \subseteq IdleOf(s)
    /\ Cardinality(ts) = (IF limit > Cardinality(IdleOf(s))
                          THEN Cardinality(IdleOf(s)) ELSE limit)
    /\ Drop(ts)
=============================================================================
