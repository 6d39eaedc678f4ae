------------------------------ MODULE BridgeIngress ------------------------------
\* The four modules of the Bridge's ingress side by side. They share no state: a behaviour
\* is one of one of them, whose name `part` holds.
EXTENDS RouteResolver

CONSTANTS
    ProxyRequests, Targets, TargetOf, Fresh, Stale, Width,
    ProxyBounds,                  \* [time, calls]: of DirectProxy
    OwnedTraffics, OwnerCapacity, OwnerTTL,
    OwnerBounds,                  \* [time, observed]: of TrafficOwnership
    Calls, Kinds, ResolveAttempts, ReadAttempts,
    MaxExtra                      \* bound: of IngressProxy

ASSUME SideAssumption ==
    /\ None \notin Nat
    /\ TargetOf \in [ProxyRequests -> Targets]
    /\ Fresh \in Nat /\ Stale \in Nat
    /\ IsFiniteSet(OwnedTraffics) /\ OwnerCapacity \in Nat \ {0} /\ OwnerTTL \in Nat \ {0}
    /\ None \notin [at : Nat, version : Nat]

VARIABLES
    part,
    clock, calls, record, request,                      \* DirectProxy
    time, owner, queue, sequence, seen,                 \* TrafficOwnership
    kind, call, gone, sent, wire, reader, extra         \* IngressProxy

directVars  == <<clock, calls, record, request>>
ownerVars   == <<time, owner, queue, sequence, seen>>
ingressVars == <<kind, call, gone, sent, wire, reader, extra>>

-----------------------------------------------------------------------------
Direct == INSTANCE DirectProxy WITH
    now <- clock, Requests <- ProxyRequests,
    MaxTime <- ProxyBounds.time, MaxCalls <- ProxyBounds.calls

Owners == INSTANCE TrafficOwnership WITH
    now <- time, Traffics <- OwnedTraffics, Capacity <- OwnerCapacity,
    MaxTime <- OwnerBounds.time, MaxObserved <- OwnerBounds.observed

Ingress == INSTANCE IngressProxy

-----------------------------------------------------------------------------
\* The parts that do not run stay as they start.
SideInit ==
    /\ part \in {"resolver", "direct", "owners", "ingress"}
    /\ Init /\ Direct!Init /\ Owners!Init /\ Ingress!Init

SideNext ==
    \/ part = "resolver" /\ Next         /\ UNCHANGED <<part, directVars, ownerVars, ingressVars>>
    \/ part = "direct"   /\ Direct!Next  /\ UNCHANGED <<part, vars, ownerVars, ingressVars>>
    \/ part = "owners"   /\ Owners!Next  /\ UNCHANGED <<part, vars, directVars, ingressVars>>
    \/ part = "ingress"  /\ Ingress!Next /\ UNCHANGED <<part, vars, directVars, ownerVars>>

allVars == <<part, vars, directVars, ownerVars, ingressVars>>

SideSpec == SideInit /\ [][SideNext]_allVars

-----------------------------------------------------------------------------
\* The properties of the parts, stated in their modules.

\* The endpoints another request has just put in the cache stay.
RefreshKept == Direct!RefreshKept

\* The store has the owners of the traffics observed last.
LatestOwnersKept == Owners!LatestOwnersKept

\* A call is answered once.
OneAnswer == Ingress!OneAnswer
=============================================================================
