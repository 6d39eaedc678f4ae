------------------------- MODULE ConnectorDispatch -------------------------
(***************************************************************************)
(* The actors that share the Bridge's tunnel registry:                     *)
(*                                                                         *)
(*  - the acceptor of incoming tunnels (app/control_plane.go), which first *)
(*    resolves the owning session and then registers the tunnel;           *)
(*  - one dispatch per request (connectorproxy/dispatcher.go and           *)
(*    tunnel_acquirer.go): acquire, probe, mark active, carry the traffic, *)
(*    then recycle the tunnel, close it, or give it up as broken;          *)
(*  - one watcher goroutine per accepted tunnel (app/control_plane.go);    *)
(*  - session lifecycle effects and the administrator's drain, which purge *)
(*    the tunnels of a session, and the periodic pool report, which trims  *)
(*    idle ones; both close the tunnels after the registry is unlocked;    *)
(*  - the Agent, which may lose any connection at any time.                *)
(*                                                                         *)
(* Each registry call is one step, each Close one step, so the actors      *)
(* interleave wherever the code lets them.  What travels on the tunnel     *)
(* during one traffic is TunnelTraffic's subject: here a traffic succeeds  *)
(* or fails.                                                               *)
(***************************************************************************)
EXTENDS TunnelRegistry

CONSTANTS
    Dispatches,       \* request workers
    Target,           \* the connector each of them dispatches to
    MaxReuse,         \* dispatcher.maxReuseCount
    MaxAcquireRetry,  \* acquirer.maxAcquireRetry
    Probed,           \* tunnels of tcp_framed; the rest are grpc_h2 or quic_native
    NoTunnel          \* a dispatch that holds no tunnel

ASSUME DispatchAssumption ==
    /\ NoTunnel \notin Tunnels
    /\ Target \in [Dispatches -> Connectors]
    /\ MaxReuse \in Nat \ {0}
    /\ MaxAcquireRetry \in Nat \ {0}
    /\ Probed \subseteq Tunnels

VARIABLES
    link,       \* the transport tunnel: "up", "cut" (the peer is gone and
                \* nothing local has noticed), "done" (Done() has fired), or
                \* "none" before the Agent dials
    accept,     \* the acceptor's progress with each tunnel
    active,     \* the sessions whose state is ACTIVE
    purging,    \* sessions that left ACTIVE and whose purge is still to run
    toClose,    \* tunnels taken out of the registry and not closed yet
    pc,         \* where each dispatch is
    held,       \* the tunnel of its TunnelRuntime snapshot, or NoTunnel
    snapSeq,    \* RecycleSeq in that snapshot
    snapReuse,  \* ReuseCount in that snapshot
    failWith,   \* terminal state the dispatch is giving its tunnel
    attempts,   \* acquire attempts that met a stale tunnel
    watch       \* where the watcher of each tunnel is

dispatchVars == <<pc, held, snapSeq, snapReuse, failWith, attempts>>
sessionVars  == <<active, purging>>
vars == <<registryVars, link, accept, sessionVars, toClose, dispatchVars, watch>>

Pcs == {"start", "probe", "mark", "traffic", "recycle", "commit",
        "close", "terminal", "remove"}

\* The program counters at which a dispatch holds a tunnel it acquired.
Holding(d) == pc[d] # "start"

TypeOK ==
    /\ RegistryTypeOK
    /\ link      \in [Tunnels -> {"none", "up", "cut", "done"}]
    /\ accept    \in [Tunnels -> {"new", "resolved", "done"}]
    /\ active    \in SUBSET Sessions
    /\ purging   \in SUBSET Sessions
    /\ toClose   \in SUBSET Tunnels
    /\ pc        \in [Dispatches -> Pcs]
    /\ held      \in [Dispatches -> Tunnels \cup {NoTunnel}]
    /\ snapSeq   \in [Dispatches -> Nat]
    /\ snapReuse \in [Dispatches -> Nat]
    /\ failWith  \in [Dispatches -> Terminal]
    /\ attempts  \in [Dispatches -> Nat]
    /\ watch     \in [Tunnels -> {"none", "watching", "probing", "check",
                                  "break", "remove", "exit"}]

Init ==
    /\ RegistryInit
    /\ link      = [t \in Tunnels |-> "none"]
    /\ accept    = [t \in Tunnels |-> "new"]
    /\ active    = Sessions
    /\ purging   = {}
    /\ toClose   = {}
    /\ pc        = [d \in Dispatches |-> "start"]
    /\ held      = [d \in Dispatches |-> NoTunnel]
    /\ snapSeq   = [d \in Dispatches |-> 0]
    /\ snapReuse = [d \in Dispatches |-> 0]
    /\ failWith  = [d \in Dispatches |-> "broken"]
    /\ attempts  = [d \in Dispatches |-> 0]
    /\ watch     = [t \in Tunnels |-> "none"]

(***************************************************************************)
(* Accepting tunnels.  The Agent's IDs are unique (session scope and a     *)
(* sequence number), so an ID is dialled once.                             *)
(***************************************************************************)
\* The Agent dials t for session home[t]; the acceptor resolves the owner, which
\* has to be ACTIVE.
ResolveOwner(t) ==
    /\ accept[t] = "new"
    /\ home[t] \in active
    /\ accept' = [accept EXCEPT ![t] = "resolved"]
    /\ link'   = [link EXCEPT ![t] = "up"]
    /\ UNCHANGED <<registryVars, sessionVars, toClose, dispatchVars, watch>>

\* registerAcceptedTunnelWithOwner: the session is not looked at again.  The
\* raw tunnel of a refused registration is closed.
Register(t) ==
    /\ accept[t] = "resolved"
    /\ accept' = [accept EXCEPT ![t] = "done"]
    /\ IF CanUpsertIdle(t)
       THEN /\ UpsertIdle(t, home[t])
            /\ watch' = [watch EXCEPT ![t] = "watching"]
            /\ UNCHANGED link
       ELSE /\ link' = [link EXCEPT ![t] = "done"]
            /\ UNCHANGED <<registryVars, watch>>
    /\ UNCHANGED <<sessionVars, toClose, dispatchVars>>

\* The Agent's end goes away.  A gRPC or QUIC stream fires Done() on its own; a
\* TCP tunnel notices on its next read or probe.
PeerDrop(t) ==
    /\ link[t] = "up"
    /\ link' = [link EXCEPT ![t] = IF t \in Probed THEN "cut" ELSE "done"]
    /\ UNCHANGED <<registryVars, accept, sessionVars, toClose, dispatchVars, watch>>

(***************************************************************************)
(* Dispatch.                                                               *)
(***************************************************************************)
Goto(d, label) == pc' = [pc EXCEPT ![d] = label]

\* The dispatch is over: its snapshot goes out of scope.
Finish(d) ==
    /\ Goto(d, "start")
    /\ held'      = [held EXCEPT ![d] = NoTunnel]
    /\ snapSeq'   = [snapSeq EXCEPT ![d] = 0]
    /\ snapReuse' = [snapReuse EXCEPT ![d] = 0]
    /\ attempts'  = [attempts EXCEPT ![d] = 0]
    /\ UNCHANGED failWith

\* Every path that gives the tunnel up: Close, then MarkClosed or MarkBroken,
\* then RemoveTerminal, whatever each of them returns.
GiveUp(d, target) ==
    /\ Goto(d, "close")
    /\ failWith' = [failWith EXCEPT ![d] = target]
    /\ UNCHANGED <<held, snapSeq, snapReuse, attempts>>

untouchedByDispatch == <<accept, sessionVars, toClose>>

Acquire(d) ==
    /\ pc[d] = "start"
    /\ attempts[d] < MaxAcquireRetry
    /\ \E t \in Tunnels :
        /\ AcquireIdle(Target[d], t)
        /\ held'      = [held EXCEPT ![d] = t]
        /\ snapSeq'   = [snapSeq EXCEPT ![d] = recycleSeq[t]]
        /\ snapReuse' = [snapReuse EXCEPT ![d] = reuseCount[t]]
    /\ Goto(d, "probe")
    /\ UNCHANGED <<failWith, attempts, link, watch, untouchedByDispatch>>

\* Every attempt met a stale tunnel, or none is idle until the wait hint or the
\* request's context expires.  A first attempt that fails leaves no trace.
AcquireFails(d) ==
    /\ pc[d] = "start"
    /\ attempts[d] > 0
    /\ attempts[d] = MaxAcquireRetry \/ NoneIdle(Target[d])
    /\ attempts' = [attempts EXCEPT ![d] = 0]
    /\ UNCHANGED <<registryVars, pc, held, snapSeq, snapReuse, failWith, link,
                   watch, untouchedByDispatch>>

\* A tunnel whose binding has no probe is taken as healthy.
ProbeOk(d) ==
    /\ pc[d] = "probe"
    /\ held[d] \in Probed => link[held[d]] = "up"
    /\ Goto(d, "mark")
    /\ UNCHANGED <<registryVars, held, snapSeq, snapReuse, failWith, attempts,
                   link, watch, untouchedByDispatch>>

\* recycleStaleTunnel; the probe itself closes a tunnel whose peer is gone.
ProbeStale(d) ==
    /\ pc[d] = "probe"
    /\ held[d] \in Probed /\ link[held[d]] # "up"
    /\ link' = [link EXCEPT ![held[d]] = "done"]
    /\ Goto(d, "close")
    /\ failWith' = [failWith EXCEPT ![d] = "broken"]
    /\ attempts' = [attempts EXCEPT ![d] = @ + 1]
    /\ UNCHANGED <<registryVars, held, snapSeq, snapReuse, watch, untouchedByDispatch>>

DispatchMarkActive(d) ==
    /\ pc[d] = "mark"
    /\ attempts' = [attempts EXCEPT ![d] = 0]
    /\ IF CanMarkActive(held[d])
       THEN /\ MarkActive(held[d])
            /\ Goto(d, "traffic")
            /\ UNCHANGED failWith
       ELSE /\ Goto(d, "close")
            /\ failWith' = [failWith EXCEPT ![d] = "broken"]
            /\ UNCHANGED registryVars
    /\ UNCHANGED <<held, snapSeq, snapReuse, link, watch, untouchedByDispatch>>

\* Open handshake and relay: both succeed on a live tunnel ...
TrafficSucceeds(d) ==
    /\ pc[d] = "traffic"
    /\ link[held[d]] # "done"
    /\ Goto(d, "recycle")
    /\ UNCHANGED <<registryVars, held, snapSeq, snapReuse, failWith, attempts,
                   link, watch, untouchedByDispatch>>

\* ... and either may fail on any: a reject, a timeout, a reset, a lost peer.
TrafficFails(d) ==
    /\ pc[d] = "traffic"
    /\ GiveUp(d, "broken")
    /\ UNCHANGED <<registryVars, link, watch, untouchedByDispatch>>

IsFinal(d) == snapReuse[d] + 1 >= MaxReuse

\* recycleTunnelReusable: the tunnel is unsafe, not recyclable or dirty, or the
\* handshake of a final round succeeds: the tunnel is closed.
RecycleCloses(d) ==
    /\ pc[d] = "recycle"
    /\ GiveUp(d, "closed")
    /\ UNCHANGED <<registryVars, link, watch, untouchedByDispatch>>

\* The handshake is refused, times out or breaks.
RecycleFails(d) ==
    /\ pc[d] = "recycle"
    /\ GiveUp(d, "broken")
    /\ UNCHANGED <<registryVars, link, watch, untouchedByDispatch>>

\* The Agent accepted the recycle of a round that is not the last.
RecycleAccepted(d) ==
    /\ pc[d] = "recycle"
    /\ link[held[d]] # "done"
    /\ ~IsFinal(d)
    /\ Goto(d, "commit")
    /\ UNCHANGED <<registryVars, held, snapSeq, snapReuse, failWith, attempts,
                   link, watch, untouchedByDispatch>>

\* (A mutant: a recycle that is refused is waited for.)
CommitRecycleWaits(d) ==
    /\ pc[d] = "commit"
    /\ MarkIdleAfterRecycle(held[d], snapSeq[d] + 1)
    /\ Finish(d)
    /\ UNCHANGED <<link, watch, untouchedByDispatch>>

\* MarkIdleAfterRecycle; a refusal is only reported to the caller.
CommitRecycle(d) ==
    /\ pc[d] = "commit"
    /\ IF CanMarkIdle(held[d], snapSeq[d] + 1)
       THEN MarkIdleAfterRecycle(held[d], snapSeq[d] + 1)
       ELSE UNCHANGED registryVars
    /\ Finish(d)
    /\ UNCHANGED <<link, watch, untouchedByDispatch>>

CloseLink(d) ==
    /\ pc[d] = "close"
    /\ link' = [link EXCEPT ![held[d]] = "done"]
    /\ Goto(d, "terminal")
    /\ UNCHANGED <<registryVars, held, snapSeq, snapReuse, failWith, attempts,
                   watch, untouchedByDispatch>>

DispatchMarkTerminal(d) ==
    /\ pc[d] = "terminal"
    /\ IF CanMarkTerminal(held[d], failWith[d])
       THEN /\ MarkTerminal(held[d], failWith[d])
            /\ UNCHANGED attempts
       ELSE /\ attempts' = [attempts EXCEPT ![d] = 0]
            /\ UNCHANGED registryVars
    /\ Goto(d, "remove")
    /\ UNCHANGED <<held, snapSeq, snapReuse, failWith, link, watch,
                   untouchedByDispatch>>

\* After a stale tunnel the acquirer tries again, unless recycling it failed;
\* any other dispatch is over.
DispatchRemove(d) ==
    /\ pc[d] = "remove"
    /\ IF CanRemoveTerminal(held[d])
       THEN RemoveTerminal(held[d])
       ELSE UNCHANGED registryVars
    /\ Goto(d, "start")
    /\ held'      = [held EXCEPT ![d] = NoTunnel]
    /\ snapSeq'   = [snapSeq EXCEPT ![d] = 0]
    /\ snapReuse' = [snapReuse EXCEPT ![d] = 0]
    /\ attempts'  = [attempts EXCEPT ![d] =
                        IF CanRemoveTerminal(held[d]) THEN @ ELSE 0]
    /\ UNCHANGED <<failWith, link, watch, untouchedByDispatch>>

(***************************************************************************)
(* The watcher of an accepted tunnel (watchAcceptedTunnelLifecycle).       *)
(***************************************************************************)
untouchedByWatcher == <<accept, sessionVars, toClose, dispatchVars>>

WatchGoto(t, label) == watch' = [watch EXCEPT ![t] = label]

\* Done() fired: go and recycle the tunnel.
WatchDone(t) ==
    /\ watch[t] = "watching"
    /\ link[t] = "done"
    /\ WatchGoto(t, "check")
    /\ UNCHANGED <<registryVars, link, untouchedByWatcher>>

\* (A mutant: idle tunnels are not probed.)
WatchTickReserved(t) ==
    /\ watch[t] = "watching"
    /\ IF ~Registered(t)
       THEN WatchGoto(t, "exit")
       ELSE tstate[t] = "reserved" /\ t \in Probed /\ WatchGoto(t, "probing")
    /\ UNCHANGED <<registryVars, link, untouchedByWatcher>>

\* The ticker: leave if the record is gone, probe if it is idle or reserved,
\* and leave an active tunnel to its dispatch.  Without probe support the
\* answer is "unsupported" and the loop goes on.
WatchTick(t) ==
    /\ watch[t] = "watching"
    /\ IF ~Registered(t)
       THEN WatchGoto(t, "exit")
       ELSE /\ tstate[t] \in {"idle", "reserved"}
            /\ t \in Probed
            /\ WatchGoto(t, "probing")
    /\ UNCHANGED <<registryVars, link, untouchedByWatcher>>

WatchProbe(t) ==
    /\ watch[t] = "probing"
    /\ IF link[t] = "up"
       THEN /\ WatchGoto(t, "watching")
            /\ UNCHANGED link
       ELSE /\ WatchGoto(t, "check")
            /\ link' = [link EXCEPT ![t] = "done"]
    /\ UNCHANGED <<registryVars, untouchedByWatcher>>

\* recycleAcceptedIdleTunnel: look the record up ...
WatchCheck(t) ==
    /\ watch[t] = "check"
    /\ WatchGoto(t, IF tstate[t] \in {"idle", "reserved"} THEN "break" ELSE "exit")
    /\ UNCHANGED <<registryVars, link, untouchedByWatcher>>

\* ... mark it broken, a refusal being ignored ...
WatchBreak(t) ==
    /\ watch[t] = "break"
    /\ IF CanMarkTerminal(t, "broken")
       THEN MarkTerminal(t, "broken")
       ELSE UNCHANGED registryVars
    /\ WatchGoto(t, "remove")
    /\ UNCHANGED <<link, untouchedByWatcher>>

\* ... and remove it.
WatchRemove(t) ==
    /\ watch[t] = "remove"
    /\ IF CanRemoveTerminal(t)
       THEN RemoveTerminal(t)
       ELSE UNCHANGED registryVars
    /\ WatchGoto(t, "exit")
    /\ UNCHANGED <<link, untouchedByWatcher>>

(***************************************************************************)
(* Sessions.  What drives their states is BridgeSessions' subject: here a  *)
(* session is ACTIVE or not, leaves ACTIVE by a state change followed by a *)
(* purge, and may be brought back by a heartbeat.                          *)
(***************************************************************************)
untouchedBySession == <<link, accept, dispatchVars, watch>>

Deactivate(s) ==
    /\ s \in active
    /\ active'  = active \ {s}
    /\ purging' = purging \cup {s}
    /\ UNCHANGED <<registryVars, toClose, untouchedBySession>>

Reactivate(s) ==
    /\ s \notin active
    /\ active' = active \cup {s}
    /\ UNCHANGED <<registryVars, purging, toClose, untouchedBySession>>

Purge(s) ==
    /\ s \in purging
    /\ purging' = purging \ {s}
    /\ toClose' = toClose \cup OfSession(s)
    /\ PurgeBySession(s)
    /\ UNCHANGED <<active, untouchedBySession>>

\* A periodic pool report asks for as many idle tunnels to be recycled as the
\* Bridge held beyond the Agent's count when it looked; since then both may
\* have moved.
TrimIdle(s, limit) ==
    /\ \E ts \in SUBSET IdleOf(s) :
        /\ ts # {}
        /\ RecycleIdleBySession(s, limit, ts)
        /\ toClose' = toClose \cup ts
    /\ UNCHANGED <<sessionVars, untouchedBySession>>

\* The Close that follows a purge or a trim.
CloseTaken(t) ==
    /\ t \in toClose
    /\ toClose' = toClose \ {t}
    /\ link'    = [link EXCEPT ![t] = "done"]
    /\ UNCHANGED <<registryVars, accept, sessionVars, dispatchVars, watch>>

(***************************************************************************)
(* The specification.                                                      *)
(***************************************************************************)
AcceptorNext == \E t \in Tunnels : ResolveOwner(t) \/ Register(t)

DispatchNext(d) ==
    \/ Acquire(d) \/ AcquireFails(d) \/ ProbeOk(d) \/ ProbeStale(d)
    \/ DispatchMarkActive(d) \/ TrafficSucceeds(d) \/ TrafficFails(d)
    \/ RecycleCloses(d) \/ RecycleFails(d) \/ RecycleAccepted(d)
    \/ CommitRecycle(d) \/ CloseLink(d) \/ DispatchMarkTerminal(d)
    \/ DispatchRemove(d)

WatcherNext(t) ==
    \/ WatchDone(t) \/ WatchTick(t) \/ WatchProbe(t)
    \/ WatchCheck(t) \/ WatchBreak(t) \/ WatchRemove(t)

SessionNext ==
    \/ \E s \in Sessions : Deactivate(s) \/ Reactivate(s) \/ Purge(s)
    \/ \E s \in Sessions, limit \in 1..Cardinality(Tunnels) : TrimIdle(s, limit)
    \/ \E t \in Tunnels : CloseTaken(t)

Next ==
    \/ AcceptorNext
    \/ \E d \in Dispatches : DispatchNext(d)
    \/ \E t \in Tunnels : WatcherNext(t) \/ PeerDrop(t)
    \/ SessionNext

Spec == Init /\ [][Next]_vars

\* Fairness: every goroutine that can run goes on running; each wait of a
\* dispatch ends, because the open handshake, the relay and the recycle are
\* bounded by timeouts or by the request's context.  Nobody has to send a
\* request, dial, drop a connection, change a session or purge it.
Proceed(d) == Holding(d) /\ DispatchNext(d)

FairSpec ==
    /\ Spec
    /\ \A d \in Dispatches : WF_vars(Proceed(d))
    /\ \A t \in Tunnels : WF_vars(WatcherNext(t)) /\ WF_vars(CloseTaken(t))

(***************************************************************************)
(* Safety.                                                                 *)
(***************************************************************************)
\* Two requests never have their hands on the same tunnel, whatever the
\* watchers, purges and trims do meanwhile: AcquireIdle hands a tunnel out
\* again only after its holder committed a recycle or it was never taken.
Exclusive ==
    \A d, e \in Dispatches :
        Holding(d) /\ Holding(e) /\ held[d] = held[e] => d = e

\* No record is stuck out of the pool: one that is reserved or active has a
\* dispatch that will still recycle or remove it, and a terminal one has a
\* dispatch or a watcher whose next step is RemoveTerminal.
NoLeak ==
    \A t \in Tunnels :
        /\ tstate[t] = "reserved" =>
              \E d \in Dispatches :
                  held[d] = t /\ pc[d] \in {"probe", "mark", "close", "terminal"}
        /\ tstate[t] = "active" =>
              \E d \in Dispatches :
                  /\ held[d] = t
                  /\ pc[d] \in {"traffic", "recycle", "commit", "close", "terminal"}
        /\ tstate[t] \in Terminal =>
              \/ watch[t] = "remove"
              \/ \E d \in Dispatches : held[d] = t /\ pc[d] = "remove"

\* A tunnel carries at most maxReuseCount traffics: the snapshot a dispatch
\* decides with is as recent as the record, if the record still exists, and
\* the two counters of a record advance together.
ReuseBound ==
    /\ \A t \in Tunnels :
          Registered(t) => recycleSeq[t] = reuseCount[t] /\ reuseCount[t] < MaxReuse
    /\ \A d \in Dispatches :
          Holding(d) /\ Registered(held[d]) =>
              snapSeq[d] = recycleSeq[held[d]] /\ snapReuse[d] = reuseCount[held[d]]

\* No connection outlives its record unnoticed: once the acceptor is done with
\* a tunnel, an open link without a record is still to be closed by whoever
\* took the record out.
NoOrphanLink ==
    \A t \in Tunnels :
        accept[t] = "done" /\ link[t] \in {"up", "cut"} /\ ~Registered(t) =>
            t \in toClose

\* The registry with all its actors implements the lease of TunnelLease: a
\* tunnel that a purge, a trim, a watcher or its dispatch took out is gone for
\* good, and a late MarkIdleAfterRecycle, MarkActive or MarkBroken neither
\* brings it back nor gives it to anyone.
IdleNow  == {t \in Tunnels : tstate[t] = "idle"}
LentNow  == [d \in Dispatches |->
                {t \in Tunnels : tstate[t] \in {"reserved", "active"} /\ held[d] = t}]
GoneNow  == {t \in Tunnels : accept[t] = "done" /\ tstate[t] \in Terminal \cup {"none"}}

Lease == INSTANCE TunnelLease
            WITH idle <- IdleNow, lent <- LentNow, gone <- GoneNow, rounds <- reuseCount

ImplementsLease == Lease!Spec

(***************************************************************************)
(* Liveness.                                                               *)
(***************************************************************************)
\* Every request gives its tunnel back, one way or the other.
DispatchEnds == \A d \in Dispatches : []<>~Holding(d)

\* Every connection the Bridge has taken out of its registry gets closed.
GoneGetsClosed ==
    \A t \in Tunnels :
        []<>(accept[t] = "done" /\ ~Registered(t) => link[t] = "done")

\* A TCP tunnel whose peer vanishes while it waits in the pool does not wait
\* there unnoticed: its watcher probes it, or a dispatch takes it.
DeadIdleNoticed ==
    \A t \in Tunnels :
        []<>~(tstate[t] = "idle" /\ link[t] = "cut")

\* No connection stays that nobody can use: neither one out of the registry nor, in
\* it, one whose peer is gone.
LostLinksGo == GoneGetsClosed /\ DeadIdleNoticed
=============================================================================
