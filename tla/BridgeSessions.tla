--------------------------- MODULE BridgeSessions ---------------------------
(***************************************************************************)
(* The Bridge's session registry (registry/session_registry.go) and the    *)
(* goroutines that write it (app/control_plane.go, auth/control_auth.go,   *)
(* app/admin_runtime_ops.go):                                              *)
(*                                                                         *)
(*  - one goroutine per control channel: hello, authentication, then       *)
(*    heartbeats and resource messages, until the channel ends;            *)
(*  - the sweeper of silent sessions;                                      *)
(*  - the administrator's drain.                                           *)
(*                                                                         *)
(* A channel authenticates at most once and its session ID is fresh, so a  *)
(* session is named by its channel and its record never changes epoch: the *)
(* code's epoch comparisons for one session ID always agree.  Each         *)
(* registry call is one step.  What a session owns here is its tunnels     *)
(* (registered or not; TunnelRegistry has the details) and the instance    *)
(* its connector publishes, one per connector.                             *)
(***************************************************************************)
EXTENDS Naturals

CONSTANTS
    Sessions,     \* control channels, and the session each may commit
    Connectors,
    ConnectorOf,  \* the connector that opens the channel
    Messages,     \* business messages the Agents send, ...
    Reports,      \* ... and session_state values in their heartbeats
    Sweeper,      \* the goroutine of runSessionLifecycleLoop
    Drains,       \* the administrator's drain requests
    NoSession

Workers == Sessions \cup Drains \cup {Sweeper}

ASSUME SessionsAssumption ==
    /\ ConnectorOf \in [Sessions -> Connectors]
    /\ Messages \subseteq {"heartbeat", "publish", "unpublish", "health"}
    /\ Reports \subseteq {"ACTIVE", "DRAINING"}
    /\ NoSession \notin Sessions
    /\ Sweeper \notin Sessions \cup Drains
    /\ Sessions \cap Drains = {}

VARIABLES
    state,    \* the record's State; "NONE" before it is committed
    epoch,    \* epoch assigned by the welcome, which the record takes over
    current,  \* byConnector
    quiet,    \* sessions not refreshed for a TTL (heartbeat, or staleTTL)
    pool,     \* sessions with tunnels in the tunnel registry
    owner,    \* session of each connector's published instance, or NoSession
    status,   \* InstanceStatus of that instance
    pc,       \* where each control channel is
    target,   \* state that transitionSessionState is about to mark
    writes,   \* InstanceStatus a handler is about to write
    phase,    \* where each worker is in applySessionLifecycleEffects
    on,       \* the session it applies them to
    as,       \* the InstanceStatus it applies
    swept,    \* sessions of the current sweep whose effects are to come
    drain,    \* where each drain request is
    drained   \* the session it is about to mark

registryVars == <<state, current, quiet>>
serviceVars  == <<owner, status>>
channelVars  == <<epoch, pc, target, writes>>
effectVars   == <<phase, on, as>>
drainVars    == <<drain, drained>>
vars == <<registryVars, pool, serviceVars, channelVars, effectVars, swept,
          drainVars>>

Live  == {"ACTIVE", "DRAINING"}
Ended == {"STALE", "FAILED", "CLOSED"}

InstanceStatuses == {"ACTIVE", "INACTIVE", "STALE"}

TypeOK ==
    /\ state   \in [Sessions -> Live \cup Ended \cup {"NONE"}]
    /\ epoch   \in [Sessions -> Nat]
    /\ current \in [Connectors -> Sessions \cup {NoSession}]
    /\ quiet   \in SUBSET Sessions
    /\ pool    \in SUBSET Sessions
    /\ owner   \in [Connectors -> Sessions \cup {NoSession}]
    /\ status  \in [Connectors -> InstanceStatuses]
    /\ pc      \in [Sessions -> {"open", "welcomed", "ack", "ready", "report",
                                 "read", "commit", "upsert",
                                 "remove", "mark", "gone"}]
    /\ target  \in [Sessions -> {"DRAINING", "FAILED", "CLOSED"}]
    /\ writes  \in [Sessions -> InstanceStatuses]
    /\ phase   \in [Workers -> {"none", "check", "apply", "purge"}]
    /\ on      \in [Workers -> Sessions \cup {NoSession}]
    /\ as      \in [Workers -> InstanceStatuses]
    /\ swept   \in SUBSET Sessions
    /\ drain   \in [Drains -> {"new", "mark", "done"}]
    /\ drained \in [Drains -> Sessions \cup {NoSession}]

Init ==
    /\ state   = [s \in Sessions |-> "NONE"]
    /\ epoch   = [s \in Sessions |-> 0]
    /\ current = [c \in Connectors |-> NoSession]
    /\ quiet   = {}
    /\ pool    = {}
    /\ owner   = [c \in Connectors |-> NoSession]
    /\ status  = [c \in Connectors |-> "INACTIVE"]
    /\ pc      = [s \in Sessions |-> "open"]
    /\ target  = [s \in Sessions |-> "FAILED"]
    /\ writes  = [s \in Sessions |-> "ACTIVE"]
    /\ phase   = [w \in Workers |-> "none"]
    /\ on      = [w \in Workers |-> NoSession]
    /\ as      = [w \in Workers |-> "INACTIVE"]
    /\ swept   = {}
    /\ drain   = [a \in Drains |-> "new"]
    /\ drained = [a \in Drains |-> NoSession]

(***************************************************************************)
(* Lifecycle effects.  A worker is in them while phase # "none", and does  *)
(* nothing else meanwhile.                                                 *)
(***************************************************************************)
Goto(s, label) == pc' = [pc EXCEPT ![s] = label]

Idle(w) == phase[w] = "none"

\* DRAINING takes a session's instances out of service, the ended states keep
\* them for the record only.
Withdrawn(st) == IF st = "DRAINING" THEN "INACTIVE" ELSE "STALE"

StartEffects(w, s, st, first) ==
    /\ phase' = [phase EXCEPT ![w] = first]
    /\ on'    = [on EXCEPT ![w] = s]
    /\ as'    = [as EXCEPT ![w] = st]

\* isCurrentConnectorSession: only the connector's current session has its
\* instances withdrawn.
CheckCurrent(w) ==
    /\ phase[w] = "check"
    /\ phase' = [phase EXCEPT ![w] =
                    IF current[ConnectorOf[on[w]]] = on[w] THEN "apply" ELSE "purge"]
    /\ UNCHANGED <<registryVars, pool, serviceVars, channelVars, on, as,
                   swept, drainVars>>

\* A mutant: MarkLifecycleByConnectorAndSession without its session filter.
AffectedByConnector(s, c) == c = ConnectorOf[s] /\ owner[c] # NoSession

\* The instances MarkLifecycleByConnectorAndSession selects.
Affected(s, c) == c = ConnectorOf[s] /\ owner[c] = s

ApplyLifecycle(w) ==
    /\ phase[w] = "apply"
    /\ status' = [c \in Connectors |->
                     IF Affected(on[w], c) THEN as[w] ELSE status[c]]
    /\ phase' = [phase EXCEPT ![w] = "purge"]
    /\ UNCHANGED <<registryVars, pool, owner, channelVars, on, as, swept,
                   drainVars>>

\* PurgeBySession ends the effects.
PurgePool(w) ==
    /\ phase[w] = "purge"
    /\ pool'  = pool \ {on[w]}
    /\ phase' = [phase EXCEPT ![w] = "none"]
    /\ on'    = [on EXCEPT ![w] = NoSession]
    /\ as'    = [as EXCEPT ![w] = "INACTIVE"]
    /\ UNCHANGED <<registryVars, serviceVars, channelVars, swept, drainVars>>

(***************************************************************************)
(* CommitAuthoritative, and the effects on a session it pushes aside.      *)
(***************************************************************************)
Previous(s) == current[ConnectorOf[s]]

\* Whether s may become its connector's current session.
CanCommit(s) ==
    Previous(s) \notin {NoSession, s} =>
        state[Previous(s)] \in Ended \/ epoch[Previous(s)] < epoch[s]

\* PreviousStateChanged: another, live session is pushed aside.
PushesAside(s) ==
    /\ Previous(s) \notin {NoSession, s}
    /\ state[Previous(s)] \in Live

\* Two mutants: the session pushed aside keeps its state; its effects are
\* forgotten.
CommitKeepsPrevious(s) ==
    /\ state'   = [state EXCEPT ![s] = "ACTIVE"]
    /\ current' = [current EXCEPT ![ConnectorOf[s]] = s]
    /\ quiet'   = quiet \ {s}
    /\ IF PushesAside(s) THEN StartEffects(s, Previous(s), "INACTIVE", "apply")
                         ELSE UNCHANGED effectVars

CommitSkipsEffects(s) ==
    /\ state'   = [t \in Sessions |->
                      IF t = s THEN "ACTIVE"
                      ELSE IF PushesAside(s) /\ t = Previous(s) THEN "DRAINING"
                      ELSE state[t]]
    /\ current' = [current EXCEPT ![ConnectorOf[s]] = s]
    /\ quiet'   = quiet \ {s}
    /\ UNCHANGED effectVars

\* A takeover withdraws the previous session's instances without asking whether
\* it is still current.
CommitAuthoritative(s) ==
    /\ state'   = [t \in Sessions |->
                      IF t = s THEN "ACTIVE"
                      ELSE IF PushesAside(s) /\ t = Previous(s) THEN "DRAINING"
                      ELSE state[t]]
    /\ current' = [current EXCEPT ![ConnectorOf[s]] = s]
    /\ quiet'   = quiet \ {s}
    /\ IF PushesAside(s) THEN StartEffects(s, Previous(s), "INACTIVE", "apply")
                         ELSE UNCHANGED effectVars

\* upsertActiveSession: a refused commit changes nothing, and nobody is told.
UpsertActive(s) ==
    \/ CanCommit(s) /\ CommitAuthoritative(s)
    \/ ~CanCommit(s) /\ UNCHANGED <<registryVars, effectVars>>

(***************************************************************************)
(* A control channel: the handshake.                                       *)
(***************************************************************************)
\* ConnectorHello: the welcome assigns the epoch after the current session's.
Hello(s) ==
    /\ pc[s] = "open"
    /\ epoch' = [epoch EXCEPT ![s] =
                    IF Previous(s) = NoSession THEN 1 ELSE epoch[Previous(s)] + 1]
    /\ Goto(s, "welcomed")
    /\ UNCHANGED <<registryVars, pool, serviceVars, target, writes, effectVars,
                   swept, drainVars>>

\* The connector-scoped lock of AuthenticateAndCommit is free.
AuthLockFree(s) ==
    \A t \in Sessions : ConnectorOf[t] = ConnectorOf[s] => pc[t] # "ack"

\* ConnectorAuth with a valid token: the epoch check under the lock is the one
\* the commit makes again, so one step stands for both.
Auth(s) ==
    /\ pc[s] = "welcomed" /\ Idle(s)
    /\ AuthLockFree(s)
    /\ CanCommit(s)
    /\ CommitAuthoritative(s)
    /\ Goto(s, "ack")
    /\ UNCHANGED <<pool, serviceVars, epoch, target, writes, swept, drainVars>>

\* Superseded epoch, rate limit, ban or bad token: the Agent gives up the
\* channel, which never carried a session.
AuthRejected(s) ==
    /\ pc[s] = "welcomed"
    /\ Goto(s, "gone")
    /\ UNCHANGED <<registryVars, pool, serviceVars, epoch, target, writes,
                   effectVars, swept, drainVars>>

\* After the commit callback the coordinator looks whether s is still current;
\* if not it reports "auth commit is not authoritative" and the channel stays
\* unauthenticated: when it ends, nothing marks the session.
AuthAck(s) ==
    /\ pc[s] = "ack" /\ Idle(s)
    /\ Goto(s, IF current[ConnectorOf[s]] = s THEN "ready" ELSE "gone")
    /\ UNCHANGED <<registryVars, pool, serviceVars, epoch, target, writes,
                   effectVars, swept, drainVars>>

(***************************************************************************)
(* A control channel: frames after the handshake.                          *)
(***************************************************************************)
\* Ping and pong frames refresh the record, in whatever state it is.
Ping(s) ==
    /\ pc[s] = "ready" /\ Idle(s)
    /\ s \in quiet
    /\ quiet' = quiet \ {s}
    /\ UNCHANGED <<state, current, pool, serviceVars, channelVars, effectVars,
                   swept, drainVars>>

\* A tunnel of the Agent is registered.  It was given its owner, then an ACTIVE
\* session, some time before: whatever has become of the session meanwhile.
RegisterTunnel(s) ==
    /\ state[s] # "NONE"
    /\ s \notin pool
    /\ pool' = pool \cup {s}
    /\ UNCHANGED <<registryVars, serviceVars, channelVars, effectVars, swept,
                   drainVars>>

\* dispatchEnvelope starts every business message with
\* upsertSessionFromEnvelope, which first reads the record: unless it is
\* ACTIVE, it is left alone.
ReadSession(s) ==
    /\ pc[s] = "ready" /\ Idle(s)
    /\ Goto(s, IF state[s] = "ACTIVE" THEN "commit" ELSE "read")
    /\ UNCHANGED <<registryVars, pool, serviceVars, epoch, target, writes,
                   effectVars, swept, drainVars>>

\* ... and otherwise committed, without another look at it.
CommitRead(s) ==
    /\ pc[s] = "commit" /\ Idle(s)
    /\ UpsertActive(s)
    /\ Goto(s, "read")
    /\ UNCHANGED <<pool, serviceVars, epoch, target, writes, swept, drainVars>>

\* The message is a heartbeat: whatever the record's state, it is committed as
\* ACTIVE, then moved to the state the heartbeat reports.
Heartbeat(s, reported) ==
    /\ "heartbeat" \in Messages
    /\ pc[s] = "read" /\ Idle(s)
    /\ UpsertActive(s)
    /\ Goto(s, IF reported = "ACTIVE" THEN "ready" ELSE "report")
    /\ UNCHANGED <<pool, serviceVars, epoch, target, writes, swept, drainVars>>

\* The message changes a resource: its handler accepts it from an ACTIVE session
\* only.  What it then reads of the instance is read in the same step: a change
\* in between would only be read back.
AcceptsEvent(s, kind) ==
    /\ kind \in Messages
    /\ pc[s] = "read" /\ Idle(s)
    /\ state[s] = "ACTIVE"

\* PublishService: the instance becomes s's and ACTIVE ...
Publish(s) ==
    /\ AcceptsEvent(s, "publish")
    /\ Goto(s, "upsert")
    /\ UNCHANGED <<registryVars, pool, serviceVars, epoch, target, writes,
                   effectVars, swept, drainVars>>

\* ... ServiceHealthReport: an instance of s is read to be written back with
\* another health ...
HealthReport(s) ==
    /\ AcceptsEvent(s, "health")
    /\ owner[ConnectorOf[s]] = s
    /\ writes' = [writes EXCEPT ![s] = status[ConnectorOf[s]]]
    /\ Goto(s, "upsert")
    /\ UNCHANGED <<registryVars, pool, serviceVars, epoch, target, effectVars,
                   swept, drainVars>>

\* ... UnpublishService: an instance of s is found, to be removed by its ID ...
Unpublish(s) ==
    /\ AcceptsEvent(s, "unpublish")
    /\ owner[ConnectorOf[s]] = s
    /\ Goto(s, "remove")
    /\ UNCHANGED <<registryVars, pool, serviceVars, epoch, target, writes,
                   effectVars, swept, drainVars>>

\* ... or the handler refuses the event, or it changes nothing modelled here.
RejectEvent(s) ==
    /\ pc[s] = "read" /\ Idle(s)
    /\ Goto(s, "ready")
    /\ UNCHANGED <<registryVars, pool, serviceVars, epoch, target, writes,
                   effectVars, swept, drainVars>>

UpsertInstance(s) ==
    /\ pc[s] = "upsert"
    /\ owner'  = [owner EXCEPT ![ConnectorOf[s]] = s]
    /\ status' = [status EXCEPT ![ConnectorOf[s]] = writes[s]]
    /\ writes' = [writes EXCEPT ![s] = "ACTIVE"]
    /\ Goto(s, "ready")
    /\ UNCHANGED <<registryVars, pool, epoch, target, effectVars, swept,
                   drainVars>>

RemoveInstance(s) ==
    /\ pc[s] = "remove"
    /\ owner'  = [owner EXCEPT ![ConnectorOf[s]] = NoSession]
    /\ status' = [status EXCEPT ![ConnectorOf[s]] = "INACTIVE"]
    /\ Goto(s, "ready")
    /\ UNCHANGED <<registryVars, pool, epoch, target, writes, effectVars,
                   swept, drainVars>>

(***************************************************************************)
(* transitionSessionState reads the record and, unless it has the target   *)
(* state already, marks it: whatever it has become in between.             *)
(***************************************************************************)
Transition(s, to, next) ==
    /\ IF state[s] = to THEN Goto(s, next) /\ UNCHANGED target
                        ELSE Goto(s, "mark") /\ target' = [target EXCEPT ![s] = to]
    /\ UNCHANGED <<registryVars, pool, serviceVars, epoch, writes, effectVars,
                   swept, drainVars>>

\* After a heartbeat that reports another state than ACTIVE.
ReportState(s, reported) == pc[s] = "report" /\ Idle(s) /\ Transition(s, reported, "ready")

\* The channel ends: closeSessionFromState, or markSessionFailedFromState after
\* an error.
EndChannel(s, to) == pc[s] = "ready" /\ Idle(s) /\ Transition(s, to, "gone")

MarkState(s) ==
    /\ pc[s] = "mark" /\ Idle(s)
    /\ Goto(s, IF target[s] = "DRAINING" THEN "ready" ELSE "gone")
    /\ target' = [target EXCEPT ![s] = "FAILED"]
    /\ state' = [state EXCEPT ![s] = target[s]]
    /\ StartEffects(s, s, Withdrawn(target[s]), "check")
    /\ UNCHANGED <<current, quiet, pool, serviceVars, epoch, writes, swept, drainVars>>

(***************************************************************************)
(* The sweeper: sweepSessionLifecycle.                                     *)
(***************************************************************************)
\* A TTL passes without a refresh of s.
Silence(s) ==
    /\ s \notin quiet
    /\ state[s] \in Live \cup {"STALE"}
    /\ quiet' = quiet \cup {s}
    /\ UNCHANGED <<state, current, pool, serviceVars, channelVars, effectVars,
                   swept, drainVars>>

\* A pass that finds nothing changes nothing.
Sweep(found, to) ==
    /\ swept = {} /\ Idle(Sweeper)
    /\ found # {}
    /\ state' = [s \in Sessions |-> IF s \in found THEN to ELSE state[s]]
    /\ quiet' = quiet \ found
    /\ swept' = found
    /\ UNCHANGED <<current, pool, serviceVars, channelVars, effectVars, drainVars>>

\* A mutant: only the silence of ACTIVE sessions is noticed.
SilentActive == {s \in quiet : state[s] = "ACTIVE"}

Silent == {s \in quiet : state[s] \in Live}

SweepHeartbeatTimeout == Sweep(Silent, "STALE")

SweepStaleToClosed == Sweep({s \in quiet : state[s] = "STALE"}, "CLOSED")

SweepEffects(s) ==
    /\ s \in swept /\ Idle(Sweeper)
    /\ swept' = swept \ {s}
    /\ StartEffects(Sweeper, s, "STALE", "check")
    /\ UNCHANGED <<registryVars, pool, serviceVars, channelVars, drainVars>>

(***************************************************************************)
(* The administrator's drain: drainSessionForAdmin.                        *)
(***************************************************************************)
\* It reads the record; one that is not ACTIVE keeps its state, and the effects
\* follow all the same.
DrainRead(a, s) ==
    /\ drain[a] = "new"
    /\ state[s] # "NONE"
    /\ IF state[s] = "ACTIVE"
       THEN /\ drain'   = [drain EXCEPT ![a] = "mark"]
            /\ drained' = [drained EXCEPT ![a] = s]
            /\ UNCHANGED effectVars
       ELSE /\ drain' = [drain EXCEPT ![a] = "done"]
            /\ StartEffects(a, s, "INACTIVE", "check")
            /\ UNCHANGED drained
    /\ UNCHANGED <<registryVars, pool, serviceVars, channelVars, swept>>

DrainMark(a) ==
    /\ drain[a] = "mark"
    /\ state'   = [state EXCEPT ![drained[a]] = "DRAINING"]
    /\ StartEffects(a, drained[a], "INACTIVE", "check")
    /\ drain'   = [drain EXCEPT ![a] = "done"]
    /\ drained' = [drained EXCEPT ![a] = NoSession]
    /\ UNCHANGED <<current, quiet, pool, serviceVars, channelVars, swept>>

(***************************************************************************)
(* The specification.                                                      *)
(***************************************************************************)
EffectsNext(w) == CheckCurrent(w) \/ ApplyLifecycle(w) \/ PurgePool(w)

\* What a channel's goroutine does once it has a frame in hand, or none to
\* come.
ServeFrame(s) ==
    \/ AuthAck(s) \/ CommitRead(s)
    \/ \E reported \in Reports : Heartbeat(s, reported)
    \/ Publish(s) \/ HealthReport(s) \/ Unpublish(s) \/ RejectEvent(s)
    \/ UpsertInstance(s) \/ RemoveInstance(s)
    \/ \E reported \in Reports \ {"ACTIVE"} : ReportState(s, reported)
    \/ MarkState(s)

\* What the Agent makes it do.
NextFrame(s) ==
    \/ Hello(s) \/ Auth(s) \/ AuthRejected(s)
    \/ Ping(s) \/ ReadSession(s)
    \/ \E to \in {"FAILED", "CLOSED"} : EndChannel(s, to)

SweeperNext ==
    \/ SweepHeartbeatTimeout \/ SweepStaleToClosed
    \/ \E s \in Sessions : SweepEffects(s)

DrainNext(a) == DrainMark(a) \/ \E s \in Sessions : DrainRead(a, s)

Next ==
    \/ \E w \in Workers : EffectsNext(w)
    \/ \E s \in Sessions : ServeFrame(s) \/ NextFrame(s) \/ RegisterTunnel(s) \/ Silence(s)
    \/ SweeperNext
    \/ \E a \in Drains : DrainNext(a)

Spec == Init /\ [][Next]_vars

\* Goroutines make progress, the sweeper's ticker ticks, and the TTL of a session
\* whose channel is gone expires.  No frame has to arrive, no channel to end and
\* no drain to be requested.
Fairness ==
    /\ \A w \in Workers : WF_vars(EffectsNext(w))
    /\ \A s \in Sessions : WF_vars(ServeFrame(s))
    /\ \A s \in Sessions : WF_vars(pc[s] = "gone" /\ Silence(s))
    /\ WF_vars(SweeperNext)
    /\ \A a \in Drains : WF_vars(DrainMark(a))

FairSpec == Spec /\ Fairness

(***************************************************************************)
(* Properties.                                                             *)
(***************************************************************************)
\* An ACTIVE session is its connector's current one, so a connector never has
\* two, however takeovers, late heartbeats, sweeps and drains interleave.
ActiveIsCurrent ==
    \A s \in Sessions : state[s] = "ACTIVE" => current[ConnectorOf[s]] = s

\* s need not lose its tunnels, or somebody has it on a list to purge.
Owed(s) ==
    \/ state[s] = "ACTIVE"
    \/ s \in swept
    \/ \E w \in Workers : phase[w] # "none" /\ on[w] = s

\* Tunnels of a session that leaves ACTIVE are on somebody's list to purge until
\* they are purged: no interleaving of those who move sessions forgets them.  (A
\* tunnel registered after the purge is on nobody's list.)
PurgeOwed ==
    [][\A s \in pool \cap pool' : Owed(s) => Owed(s)']_vars

\* A live session loses its connector only to a session with a higher epoch,
\* whichever way that session came to be committed.
Handover ==
    [][\A c \in Connectors :
          \/ current[c] \in {NoSession, current'[c]}
          \/ state[current[c]] \in Ended
          \/ epoch[current'[c]] > epoch[current[c]]]_vars

\* Nobody is applying, or about to apply, lifecycle effects to s.
Undisturbed(s) ==
    /\ state[s] = "ACTIVE"
    /\ s \notin swept
    /\ \A w \in Workers : on[w] # s

\* The effects still running for a previous session of the connector never
\* withdraw the instance its successor has published: only a resource message
\* can.
SuccessorKeepsInstance ==
    [][\A c \in Connectors :
          (/\ owner[c] # NoSession
           /\ Undisturbed(owner[c])
           /\ status[c] = "ACTIVE"
           /\ status'[c] # "ACTIVE") =>
             \E s \in Sessions : pc[s] \in {"upsert", "remove"} /\ pc'[s] = "ready"]_vars

\* Once its channel is gone a committed session ends up FAILED or CLOSED, even if
\* a drain, a takeover or a sweep moves it meanwhile.
GoneSettles ==
    \A s \in Sessions :
        []<>(pc[s] = "gone" => state[s] \in {"NONE", "FAILED", "CLOSED"})

\* A purge that is owed is done: with PurgeOwed, a session loses the tunnels it has
\* while it is ACTIVE, unless it is ACTIVE again and again.
DepartedPoolDrains ==
    \A s \in Sessions : []<>(s \in pool /\ Owed(s) => state[s] = "ACTIVE")

\* A session that departs is settled: its state, and its tunnels.
DepartedSettles == GoneSettles /\ DepartedPoolDrains
=============================================================================
