---------------------------- MODULE AgentPublish ----------------------------
(***************************************************************************)
(* How the agent's catalogue reaches the Bridge.  Every new session sends  *)
(* all of it, and a service added or removed through the local API is sent *)
(* at once if the channel is connected, be it in the middle of that first  *)
(* synchronisation or of the handshake.  What is published is listed,      *)
(* stamped with the session and a version of its resource, and written, in *)
(* steps that interleave with those of the other publishers.               *)
(*                                                                         *)
(* The Bridge handles a message when it is sent: a control channel keeps   *)
(* its order and has one reader, and ResourceControl has the interleavings *)
(* of several channels' handlers.  Versions are counted per service, which *)
(* keeps their order; drains, retries and the heartbeat are in             *)
(* AgentControl, health probes always answer, reports of the pool and the  *)
(* periodic scan, which send nothing about a catalogue entry that a        *)
(* synchronisation does not, are left out.                                 *)
(***************************************************************************)
EXTENDS Naturals, SequencesExt

CONSTANTS
    Services,    \* numbered in the order List sorts them by
    Adders,      \* calls of addOrUpdateService, named for what they register ...
    Removers,    \* ... and of removeService
    Subject,     \* the service of each call
    Scenarios,   \* the calls there may be, and the version per service that an
                 \* earlier process of the agent has left at the Bridge
    MaxConnects, \* bound: channels dialed, of which the last one lives
    MaxBridges,  \* bound: Bridge processes
    None, Loop   \* Loop: the control loop's goroutine

Users  == Adders \cup Removers
Actors == Users \cup {Loop}

ASSUME PublishAssumption ==
    /\ Services \subseteq Nat
    /\ Subject \in [Users -> Services]
    /\ Adders \cap Removers = {} /\ Loop \notin Users /\ None \notin Actors
    /\ Scenarios \subseteq [calls : SUBSET Users, left : [Services -> Nat]]
    /\ {MaxConnects, MaxBridges} \subseteq Nat \ {0}

VARIABLES
    catalog,    \* service -> the call that registered it, or None
    loop,       \* "down", "handshake", "sync" or "ready"
    link,       \* the current channel: "none", "up" or "broken"
    conn,       \* channels dialed
    earlier,    \* what an earlier process has left
    bridgeEpoch,\* of the session the agent takes itself to have
    stamp,      \* the publisher's session: its ID and epoch
    version,    \* service -> versions stamped by this process
    work,       \* actor -> where it is, what it has still to send, and its message
    channel,    \* the Bridge's end of each channel
    registry,   \* the Bridge's sessions, the connector's current one, instances, versions
    bridges,    \* Bridge processes so far
    raced       \* services whose last change was overtaken (history)

agentVars  == <<catalog, loop, link, conn, earlier, bridgeEpoch, stamp>>
sendVars   == <<version, work>>
bridgeVars == <<channel, registry, bridges>>
vars == <<agentVars, sendVars, bridgeVars, raced>>

\* Session IDs: each channel has one the agent makes up when it is dialed, and
\* one the Bridge gives.
Own(n)   == <<"own", n>>
Given(n) == <<"given", n>>
Old      == <<"old", 0>>

-----------------------------------------------------------------------------
(* The Bridge: operators from a registry b to what it becomes. *)

Fresh == [session |-> <<>>, current |-> None,
          instance |-> [s \in Services |-> None],
          version |-> [s \in Services |-> 0]]

\* What a connector's earlier process left: its session has ended, its instances
\* are out of service, their versions stay.
Left == [session |-> Old :> [epoch |-> 1, state |-> "ended"], current |-> Old,
         instance |-> [s \in Services |->
            IF earlier[s] = 0 THEN None
            ELSE [session |-> Old, content |-> None, active |-> FALSE, health |-> FALSE]],
         version |-> earlier]

Known(b, id)    == id \in DOMAIN b.session
With(f, k, v)   == [x \in DOMAIN f \cup {k} |-> IF x = k THEN v ELSE f[x]]
\* What a session published leaves service.
Withdrawn(b, id) ==
    [s \in Services |->
       IF b.instance[s] # None /\ b.instance[s].session = id
       THEN [b.instance[s] EXCEPT !.active = FALSE, !.health = FALSE] ELSE b.instance[s]]

\* CommitAuthoritative's refusals: a newer epoch of the ID, a current session
\* of the same or a newer epoch that has not ended.
MayCommit(b, id, epoch) ==
    /\ ~(Known(b, id) /\ b.session[id].epoch > epoch)
    /\ b.current \in {None, id} \/ b.session[b.current].epoch < epoch
                                \/ b.session[b.current].state = "ended"

\* commitAuthenticatedSession: the session becomes the connector's, the one
\* before drains and its instances leave service.
Commit(b, id, epoch) ==
    LET prev == b.current
        takes == prev \notin {None, id} /\ b.session[prev].state # "ended"
        drained == IF takes THEN [b EXCEPT !.session[prev].state = "draining", !.instance = Withdrawn(b, prev)]
                   ELSE b
    IN  IF ~MayCommit(b, id, epoch) THEN b
        ELSE [drained EXCEPT !.current = id,
                !.session = With(drained.session, id, [epoch |-> epoch, state |-> "active"])]

\* upsertSessionFromEnvelope: the envelope's session is committed, unless the
\* Bridge knows it for ended or at a newer epoch; a heartbeat then commits it
\* in any case.
SessionSeen(b, m) ==
    IF m.kind # "heartbeat" /\ Known(b, m.session.id)
       /\ \/ b.session[m.session.id].epoch > m.session.epoch
          \/ b.session[m.session.id].epoch = m.session.epoch /\ b.session[m.session.id].state # "active"
    THEN b ELSE Commit(b, m.session.id, m.session.epoch)

\* validateSessionEpoch.
SessionAllows(b, m) ==
    Known(b, m.session.id) /\ b.session[m.session.id] = [epoch |-> m.session.epoch, state |-> "active"]

\* The event guard: only a newer version is accepted.
Newer(b, m) == m.version > b.version[m.service]

\* HandlePublish: the instance is of this session from now on, its health is
\* what it was.
Published(b, m) ==
    IF ~Newer(b, m) THEN b
    ELSE [b EXCEPT !.version[m.service] = m.version,
            !.instance[m.service] =
               [session |-> m.session.id, content |-> m.content, active |-> TRUE,
                health |-> @ # None /\ @.health]]

\* HandleUnpublish: another session's instance stays.
Unpublished(b, m) ==
    LET i == b.instance[m.service] IN
    IF (i # None /\ i.session # m.session.id) \/ ~Newer(b, m) THEN b
    ELSE [b EXCEPT !.version[m.service] = m.version, !.instance[m.service] = None]

\* HandleReport, for an instance of the session.
Reported(b, m) ==
    LET i == b.instance[m.service] IN
    IF i = None \/ i.session # m.session.id THEN b
    ELSE [b EXCEPT !.instance[m.service].health = TRUE]

\* dispatchEnvelope.
Dispatched(b, m) ==
    LET seen == SessionSeen(b, m) IN
    IF m.kind = "heartbeat" \/ ~SessionAllows(seen, m) THEN seen
    ELSE CASE m.kind = "publish"   -> Published(seen, m)
           [] m.kind = "unpublish" -> Unpublished(seen, m)
           [] m.kind = "health"    -> Reported(seen, m)

\* handleFrame: before the authentication a message is ignored; after it, the
\* channel goes over to the session the envelope names.
BridgeHandles(messages) ==
    IF channel[conn].state # "authenticated" THEN UNCHANGED <<channel, registry>>
    ELSE /\ channel' = [channel EXCEPT ![conn].session = Last(messages).session.id]
         /\ registry' = FoldLeft(Dispatched, registry, messages)

\* ConnectorHello and ConnectorAuth: the connector's next epoch, committed.
Authenticate ==
    LET next == IF registry.current = None THEN 1 ELSE registry.session[registry.current].epoch + 1 IN
    /\ loop = "handshake" /\ link = "up" /\ channel[conn].state = "open"
    /\ registry' = Commit(registry, Given(conn), next)
    /\ channel' = [channel EXCEPT ![conn] = [state |-> "authenticated", session |-> Given(conn)]]
    /\ UNCHANGED <<agentVars, sendVars, bridges, raced>>

\* The Bridge learns that channel c is gone: the session it was on ends,
\* and if that is the connector's current one its instances leave service.
ChannelEnds(c) ==
    LET id == channel[c].session IN
    /\ channel[c].state \in {"open", "authenticated"}
    /\ c < conn \/ link # "up"
    /\ channel' = [channel EXCEPT ![c] = [state |-> "ended", session |-> None]]
    /\ registry' = IF ~Known(registry, id) THEN registry
                   ELSE [registry EXCEPT !.session[id].state = "ended",
                           !.instance = IF registry.current = id THEN Withdrawn(registry, id) ELSE @]
    /\ UNCHANGED <<agentVars, sendVars, bridges, raced>>

\* The Bridge keeps nothing over a restart.
BridgeRestart ==
    /\ bridges < MaxBridges /\ conn \in 1..(MaxConnects - 1)
    /\ bridges' = bridges + 1
    /\ registry' = Fresh
    /\ channel' = [c \in DOMAIN channel |-> IF channel[c].state = "unused" THEN channel[c]
                                            ELSE [state |-> "ended", session |-> None]]
    /\ link' = IF link = "up" THEN "broken" ELSE link
    /\ UNCHANGED <<catalog, loop, conn, earlier, bridgeEpoch, stamp, sendVars, raced>>

-----------------------------------------------------------------------------
(* The agent's channel *)

Idle(pc) == [pc |-> pc, todo |-> <<>>, message |-> None]

\* What actor a has listed of s, or is to withdraw of it, and not yet stamped.
Holds(a, s) ==
    \/ work[a].pc = "publish" /\ \E i \in DOMAIN work[a].todo : work[a].todo[i].service = s
    \/ a \in Removers /\ Subject[a] = s /\ work[a].message = None /\ work[a].pc \in {"check", "unpublish"}

\* connectBridgeControl and setBridgeConnected: connected from here on, under a
\* session of the agent's own.
Dial ==
    /\ loop = "down" /\ conn < MaxConnects
    /\ conn' = conn + 1 /\ link' = "up" /\ loop' = "handshake"
    /\ bridgeEpoch' = bridgeEpoch + 1
    /\ stamp' = [id |-> Own(conn'), epoch |-> bridgeEpoch']
    /\ channel' = [channel EXCEPT ![conn'].state = "open"]
    /\ UNCHANGED <<catalog, earlier, sendVars, registry, bridges, raced>>

\* applyAuthoritativeSession, when the acknowledgement is read; the first
\* synchronisation begins, with everything changed before it.
ApplyAck ==
    /\ loop = "handshake" /\ channel[conn].state = "authenticated"
    /\ loop' = "sync"
    /\ bridgeEpoch' = registry.session[Given(conn)].epoch
    /\ stamp' = [id |-> Given(conn), epoch |-> bridgeEpoch']
    /\ work' = [work EXCEPT ![Loop] = Idle("heartbeat")]
    /\ raced' = {s \in Services : \E u \in Users : Holds(u, s)}
    /\ UNCHANGED <<catalog, link, conn, earlier, version, bridgeVars>>

BreakLink ==
    /\ link = "up" /\ conn < MaxConnects
    /\ link' = "broken"
    /\ UNCHANGED <<catalog, loop, conn, earlier, bridgeEpoch, stamp, sendVars, bridgeVars, raced>>

\* A broken channel, a handshake that fails or times out, a write that times
\* out: the loop closes the channel and goes back to dialing.  The session's
\* number stays with the publisher.
Lose ==
    /\ conn < MaxConnects
    /\ \/ loop # "down" /\ link = "broken"
       \/ loop = "handshake"
       \/ loop = "sync" /\ work[Loop].message # None
    /\ loop' = "down" /\ link' = "none"
    /\ work' = [work EXCEPT ![Loop] = Idle("idle")]
    /\ UNCHANGED <<catalog, conn, earlier, bridgeEpoch, stamp, version, bridgeVars, raced>>

-----------------------------------------------------------------------------
(* Publishing *)

\* A publish of s that is stamped and not sent.  The guard refuses it after a
\* newer publish; after an unpublish only if that one was accepted.
Writing(a, s) ==
    work[a].pc = "publish" /\ work[a].message # None /\ work[a].message.service = s

Overtaken(u) ==
    LET s == Subject[u] IN
    raced' = IF \E a \in Actors \ {u} : Holds(a, s) \/ (u \in Removers /\ Writing(a, s))
             THEN raced \cup {s} ELSE raced

\* addOrUpdateService writes the catalogue ...
Add(u) ==
    /\ u \in Adders /\ work[u].pc = "new"
    /\ catalog' = [catalog EXCEPT ![Subject[u]] = u]
    /\ work' = [work EXCEPT ![u].pc = "check"]
    /\ Overtaken(u)
    /\ UNCHANGED <<loop, link, conn, earlier, bridgeEpoch, stamp, version, bridgeVars>>

\* ... removeService takes the entry out of it, if it is there ...
Delete(u) ==
    /\ u \in Removers /\ work[u].pc = "new" /\ catalog[Subject[u]] # None
    /\ catalog' = [catalog EXCEPT ![Subject[u]] = None]
    /\ work' = [work EXCEPT ![u].pc = "check"]
    /\ Overtaken(u)
    /\ UNCHANGED <<loop, link, conn, earlier, bridgeEpoch, stamp, version, bridgeVars>>

\* (A mutant: only a session that is ready is told.)
ConnectedWhenReady == loop = "ready"

\* bridgeSessionConnectedMeta.
Connected == loop # "down"

\* ... and both go on if the channel is connected.
Check(u) ==
    /\ work[u].pc = "check"
    /\ work' = [work EXCEPT ![u] =
                  Idle(IF ~Connected THEN "done" ELSE IF u \in Adders THEN "heartbeat" ELSE "unpublish")]
    /\ UNCHANGED <<agentVars, version, bridgeVars, raced>>

\* List, in the order of the keys.
Listed ==
    LET present == {s \in Services : catalog[s] # None}
        nth(i) == CHOOSE s \in present : Cardinality({t \in present : t <= s}) = i
    IN  [i \in 1..Cardinality(present) |-> [service |-> nth(i), content |-> catalog[nth(i)]]]

Message(kind, entry) ==
    [kind |-> kind, session |-> stamp, service |-> entry.service, content |-> entry.content,
     version |-> IF kind \in {"publish", "unpublish"} THEN version[entry.service] + 1 ELSE 0]

\* Publisher.Publish, for the next publish or unpublish of the actor.
Stamp(a) ==
    LET w == work[a]
        entry == IF w.pc = "publish" THEN Head(w.todo) ELSE [service |-> Subject[a], content |-> None]
    IN
    /\ w.pc \in {"publish", "unpublish"} /\ w.message = None
    /\ work' = [work EXCEPT ![a].message = Message(w.pc, entry),
                            ![a].todo = IF @ = <<>> THEN @ ELSE Tail(@)]
    /\ version' = [version EXCEPT ![entry.service] = @ + 1]
    /\ UNCHANGED <<agentVars, bridgeVars, raced>>

\* The actor has nothing left to send in this stage and goes to the next;
\* publishCatalogServices and reportCatalogHealth each list the catalogue anew.
NextStage(a, w) ==
    LET listing == CASE w.pc = "heartbeat" -> "publish" [] w.pc = "publish" -> "health" [] OTHER -> "none" IN
    CASE w.pc = "publish" /\ w.todo # <<>>    -> [w EXCEPT !.message = None]
      [] listing = "none" \/ Listed = <<>>    -> Idle(IF a = Loop THEN "idle" ELSE "done")
      [] OTHER                               -> [pc |-> listing, todo |-> Listed, message |-> None]

\* The write of messages on the channel of this moment, whatever session they
\* were stamped with.  What a broken channel takes is lost.
Written(a, messages) ==
    LET next == NextStage(a, work[a]) IN
    /\ link # "none"
    /\ work' = [work EXCEPT ![a] = next]
    /\ loop' = IF a = Loop /\ next.pc = "idle" THEN "ready" ELSE loop
    /\ IF link = "up" THEN BridgeHandles(messages) ELSE UNCHANGED <<channel, registry>>
    /\ UNCHANGED <<catalog, link, conn, earlier, bridgeEpoch, stamp, version, bridges, raced>>

\* sendBusinessControlEnvelope.
Send(a) == work[a].message # None /\ Written(a, <<work[a].message>>)

\* publishControlHeartbeat: stamped and written in one step, its session being
\* all there is to it.
SendBeat(a) ==
    /\ work[a].pc = "heartbeat"
    /\ Written(a, <<Message("heartbeat", [service |-> None, content |-> None])>>)

\* reportCatalogHealth, the reports of all that is listed together.
SendHealth(a) ==
    /\ work[a].pc = "health"
    /\ Written(a, [i \in DOMAIN work[a].todo |-> Message("health", work[a].todo[i])])

\* A user's write that fails, or times out, is given up, with the rest of its
\* synchronisation; on a channel that lives on, nobody tries again.
SendFails(u) ==
    /\ u \in Users /\ (work[u].message # None \/ work[u].pc \in {"heartbeat", "health"})
    /\ work' = [work EXCEPT ![u] = Idle("done")]
    /\ raced' = IF link = "up" THEN raced \cup {Subject[u]} ELSE raced
    /\ UNCHANGED <<agentVars, version, bridgeVars>>

-----------------------------------------------------------------------------
Init ==
    \E scenario \in Scenarios :
    /\ work = [a \in Actors |-> Idle(CASE a = Loop -> "idle" [] a \in scenario.calls -> "new" [] OTHER -> "done")]
    /\ earlier = scenario.left
    /\ registry = IF \A s \in Services : earlier[s] = 0 THEN Fresh ELSE Left
    /\ bridges = 1
    /\ channel = [c \in 1..MaxConnects |-> [state |-> "unused", session |-> None]]
    /\ catalog = [s \in Services |-> None]
    /\ loop = "down" /\ link = "none" /\ conn = 0 /\ bridgeEpoch = 0
    /\ stamp = [id |-> None, epoch |-> 0]
    /\ version = [s \in Services |-> 0]
    /\ raced = {}

Next ==
    \/ Dial \/ Authenticate \/ ApplyAck \/ BreakLink \/ Lose
    \/ BridgeRestart
    \/ \E c \in 1..MaxConnects : ChannelEnds(c)
    \/ \E a \in Actors : Stamp(a) \/ Send(a) \/ SendBeat(a) \/ SendHealth(a)
    \/ \E u \in Users : Add(u) \/ Delete(u) \/ Check(u) \/ SendFails(u)

Spec == Init /\ [][Next]_vars

-----------------------------------------------------------------------------
(* Properties *)

TypeOK ==
    /\ catalog \in [Services -> Adders \cup {None}]
    /\ loop \in {"down", "handshake", "sync", "ready"} /\ link \in {"none", "up", "broken"}
    /\ conn \in 0..MaxConnects /\ bridges \in 1..MaxBridges
    /\ \A a \in Actors : work[a].pc \in {"new", "check", "heartbeat", "publish", "health", "unpublish",
                                         "done", "idle"}
    /\ \A c \in 1..MaxConnects : channel[c].state \in {"unused", "open", "authenticated", "ended"}
    /\ registry.current \in DOMAIN registry.session \cup {None}
    /\ raced \subseteq Services

\* The session stands and nobody is publishing.
AtRest == loop = "ready" /\ link = "up" /\ \A u \in Users : work[u].pc \in {"new", "done"}

\* The Bridge takes the session it gave for the connector's.
Authoritative == registry.current = Given(conn) /\ registry.session[Given(conn)].state = "active"

Arrived(s) ==
    LET i == registry.instance[s] IN
    IF catalog[s] = None THEN i = None \/ ~i.active
    ELSE i = [session |-> Given(conn), content |-> catalog[s], active |-> TRUE, health |-> TRUE]

\* Whenever services are added, updated and removed, and the channel lost and
\* the Bridge restarted: once the session stands and the publishers have
\* finished, the Bridge has what the catalogue has, in service, of known health
\* and under this session.  (Not: what was changed between another publisher's
\* List and its stamp, or failed to be written on a channel that lived on; or what
\* an earlier process of the agent had published.)
CatalogArrives ==
    AtRest /\ Authoritative => \A s \in Services \ raced : earlier[s] = 0 => Arrived(s)

\* (Stated by the plan, and not kept: see the README.)  After a reconnection
\* the full synchronisation restores a consistent state.
ResyncRestores == AtRest /\ Authoritative => \A s \in Services \ raced : Arrived(s)

\* (Stated by the design, and not kept: see the README.)  The session
\* acknowledged to the agent is the connector's for as long as its channel lives.
AckIsAuthoritative == loop \in {"sync", "ready"} /\ link = "up" => Authoritative
=============================================================================
