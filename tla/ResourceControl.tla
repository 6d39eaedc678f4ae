-------------------------- MODULE ResourceControl --------------------------
(***************************************************************************)
(* The Bridge's side of the resource messages: the handlers of publish,    *)
(* unpublish, health, route-assign and route-revoke envelopes              *)
(* (control/publish_handler.go, health_handler.go, route_handler.go) over  *)
(* the event guard (ltfp/consistency), the service registry, the route     *)
(* registry and the admission check.                                       *)
(*                                                                         *)
(* A control channel's messages are handled one at a time; handlers of     *)
(* different channels interleave, each registry call being one step.  What *)
(* arrives is any envelope a connector may build, at any version: late,    *)
(* early, or twice.                                                        *)
(***************************************************************************)
EXTENDS Naturals, Sequences, FiniteSets

CONSTANTS
    Connectors, Sessions,
    OwnerOf,      \* the connector of the session
    Names,        \* service names, with their scope
    Instances,
    Holders,      \* the connectors that publish under the instance_id
    Wanted,       \* per name, the route its exposure asks for, or None
    RouteIDs,     \* routes a connector assigns, ...
    Assigned,     \* ... and what each assigns: match, priority, service name
    HealthValues, \* what a probe reports
    Kinds,        \* messages each session's connector sends
    Ending,       \* sessions that may end by themselves
    Capacity,     \* of the replay window
    MaxVersion,   \* bound: resource versions, per connector
    MaxServices,  \* bound: logical_service_ids generated
    None

ASSUME ResourceAssumption ==
    /\ OwnerOf \in [Sessions -> Connectors]
    /\ Holders \in [Instances -> SUBSET Connectors]
    /\ Instances \cap RouteIDs = {}
    /\ DOMAIN Wanted = Names
    /\ HealthValues \subseteq {"healthy", "unhealthy", "unknown"}
    /\ Kinds \in [Sessions -> SUBSET {"publish", "unpublish", "health", "assign", "revoke"}]
    /\ Ending \subseteq Sessions
    /\ {Capacity, MaxServices} \subseteq Nat
    /\ MaxVersion \in [Connectors -> Nat]
    /\ Capacity > 0

Services == 1..MaxServices
Keys     == Instances \cup RouteIDs
Ids      == Services \cup RouteIDs   \* an auto route is named by its service

VARIABLES
    session,  \* state in the session registry
    due,      \* ended sessions whose instances are still to be withdrawn
    services, \* logical services: name and counters
    index,    \* name -> logical_service_id
    instances,
    guard,    \* resource key -> newest version accepted
    window,   \* replay window, oldest first
    routes,   \* route ID -> match, priority and target
    handler   \* per session: the message being handled

sessionVars == <<session, due>>
serviceVars == <<services, index, instances>>
guardVars   == <<guard, window>>
vars == <<sessionVars, serviceVars, guardVars, routes, handler>>

\* key and route are what a handler has resolved, read the record it writes.
Idle == [pc |-> "idle", event |-> None,
         key |-> None, route |-> None, read |-> None]

Init ==
    /\ session = [s \in Sessions |-> "unused"]
    /\ due = {}
    /\ services = <<>>
    /\ index = [n \in Names |-> None]
    /\ instances = <<>>
    /\ guard = [k \in Keys |-> 0]
    /\ window = <<>>
    /\ routes = <<>>
    /\ handler = [s \in Sessions |-> Idle]

\* A connector's new session ends its session before.
Connect(s) ==
    /\ session[s] = "unused"
    /\ session' = [r \in Sessions |->
                     IF r = s THEN "active"
                     ELSE IF OwnerOf[r] = OwnerOf[s] /\ session[r] = "active" THEN "ended"
                     ELSE session[r]]
    /\ due' = due \cup {r \in Sessions : session[r] = "active" /\ session'[r] = "ended"}
    /\ UNCHANGED <<serviceVars, guardVars, routes, handler>>

\* The channel is lost, or the session swept or drained.
EndSession(s) ==
    /\ s \in Ending /\ session[s] = "active"
    /\ session' = [session EXCEPT ![s] = "ended"]
    /\ due' = due \cup {s}
    /\ UNCHANGED <<serviceVars, guardVars, routes, handler>>

-----------------------------------------------------------------------------
(* The registries. *)

Active(i)  == i.status = "active"
Healthy(i) == Active(i) /\ i.health = "healthy"

\* recalculateLogicalServiceLocked, with the instances as they become.
Recount(svcs, insts, ids) ==
    [k \in DOMAIN svcs |->
       IF k \in ids
       THEN [svcs[k] EXCEPT !.active  = Cardinality({i \in DOMAIN insts : insts[i].service = k /\ Active(insts[i])}),
                            !.healthy = Cardinality({i \in DOMAIN insts : insts[i].service = k /\ Healthy(insts[i])})]
       ELSE svcs[k]]

With(f, k, v) == [x \in DOMAIN f \cup {k} |-> IF x = k THEN v ELSE f[x]]
Without(f, k) == [x \in DOMAIN f \ {k} |-> f[x]]

\* A mutant: a known instance is kept as it is.
UpsertServiceOnce(k, name, i, record) ==
    /\ instances' = IF i \in DOMAIN instances THEN instances ELSE With(instances, i, record)
    /\ services' = Recount(With(services, k, [name |-> name, active |-> 0, healthy |-> 0]), instances', {k})
    /\ index' = [index EXCEPT ![name] = k]

UpsertService(k, name, i, record) ==
    /\ instances' = With(instances, i, record)
    /\ services' = Recount(With(services, k, [name |-> name, active |-> 0, healthy |-> 0]), instances', {k})
    /\ index' = [index EXCEPT ![name] = k]

RemoveInstance(i) ==
    /\ instances' = Without(instances, i)
    /\ services' = IF i \in DOMAIN instances
                   THEN Recount(services, instances', {instances[i].service}) ELSE services
    /\ UNCHANGED index

\* The ended session's instances leave service, found by connector and session.
Withdraw(s) ==
    LET own == {i \in DOMAIN instances : instances[i].owner = OwnerOf[s] /\ instances[i].session = s} IN
    /\ s \in due
    /\ due' = due \ {s}
    /\ instances' = [i \in DOMAIN instances |->
                       IF i \in own THEN [instances[i] EXCEPT !.status = "stale", !.health = "unknown"]
                       ELSE instances[i]]
    /\ services' = Recount(services, instances', {instances[i].service : i \in own})
    /\ UNCHANGED <<session, index, guardVars, routes, handler>>

\* A target named by its service is the logical service of that name, if any.
Identity(target) ==
    IF target \in Names /\ index[target] # None THEN index[target] ELSE target

\* A route whose match is taken, at the same priority, by another target is
\* refused; at another priority it is only warned about.
Conflicts(r, route) ==
    \E o \in DOMAIN routes \ {r} :
        /\ routes[o].match = route.match
        /\ Identity(routes[o].target) # Identity(route.target)
        /\ routes[o].priority = route.priority

-----------------------------------------------------------------------------
(* The event guard. *)

\* Evaluate's deduplication key: the session and the event, which a publisher
\* numbers as it numbers its versions (health reports do not pass the guard).
DedupKey(e) == <<e.session, e.version>>

Seen(e) == \E j \in DOMAIN window : window[j] = DedupKey(e)

SeenOrAdd(e) ==
    window' = IF Seen(e) THEN window
              ELSE LET w == Append(window, DedupKey(e))
                   IN  IF Len(w) > Capacity THEN Tail(w) ELSE w

\* A mutant: only an equal version is told apart.
VerdictUnordered(e, key) ==
    IF Seen(e) \/ e.version = guard[key] THEN "duplicate" ELSE "accepted"

\* Evaluate, in its four outcomes.
Verdict(e, key) ==
    CASE Seen(e)                 -> "duplicate"
      [] e.version < guard[key]  -> "rejected"
      [] e.version = guard[key]  -> "duplicate"
      [] OTHER                   -> "accepted"

Evaluate(e, key) ==
    /\ SeenOrAdd(e)
    /\ guard' = IF Verdict(e, key) = "accepted" THEN [guard EXCEPT ![key] = e.version] ELSE guard

-----------------------------------------------------------------------------
(* The handlers. *)

Event(s) == handler[s].event

Go(s, pc) == handler' = [handler EXCEPT ![s].pc = pc]

\* validateSessionEpoch: an envelope's epoch is its session's, which a connector knows.
SessionAllows(e) == session[e.session] = "active"

\* The ack leaves; what was accepted last is remembered.
Finish(s, verdict) ==
    handler' = [handler EXCEPT ![s] =
                  IF verdict = "accepted" THEN [Idle EXCEPT !.event = [Event(s) EXCEPT !.service = None], !.key = handler[s].key]
                  ELSE Idle]

\* rejectPublishAck, rejectUnpublishAck: the ack tells the version the registry has.
Reject(s) == Finish(s, "rejected")

\* A logical_service_id never used.
Generated ==
    LET free == Services \ (DOMAIN services \cup {handler[s].route : s \in Sessions})
    IN  {k \in free : \A j \in free : k <= j}

\* What a connector sends under session t: its own instances, the name and
\* logical service it knows them by, or a route of its own.
Sent(s) ==
    LET a == OwnerOf[s]
        own == {i \in Instances : a \in Holders[i]}
        numbers == 1..MaxVersion[a]
        envelope(kinds, keys, names, known, health, versions) ==
            [kind : kinds \cap Kinds[s], key : keys, name : names, service : known,
             health : health, version : versions,
             session : {t \in Sessions : OwnerOf[t] = a /\ session[t] # "unused"}]
    IN  envelope({"publish"}, own, Names, {None}, {None}, numbers)
        \cup envelope({"unpublish"}, own, {None}, DOMAIN services \cup {None}, {None}, numbers)
        \cup envelope({"health"}, own, {None}, {None}, HealthValues, {None})
        \cup envelope({"assign", "revoke"}, RouteIDs, {None}, {None}, {None}, numbers)

\* A message on s's channel, refused unless its envelope's session is active
\* and of the same epoch.  A publish finds its logical service, or makes one.
Receive(s, e) ==
    /\ handler[s].pc = "idle" /\ session[s] # "unused"
    /\ IF ~SessionAllows(e)
       THEN handler' = [handler EXCEPT ![s] = Idle]
       ELSE \E r \in CASE e.kind = "publish" /\ index[e.name] # None -> {index[e.name]}
                       [] e.kind = "publish" /\ index[e.name] = None -> Generated
                       [] e.kind \in {"assign", "revoke"}            -> {e.key}
                       [] OTHER                                      -> {e.service} :
              handler' = [handler EXCEPT ![s] =
                 [Idle EXCEPT !.event = e, !.key = e.key, !.route = r,
                              !.pc = IF e.kind \in {"assign", "revoke"} THEN "evaluate" ELSE e.kind]]
    /\ UNCHANGED <<sessionVars, serviceVars, guardVars, routes>>

Mine(s) == {i \in DOMAIN instances : /\ instances[i].owner = OwnerOf[s]
                                     /\ instances[i].service = handler[s].route}

Resolved(s) == IF Event(s).key \in DOMAIN instances THEN {Event(s).key} ELSE Mine(s)

\* resolveOrCreateInstance: the hinted instance, which must be this
\* connector's and this service's; else the connector's instance of the
\* service under another ID; else a new one of unknown health.
FindInstance(s) ==
    LET e == Event(s)  a == OwnerOf[s]  k == handler[s].route
        hit  == Resolved(s)
    IN
    /\ handler[s].pc = "publish"
    /\ IF hit \ Mine(s) # {}
       THEN Reject(s)
       ELSE /\ \E i \in IF hit = {} THEN {e.key} ELSE hit :
                 handler' = [handler EXCEPT ![s].pc = "evaluate", ![s].key = i, ![s].read =
                    [owner |-> a, service |-> k, session |-> e.session, status |-> "active",
                     health |-> IF hit = {} THEN "unknown" ELSE instances[i].health,
                     version |-> e.version]]
    /\ UNCHANGED <<sessionVars, serviceVars, guardVars, routes>>

\* resolveUnpublishTarget: the named instance, if known, must be of this
\* connector, this session and the named service.
FindTarget(s) ==
    LET e == Event(s)  known == e.key \in DOMAIN instances IN
    /\ handler[s].pc = "unpublish"
    /\ IF known /\ \/ instances[e.key].owner # OwnerOf[s]
                   \/ instances[e.key].session # e.session
                   \/ e.service \notin {None, instances[e.key].service}
       THEN Reject(s)
       ELSE /\ handler' = [handler EXCEPT ![s].pc = "evaluate", ![s].event.service = None,
                             ![s].route = IF known THEN instances[e.key].service ELSE @]
    /\ UNCHANGED <<sessionVars, serviceVars, guardVars, routes>>

Guard(s) ==
    LET h == handler[s]  verdict == Verdict(h.event, h.key) IN
    /\ h.pc = "evaluate"
    /\ Evaluate(h.event, h.key)
    /\ IF verdict = "accepted"
       THEN /\ Go(s, CASE Event(s).kind \in {"publish", "assign"} -> "admit"
                       [] Event(s).kind = "unpublish" -> "remove"
                       [] Event(s).kind = "revoke"    -> "unroute")
       ELSE Finish(s, verdict)
    /\ UNCHANGED <<sessionVars, serviceVars, routes>>

\* The route an envelope asks for: that of the exposure, or the one assigned.
Asked(e) == IF e.kind = "publish" THEN Wanted[e.name] ELSE Assigned[e.key]

\* The route to write: of a publish, towards its logical service; of an
\* assignment, towards a service name.  None: no route is wanted.
RouteOf(s) ==
    LET e == Event(s)
        w == Asked(e)
    IN  IF w = None THEN None
        ELSE [match |-> w.match, priority |-> w.priority,
              target |-> IF e.kind = "publish" THEN handler[s].route ELSE w.name]

\* An exposure without the field its ingress mode needs has no match.
Admissible(id, r) == r = None \/ (r.match # None /\ ~Conflicts(id, r))

\* Admission, after the guard has advanced: a refusal does not take it back.
Admit(s) ==
    /\ handler[s].pc = "admit"
    /\ IF ~Admissible(handler[s].route, RouteOf(s))
       THEN Reject(s)
       ELSE /\ Go(s, IF Event(s).kind = "publish" THEN "write" ELSE "route")
    /\ UNCHANGED <<sessionVars, serviceVars, guardVars, routes>>

WriteService(s) ==
    LET h == handler[s] IN
    /\ h.pc = "write"
    /\ UpsertService(h.route, Event(s).name, h.key, h.read)
    /\ Go(s, "route")
    /\ UNCHANGED <<sessionVars, guardVars, routes>>

WriteRoute(s) ==
    /\ handler[s].pc = "route"
    /\ routes' = IF RouteOf(s) = None THEN Without(routes, handler[s].route)
                 ELSE With(routes, handler[s].route, RouteOf(s))
    /\ Finish(s, "accepted")
    /\ UNCHANGED <<sessionVars, serviceVars, guardVars>>

WithdrawInstance(s) ==
    /\ handler[s].pc = "remove"
    /\ RemoveInstance(handler[s].key)
    /\ Go(s, "count")
    /\ UNCHANGED <<sessionVars, guardVars, routes>>

\* reconcileAutoRouteOnUnpublish: the route goes if no instance is active ...
CountActive(s) ==
    LET k == handler[s].route IN
    /\ handler[s].pc = "count"
    /\ IF k \in DOMAIN services /\ services[k].active = 0
       THEN Go(s, "unroute")
       ELSE Finish(s, "accepted")
    /\ UNCHANGED <<sessionVars, serviceVars, guardVars, routes>>

\* ... by now.
RemoveRoute(s) ==
    /\ handler[s].pc = "unroute"
    /\ routes' = Without(routes, handler[s].route)
    /\ Finish(s, "accepted")
    /\ UNCHANGED <<sessionVars, serviceVars, guardVars>>

\* HandleReport reads the instance ...
ReadHealth(s) ==
    LET e == Event(s) IN
    /\ handler[s].pc = "health"
    /\ IF e.key \in DOMAIN instances /\ instances[e.key].owner = OwnerOf[s]
                                     /\ instances[e.key].session = e.session
       THEN /\ handler' = [handler EXCEPT ![s].pc = "report",
                             ![s].read = [instances[e.key] EXCEPT !.health = e.health]]
       ELSE Finish(s, "ignored")
    /\ UNCHANGED <<sessionVars, serviceVars, guardVars, routes>>

\* ... and writes the whole of it back.
WriteHealth(s) ==
    LET h == handler[s] IN
    /\ h.pc = "report"
    /\ UpsertService(h.read.service, services[h.read.service].name, h.key, h.read)
    /\ Finish(s, "ignored")
    /\ UNCHANGED <<sessionVars, guardVars, routes>>

Handle(s) ==
    \/ \E e \in Sent(s) : Receive(s, e)
    \/ FindInstance(s) \/ FindTarget(s) \/ Guard(s) \/ Admit(s)
    \/ WriteService(s) \/ WriteRoute(s) \/ WithdrawInstance(s) \/ CountActive(s)
    \/ RemoveRoute(s) \/ ReadHealth(s) \/ WriteHealth(s)

Next == \E s \in Sessions : Connect(s) \/ EndSession(s) \/ Withdraw(s) \/ Handle(s)

Spec == Init /\ [][Next]_vars

TypeOK ==
    /\ session \in [Sessions -> {"unused", "active", "ended"}]
    /\ due \subseteq Sessions
    /\ DOMAIN services \subseteq Services
    /\ index \in [Names -> Services \cup {None}]
    /\ DOMAIN instances \subseteq Instances
    /\ guard \in [Keys -> Nat]
    /\ Len(window) <= Capacity
    /\ DOMAIN routes \subseteq Ids
    /\ \A s \in Sessions : handler[s].key \in Keys \cup {None} /\ handler[s].route \in Ids \cup {None}

\* What availability metrics and the operator read of a logical service: its
\* counters are those of its instances, through publishes, withdrawals of a
\* whole session and health reports written back from a copy
\* (registry/service_registry.go:432).
CountsExact ==
    \A k \in DOMAIN services :
        LET own == {i \in DOMAIN instances : instances[i].service = k} IN
        /\ services[k].active  = Cardinality({i \in own : Active(instances[i])})
        /\ services[k].healthy = Cardinality({i \in own : Healthy(instances[i])})

\* What a connector was last told is done, is so: the version it published is
\* the one registered, the instance it withdrew is gone, the route it asked for
\* is there, whatever the other connectors, the withdrawal of sessions and
\* repeated envelopes did since (HandlePublish, HandleUnpublish, HandleAssign);
\* and it counts.
AcceptedHolds ==
    /\ \A s \in Sessions :
          LET e == Event(s)  i == handler[s].key IN
          handler[s].pc = "idle" /\ e # None =>
              /\ e.kind = "publish"   => i \in DOMAIN instances /\ instances[i].version = e.version
              /\ e.kind = "unpublish" => i \notin DOMAIN instances
              /\ e.kind = "assign"    => i \in DOMAIN routes
    /\ CountsExact

\* "Events of an older version are all rejected, to keep the state from going
\* back" (resource_event_guard.go:70): a registered instance never returns to
\* an older version, and none is registered by an event older than the newest
\* accepted for it.
NoRollback ==
    [][\A i \in DOMAIN instances' :
          /\ i \in DOMAIN instances => instances'[i].version >= instances[i].version
          /\ i \notin DOMAIN instances => instances'[i].version = guard[i]]_vars
=============================================================================
