---------------------------- MODULE RouteResolver ----------------------------
\* How the Bridge turns a request into a target: routing/resolver.go with the
\* matcher, the selectors and the table that keeps a traffic on its instance.
\* A lookup takes the list of routes once and then reads one registry after the
\* other, each under its own lock, while the control plane writes them.
\*
\* A request meets a set of criteria (host, path, a header, ...) and a route asks
\* for some of them: what is compared inside a criterion is left out.
EXTENDS Integers, Sequences, FiniteSets, Functions

CONSTANTS
    Lookups,     \* the calls of Resolve, each made once
    Traffics, TrafficOf,           \* the traffic a lookup is for
    Instances, ServiceOf,          \* the instances of the logical services
    Sessions,
    Configs,     \* the routes, the fallback policy of each namespace and the request of
                 \* each traffic, and bounds: [lookups, changes, ticks]
    Capacity, TTL,                 \* of the traffic affinity
    None

ASSUME ResolverAssumption ==
    /\ Capacity \in Nat \ {0} /\ TTL \in Nat \ {0}
    /\ TrafficOf \in [Lookups -> Traffics]
    /\ None \notin Instances

\* Routes are numbered in the order of their IDs; a namespace that has no policy has
\* one that is not enabled.
ASSUME ConfigAssumption ==
    \A c \in Configs :
        /\ DOMAIN c.route \subseteq Int /\ IsFiniteSet(DOMAIN c.route)
        /\ \A r \in DOMAIN c.route :
              /\ c.route[r].kind \in {"connector", "external"}
              /\ c.route[r].priority \in Int
              /\ IsFiniteSet(c.route[r].match)
              /\ c.route[r].injected.namespace \in DOMAIN c.policy
        /\ \A t \in Traffics : c.request[t].scope.namespace \in DOMAIN c.policy
        /\ \A n \in DOMAIN c.policy :
              c.policy[n].chain \in Seq(Range(c.policy[n].chain))

VARIABLES
    config,      \* one of Configs
    routes,      \* the routes the registry has
    known,       \* the logical services the registry has
    instance,    \* of each instance: [status, session]
    live,        \* the sessions that are ACTIVE
    affinity,    \* of each traffic: None or [instance, expires]
    now, changes,
    lookup,      \* of each lookup: where it is and what it has read
    past         \* history of each lookup under way: the connector routes it has
                 \* found (all), the instances fit to serve ever since (steady) and
                 \* the one that held its traffic then (held)

vars == <<config, routes, known, instance, live, affinity, now, changes, lookup, past>>

Weight(c) == CASE c = "protocol" -> 8 [] c = "port" -> 6 [] c = "header" -> 6
               [] c = "query" -> 5 [] OTHER -> 10

Route(r)   == config.route[r]
Request(q) == config.request[TrafficOf[q]]
Policy(s)  == config.policy[s.namespace]

Idle == [pc |-> "idle", rest |-> {}, external |-> {}, error |-> None,
         unread |-> {}, usable |-> {}, pick |-> None, target |-> None]

Nothing == [all |-> {}, steady |-> {}, held |-> None]
Absent  == [status |-> "absent", session |-> None]

Init ==
    /\ config \in Configs
    /\ routes = DOMAIN config.route
    /\ instance \in [Instances -> {Absent} \cup [status : {"up"}, session : Sessions]]
    /\ known = {ServiceOf[i] : i \in {j \in Instances : instance[j] # Absent}}
    /\ live = Sessions
    /\ affinity = [t \in Traffics |-> None]
    /\ now = 0 /\ changes = 0
    /\ lookup = [q \in Lookups |-> IF q \in config.lookups THEN Idle ELSE [Idle EXCEPT !.pc = "done"]]
    /\ past = [q \in Lookups |-> Nothing]

LookupType ==
    [pc : {"idle", "service", "instances", "sessions", "select", "store", "external", "done"},
     rest : SUBSET DOMAIN config.route, external : SUBSET DOMAIN config.route,
     error : {None, "mismatch", "unavailable"},
     unread : SUBSET (Instances \X (Sessions \cup {None})), usable : SUBSET Instances,
     pick : Instances \cup {None},
     target : {None} \cup ((DOMAIN config.route) \X (Instances \cup {None}))]

TypeOK ==
    /\ config \in Configs /\ routes \subseteq DOMAIN config.route
    /\ instance \in [Instances -> [status : {"absent", "up", "ill", "down"},
                                   session : Sessions \cup {None}]]
    /\ live \subseteq Sessions
    /\ affinity \in [Traffics -> {None} \cup [instance : Instances, expires : Nat]]
    /\ now \in Nat /\ changes \in Nat
    /\ lookup \in [Lookups -> LookupType]
    /\ past \in [Lookups -> [all : SUBSET DOMAIN config.route, steady : SUBSET Instances,
                             held : Instances \cup {None}]]

-----------------------------------------------------------------------------
\* The matcher, and the scopes a request may be served in.

Matches(q, r) == /\ Route(r).mode = Request(q).mode
                 /\ Route(r).match \subseteq Request(q).meets

Score(r) ==
    LET asked(w) == Cardinality({c \in Route(r).match : Weight(c) = w}) IN
    10 * asked(10) + 8 * asked(8) + 6 * asked(6) + 5 * asked(5)

Better(r, s) ==
    \/ Route(r).priority > Route(s).priority
    \/ Route(r).priority = Route(s).priority /\ Score(r) > Score(s)
    \/ Route(r).priority = Route(s).priority /\ Score(r) = Score(s) /\ r < s

\* resolveEffectiveRequestScope: a route may inject a scope of its own, always or
\* for the requests that do not say theirs in full.
EffectiveScope(q, r) ==
    IF \/ Route(r).inject = "always"
       \/ Route(r).inject = "missing_only" /\ ~Request(q).complete
    THEN Route(r).injected ELSE Request(q).scope

\* buildScopeChain, before it leaves out what is in the chain already: the scope
\* itself, then what the policy of its namespace adds.
ScopeChain(s) == <<s>> \o IF Policy(s).enabled THEN Policy(s).chain ELSE <<>>

InChain(q, r) == Route(r).scope \in Range(ScopeChain(EffectiveScope(q, r)))

\* findScopeIndex: a scope has as many before it as there are different ones.
ScopeIndex(q, r) ==
    LET chain  == ScopeChain(EffectiveScope(q, r))
        before == {n \in DOMAIN chain : \A m \in 1..n : chain[m] # Route(r).scope}
    IN  Cardinality({chain[n] : n \in before}) + 1

\* (A mutant: priority first, whatever the scope.)
BeforeByPriority(q, r, s) == Better(r, s)

Before(q, r, s) == \/ ScopeIndex(q, r) < ScopeIndex(q, s)
                   \/ ScopeIndex(q, r) = ScopeIndex(q, s) /\ Better(r, s)

\* The candidates are sorted; what remains of them is a set, and the next one its first.
First(q, rs) == CHOOSE r \in rs : \A s \in rs \ {r} : Before(q, r, s)

Candidates(q, kind) ==
    {r \in routes : Matches(q, r) /\ InChain(q, r) /\ Route(r).kind = kind}

-----------------------------------------------------------------------------
\* What the control plane may write while lookups run (publish_handler.go,
\* health_handler.go, route_handler.go and the session registry).

Active(k) == \E i \in Instances : ServiceOf[i] = k /\ instance[i].status \in {"up", "ill"}

\* An instance that a lookup would use.
Fit(i) == instance[i].status = "up" /\ instance[i].session \in live

Running(q) == lookup[q].pc \notin {"idle", "done"}

Note == past' = [q \in Lookups |-> [past[q] EXCEPT
                   !.steady = {i \in @ : Fit(i)' /\ instance'[i].session = instance[i].session}]]

Change == changes < config.changes /\ changes' = changes + 1

UpsertInstance(i, s) ==
    /\ s \in live
    /\ \E st \in {"up", "ill"} \ {instance[i].status} :
          instance' = [instance EXCEPT ![i] = [status |-> st, session |-> s]]
    /\ known' = known \cup {ServiceOf[i]}
    /\ UNCHANGED <<live, routes>>

MarkLifecycle(i) ==
    /\ instance[i].status \in {"up", "ill"}
    /\ instance' = [instance EXCEPT ![i].status = "down"]
    /\ UNCHANGED <<known, live, routes>>

RemoveInstance(i) ==
    /\ instance[i].status # "absent"
    /\ instance' = [instance EXCEPT ![i] = Absent]
    /\ UNCHANGED <<known, live, routes>>

\* A session that leaves ACTIVE stays so: its connector comes back with another.
MarkState(s) ==
    /\ s \in live
    /\ live' = live \ {s}
    /\ UNCHANGED <<known, instance, routes>>

ToggleRoute(r) ==
    /\ routes' = IF r \in routes THEN routes \ {r} ELSE routes \cup {r}
    /\ UNCHANGED <<known, instance, live>>

ControlPlane ==
    /\ Change
    /\ \/ \E i \in Instances, s \in Sessions : UpsertInstance(i, s)
       \/ \E i \in Instances : MarkLifecycle(i)
       \/ \E i \in Instances : RemoveInstance(i)
       \/ \E s \in Sessions : MarkState(s)
       \/ \E r \in DOMAIN config.route : ToggleRoute(r)
    /\ Note
    /\ UNCHANGED <<config, affinity, now, lookup>>

Tick ==
    /\ now < config.ticks
    /\ now' = now + 1
    /\ UNCHANGED <<config, routes, known, instance, live, affinity, changes, lookup, past>>

-----------------------------------------------------------------------------
\* Resolve, one registry read at a time.

registryVars == <<config, routes, known, instance, live, now, changes>>

\* Where a lookup goes on when its connector routes are used up.
Onward(l) == [l EXCEPT !.pc = IF l.rest = {} THEN "external" ELSE "service"]

Done(l, t) == [Idle EXCEPT !.pc = "done", !.target = t, !.error = IF t = None THEN l.error ELSE None]

Step(q, l) == /\ lookup' = [lookup EXCEPT ![q] = l]
              /\ past' = IF l.pc = "done" THEN [past EXCEPT ![q] = Nothing] ELSE past

\* The route a lookup is at.
Current(q) == First(q, lookup[q].rest)

\* A service that is not found costs the lookup that route.
NotFound(q) == Onward([lookup[q] EXCEPT !.rest = @ \ {Current(q)}])

\* Any other failure is remembered and ends the search of the scope.
Fail(q) ==
    LET n == ScopeIndex(q, Current(q)) IN
    Onward([lookup[q] EXCEPT !.rest = {r \in @ : ScopeIndex(q, r) # n},
                             !.unread = {}, !.usable = {}, !.error = "unavailable"])

Held(t) == affinity[t] # None /\ affinity[t].expires > now

\* The lookups of one traffic belong to one request and come one after the other.
Begin(q) ==
    /\ lookup[q].pc = "idle"
    /\ \A p \in Lookups : TrafficOf[p] = TrafficOf[q] => ~Running(p)
    /\ LET c == Candidates(q, "connector")
           e == Candidates(q, "external")
       IN IF c \cup e = {}
          THEN Step(q, Done([Idle EXCEPT !.error = "mismatch"], None))
          ELSE /\ lookup' = [lookup EXCEPT ![q] = Onward([Idle EXCEPT !.rest = c, !.external = e])]
               /\ past' = [past EXCEPT ![q] =
                     [all    |-> c,
                      steady |-> {i \in Instances : Fit(i)},
                      held   |-> IF Held(TrafficOf[q]) THEN affinity[TrafficOf[q]].instance ELSE None]]
    /\ UNCHANGED <<registryVars, affinity>>

ReadService(q) ==
    /\ lookup[q].pc = "service"
    /\ LET k == Route(Current(q)).service IN
          Step(q, IF k \notin known THEN NotFound(q)
                  ELSE IF ~Active(k) THEN Fail(q)
                  ELSE [lookup[q] EXCEPT !.pc = "instances"])
    /\ UNCHANGED <<registryVars, affinity>>

ListInstances(q) ==
    /\ lookup[q].pc = "instances"
    /\ LET k    == Route(Current(q)).service
           all  == {i \in Instances : ServiceOf[i] = k /\ instance[i].status # "absent"}
           well == {i \in all : instance[i].status = "up"}
       IN Step(q, IF all = {} THEN NotFound(q)
                  ELSE IF well = {} THEN Fail(q)
                  ELSE [lookup[q] EXCEPT !.pc = "sessions",
                           !.unread = {<<i, instance[i].session>> : i \in well}])
    /\ UNCHANGED <<registryVars, affinity>>

ReadSession(q) ==
    /\ lookup[q].pc = "sessions"
    /\ \E u \in lookup[q].unread :
          LET l == [lookup[q] EXCEPT !.unread = @ \ {u},
                                     !.usable = @ \cup IF u[2] \in live THEN {u[1]} ELSE {}]
          IN Step(q, IF l.unread # {} THEN l
                     ELSE IF l.usable = {} THEN Fail(q)
                     ELSE [l EXCEPT !.pc = "select"])
    /\ UNCHANGED <<registryVars, affinity>>

\* resolveStickySelectionKey: the client's address, or the header or cookie that the policy
\* of the route names.
StickyKey(q) == Request(q).key

\* What the selectors may return: round robin, weighted and random depend on
\* counters that all services share, the sticky one on the request's key only.
Picks(q, usable) ==
    IF StickyKey(q) = None THEN usable
    ELSE {i \in usable : Cardinality({j \in usable : j < i}) = StickyKey(q) % Cardinality(usable)}

\* (A mutant: the instance a traffic is held by is only a preference.)
SelectAnother(q) ==
    LET l == lookup[q] IN
    /\ l.pc = "select"
    /\ \E i \in Picks(q, l.usable) : Step(q, [l EXCEPT !.pc = "store", !.pick = i])
    /\ UNCHANGED <<registryVars, affinity>>

\* selectConnectorResolution: a traffic that is held by an instance goes to it or
\* nowhere; another gets an instance, which Store then remembers. Reading an
\* entry that has expired removes it.
Select(q) ==
    LET l == lookup[q]  t == TrafficOf[q] IN
    /\ l.pc = "select"
    /\ \/ /\ Held(t)
          /\ Step(q, IF affinity[t].instance \in l.usable
                     THEN Done(l, <<Current(q), affinity[t].instance>>)
                     ELSE Fail(q))
       \/ /\ ~Held(t)
          /\ \E i \in Picks(q, l.usable) : Step(q, [l EXCEPT !.pc = "store", !.pick = i])
    /\ affinity' = [affinity EXCEPT ![t] = IF Held(t) THEN @ ELSE None]
    /\ UNCHANGED registryVars

Kept   == {t \in Traffics : Held(t)}
Oldest == {t \in Kept : \A u \in Kept : affinity[t].expires <= affinity[u].expires}

\* Store: a full table loses what has expired, and then one of its oldest entries.
Store(q) ==
    LET l    == lookup[q]
        t    == TrafficOf[q]
        full == affinity[t] = None /\ Cardinality({u \in Traffics : affinity[u] # None}) >= Capacity
    IN
    /\ l.pc = "store"
    /\ \E out \in IF full /\ Cardinality(Kept) >= Capacity THEN {{o} : o \in Oldest} ELSE {{}} :
          affinity' = [u \in Traffics |->
             CASE u = t -> [instance |-> l.pick, expires |-> now + TTL]
               [] u # t /\ full /\ u \in out \cup (Traffics \ Kept) -> None
               [] OTHER -> affinity[u]]
    /\ Step(q, Done(l, <<Current(q), l.pick>>))
    /\ UNCHANGED registryVars

ExternalAllowed(q, r) == LET p == Policy(EffectiveScope(q, r)) IN p.enabled /\ p.external

\* resolveExternalFallback: the first external route whose namespace allows it.
External(q) ==
    LET l       == lookup[q]
        allowed == {r \in l.external : ExternalAllowed(q, r)}
    IN
    /\ l.pc = "external"
    /\ Step(q, IF allowed # {} THEN Done(l, <<First(q, allowed), None>>)
               ELSE Done([l EXCEPT !.error = IF @ = None THEN "mismatch" ELSE @], None))
    /\ UNCHANGED <<registryVars, affinity>>

Next ==
    \/ ControlPlane
    \/ Tick
    \/ \E q \in Lookups : \/ Begin(q) \/ ReadService(q) \/ ListInstances(q) \/ ReadSession(q)
                          \/ Select(q) \/ Store(q) \/ External(q)

Spec == Init /\ [][Next]_vars

-----------------------------------------------------------------------------
Ends(q) == lookup[q].pc # "done" /\ lookup'[q].pc = "done" /\ lookup'[q].target # None

\* The connector routes of a lookup that had, all through it, an instance fit to
\* serve which the traffic was free to go to.
Steady(q) == {r \in past[q].all : \E i \in past[q].steady :
                 ServiceOf[i] = Route(r).service /\ past[q].held \in {None, i}}

\* The scopes of a lookup that a target in this scope (0: an external one) is below.
Above(q, n) == {ScopeIndex(q, r) : r \in past[q].all} \cap {m \in Nat : n = 0 \/ m < n}

\* Whatever the control plane writes meanwhile, a request is not sent further down
\* its chain of scopes, or out to an external service, past a scope whose connector
\* routes could all be served all the time; and in the scope it ends in, not to a
\* route when a better one could. (One route that is down ends its scope, even if a
\* lesser one of the scope could be served: see the README.)
NothingSkipped ==
    [][\A q \in Lookups : Ends(q) =>
          LET chosen == lookup'[q].target[1]
              n      == IF Route(chosen).kind = "external" THEN 0 ELSE ScopeIndex(q, chosen)
          IN /\ \A m \in Above(q, n) : \E r \in past[q].all \ Steady(q) : ScopeIndex(q, r) = m
             /\ n # 0 => ~\E r \in Steady(q) : ScopeIndex(q, r) = n /\ Better(r, chosen)]_vars

\* While the table holds a traffic, no lookup for it ends at another instance.
TrafficStays ==
    [][\A q \in Lookups :
          Ends(q) /\ Held(TrafficOf[q]) /\ lookup'[q].target[2] # None
             => lookup'[q].target[2] = affinity[TrafficOf[q]].instance]_vars
=============================================================================
