# DevBridge in TLA+

DevBridge exposes services that run on developers' machines through a shared
Bridge.  An Agent on each machine keeps a control session to the Bridge and a
pool of data tunnels; the Bridge routes an incoming request to a connector,
takes one of its idle tunnels, carries the traffic over it, and recycles the
tunnel for the next one.  A desktop host starts the Agent and keeps it alive.

This directory models the program's stateful core.  Every definition is
translated from the code under `src/`; `PROJECT.json` maps it to its lines,
lists the hazards the properties are aimed at, and gives for each property a
plausible bug (a *mutant*) that it catches.

## 1. The system

### Components

| Component | Code | State it keeps | Operations | What makes it correct |
|---|---|---|---|---|
| Bridge tunnel registry | `registry/tunnel_registry.go` | records with state, recycle number and reuse count; an idle queue per connector | upsert, acquire, mark active / idle / terminal, remove, purge or trim a session's tunnels | a tunnel has one user at a time; records and queues agree |
| Connector dispatch | `connectorproxy/dispatcher.go`, `tunnel_acquirer.go` | per request: the tunnel and a snapshot of its record | acquire, probe, mark active, open, relay, close, recycle or give up | a tunnel always goes back or is destroyed; reuse is bounded |
| Accepted connections and tunnels | `app/control_plane.go`, `app/bootstrap.go` | goroutines per connection and per tunnel | accept, tell control from tunnel, resolve the owning session, register, watch while idle, stop | no goroutine outlives what it serves; a dead idle tunnel is noticed |
| Handshake guard | `auth/control_handshake_guard.go`, `auth/control_auth.go` | sliding windows, budgets, bans, a lock per connector | hello, authenticate, take over | budgets are given back once; takeovers are limited |
| Control sessions | `registry/session_registry.go`, `app/control_plane.go` | session records, the current session of each connector | authenticate and take over, heartbeat, drain, sweep, end of a channel | at most one ACTIVE session per connector; higher epochs win; a session that leaves loses its tunnels and instances |
| Resource control | `control/*_handler.go`, `admission/`, `ltfp/consistency/` | logical services, instances, routes, resource versions | publish, unpublish, health report, route assign and revoke | the newest version wins; what was accepted holds |
| Ingress, routing | `routing/`, `app/ingress_*.go`, `app/traffic_ownership_store.go` | an affinity table, a table of traffic owners | match a request, choose an instance, send, retry, fall back, answer | no reachable scope is skipped; a traffic stays on its instance; one answer per call |
| Direct proxy | `directproxy/` | an endpoint cache | look up, dial, relay | a refresh is not lost; stale entries are bounded |
| Token store, certificates, configuration | `auth/token_*.go`, `tls/`, `app/admin_runtime_ops.go`, `app/runtime_config_loader.go` | files and what is cached of them | create, rotate, revoke; load, renew; update, reload | what was answered holds across a crash; what is served is fresh |
| Admin API | `adminapi/`, `adminview/` | browsers' sessions, exports with their links, an audit log | log in and out, admit a request, lists and searches, operations, export and download, event stream | a logout ends the session; a link is good once, for who asked; a search hides nothing |
| Agent tunnel pool | `agent-core/.../tunnel/` | records, idle order, pending target | reconcile, trim, TTL reaping, drain, refill | the pool gets back to its size and does not leak |
| Agent traffic workers | `agent-core/.../traffic/`, `app/data_plane_runtime.go` | one goroutine per tunnel | wait for an open, serve, recycle | one worker per active tunnel; traffics do not mix |
| Agent runtime | `app/runtime_bridge.go`, `control/` | the control session, a command queue, the catalogue and its versions | connect, authenticate, synchronise, publish, ping, drain, reconnect | it ends where it was last told to; the Bridge has the catalogue |
| Agent local interfaces | `app/localrpc_server.go`, `httpapi/`, `hostapi/`, `service/` | one local connection at a time | answer the host | a request gets its own answer |
| LTFP transport | `ltfp/transport/` | a tunnel pool with its waiters, a write queue, fragments | acquire, recycle, evict, refill; write, send, reassemble | nobody sleeps beside an idle tunnel; order within a priority |
| LTFP library | rest of `src/ltfp/` | — | codecs, validation, negotiation | — |
| Desktop application | `apps/dev-agent/src-tauri/` | the child process, the desired state, a local connection | start, stop, restart, supervise, call | no process is forgotten; a wanted agent comes back |
| SDK, consoles | `service-registry/`, `web/` | — | — | — |

### How they interact

* The Bridge and an Agent exchange control messages over one ordered channel
  per session; each channel is served by its own goroutine on the Bridge.
* Data tunnels are separate connections (framed TCP, gRPC streams, QUIC
  streams).  A tunnel is registered for the session that opened it.
* On the Bridge the registries are the shared state: each method holds a
  mutex, but a handler makes several calls, and request goroutines, watchers,
  the sweeper, control channels and the administrator interleave between them.
* In the Agent the tunnel manager, a TTL reaper, the acceptor loop and a
  worker per tunnel share one registry in the same way.
* The desktop host starts the Agent as a process of its own and talks to it over
  a local socket that serves one connection after the other.

### Behaviours that are hard

The hazards in `PROJECT.json` name each at its line.  In short: checks and
writes that are two registry calls (watcher, reaper, drain, resource events,
endpoint cache), sessions replaced while their handlers still run, tunnels
purged under a request, tunnels that die while nobody reads from them,
snapshots that go stale (reuse counters, idle lists, route lists), several
goroutines that close the same tunnel, messages cut short by a context that
ends, waiters that miss a wakeup, answers that come after their reader has
left, processes that crash between two writes, budgets taken and given back on
different paths, and goroutines that must not outlive what they serve.

## 2. Modules

| Module | Models | Shape |
|---|---|---|
| `TunnelRegistry` | the Bridge's tunnel registry | one operator per method; no actors |
| `ConnectorDispatch` | acceptor, dispatches, watchers, purges, trims and lost peers around it | `EXTENDS TunnelRegistry` |
| `TunnelLease` | what the two promise a request | the abstract specification |
| `TunnelTraffic` | the two ends of one tunnel: open, relay, close, recycle | state machine |
| `SerialTunnel` | one traffic after the other | the abstract specification |
| `BridgeSessions` | sessions, takeovers, sweeps, drains, and their effects on tunnels and instances | state machine |
| `ControlHandshake` | hello and authentication of several channels: guard, bans, takeover lock | state machine |
| `ControlIntake` | the goroutines of the listeners and of one connection | state machine |
| `ResourceControl` | publish, unpublish, health and route handlers of several channels | state machine |
| `RouteResolver` | lookups among changes of the registries | state machine |
| `IngressProxy` | HTTP and gRPC calls with their retries and fallbacks | state machine |
| `DirectProxy` | requests for external services and the endpoint cache | state machine |
| `TrafficOwnership` | the table of traffic owners | state machine |
| `TokenStore` | connector tokens, their file, crashes | state machine |
| `ServerCertificates` | certificate files, manager and reload loop | state machine |
| `ConfigStore` | layers of configuration, admins' updates, reload, restart | state machine |
| `AdminApi` | browsers' requests from cookie to audit record, exports, streams | state machine |
| `AgentTunnelPool` | the Agent's registry, manager, reaper, producer and workers | state machine |
| `AgentControl` | the Agent's control loop, its command queue and callers | state machine |
| `AgentPublish` | how the catalogue reaches the Bridge | state machine |
| `AgentHost` | the desktop host, its supervisor and the agent processes | state machine |
| `LocalRpc` | the host's clients and the Agent's local server | state machine |
| `TransportPool` | the transport library's pool, waiters, evictions, refill | state machine |
| `ControlChannel` | one direction of a control channel, three bindings | state machine |
| `BridgeServer` | handshake, tokens, certificates, configuration and admin API side by side | composition; `EXTENDS ControlHandshake` |
| `BridgeIngress` | resolver, calls, direct proxy and owners side by side | composition; `EXTENDS RouteResolver` |
| `AgentDesktop` | the host and its local connection side by side | composition; `EXTENDS AgentHost` |
| `Transport` | the tunnel pool and the control channel side by side | composition; `EXTENDS TransportPool` |
| `*_proofs` | the theorems about the module of that name and its parts | `EXTENDS` it and `TLAPS` |
| `MC*` | small instances for TLC | `EXTENDS` one component or composition |

Modules compose in two ways.  `ConnectorDispatch` calls the operators of
`TunnelRegistry`; the abstract specifications are instantiated with refinement
mappings.  Elsewhere a neighbour appears in a module as the outcomes it can have
(a dispatch in `IngressProxy`, a purge in `ConnectorDispatch`), each of which
the neighbour's own module has.

A composition puts parts side by side that share no state: a variable `part` is
chosen at the start and says which of them this behaviour is one of, the others
stay as they start.  A property of a part is stated of the composition too, so a run
checks as many systems as it has parts, one after the other; and a lemma
(`PartsRun`, `SidesRun`, `TransportRuns`) projects every behaviour of the
composition to one of each part's `Spec`, so that what is proved of a part is proved
of the composition.  `MC` modules only give values, and fix one start for the parts
that do not run; `MCAgentLoops` and `MCBridgeLoops` compose their parts themselves.

### TunnelRegistry and ConnectorDispatch

A record is `tstate[t]` (`none` when there is no record) with `recycleSeq[t]`
and `reuseCount[t]`; the idle queue of each connector is a sequence.  A
dispatch is a program counter `pc[d]`, the tunnel it holds, and the
`TunnelRuntime` snapshot it decides with, which is a copy and can go stale.
Every registry call is one action, because every method holds the mutex; a
handler that makes two calls is two actions.  The watcher goroutine has its own
counter `watch[t]`; it looks (`WatchCheck`) and breaks (`WatchBreak`) in
separate steps as the code does.  The purge of a session is the registry call
and then one `CloseTaken` per tunnel, since the connections are closed after
the mutex is released.  What travels on a tunnel during one traffic is a single
step that succeeds or fails (`TunnelTraffic` opens it up).  `Probed` tells framed TCP (a lost peer is noticed
by a read or a probe) from streams (`Done` fires by itself).

Left out: timestamps, metrics and error texts.  The acquirer's polling loop is
a step that needs an idle tunnel; the failed first attempt changes nothing.
The acquirer's refill request is not sent at all in production: both acquirers
(`app/data_plane_runtime.go`, `app/ingress_http_server.go`) are built without a
refill trigger, although Technical-Design 8.7.2 says one is sent at once.

### TunnelTraffic

Each direction of the tunnel is a FIFO queue of frames; a write appends, a read
takes the head, and nothing is delivered once the link is cut, except what was
on its way.  A frame is its kind and the traffic it names.  Data frames name
none in the code: their number is a ghost, which `NoMixing` reads and no action
does.

On the Bridge one goroutine at a time reads the tunnel, so one counter `bpc`
goes through the open handshake, a pump, the close handshake and the recycle
handshake.  The pumps are the three relays that exist: `wait`
(`connectorproxy/relay.go`), `http` and `grpc` (`app/ingress_*_server.go`); the
latter two acknowledge a close without looking at `closeAckSentByID`, the first
and the close handshake do look.  `drain` is the gRPC client connection that
waits for its own reader after the response.  In the agent `apc` is the worker,
and the relay's goroutines are `reader`, which reads the tunnel, and `stop`,
what the others found before they cancelled it.  `agentAcked`, `observed` and
`bridgeAcked` are the adapters' marks, `lastRecycleSeq` and `recycleSeq` the
numbers in the two registries.

`polling` tells the bindings apart: a read on TCP or QUIC polls its context, a
read on `grpc_h2` does not, so there neither a cancellation nor a timeout ends
it.  Both are checked.

Left out: what the frames hold; `discardLateOpenAck`, which reads a tunnel the
dispatch is about to close anyway; chunking and backpressure; which tunnel a
dispatch picks, and that two dispatches never share it (`Exclusive` of
`ConnectorDispatch`).

### BridgeSessions

A session is named by its control channel: the code gives each channel a fresh
session ID and authenticates it at most once.  `state`, `current` and `quiet`
are the registry; `pc` is the channel's goroutine; `phase`, `on` and `as` are a
goroutine's progress in `applySessionLifecycleEffects`, which is called by
channels, the sweeper and the drain alike.  `pool` says whether a session has
tunnels, `owner` and `status` describe the instance its connector publishes.
A resource message is the code's sequence of calls: read the session, commit it
ACTIVE again, validate, write.

Time is the set `quiet` of sessions not refreshed for a TTL: any silent session
may enter it, and any refresh leaves it.  An
authentication is accepted or rejected here; `ControlHandshake` opens it up.

### AgentTunnelPool

Three locks decide what is atomic.  The registry's mutex makes each registry
call one action.  `stateMutex` makes each access to the pending target one
action.  `reconcileMutex` is held through a whole reconcile or session change,
so these are *jobs* (`job`, `step`, `todo`, `victim`, `count`) of which one
runs at a time, while workers, the acceptor loop and refill requests interleave
with every step.  `closeAndRemove` is three actions: mark, close the
connection, remove.  A worker (`worker[t]`) waits for an open, activates its
tunnel, consumes, serves, recycles, or closes.

Abstractions: which idle tunnels have expired is any subset (the clock); the
set of tunnels a loop still has to visit forgets their order; an open that
fails is a step; the recycle's sequence number is left out because only the
worker at the tunnel changes it; the ticker makes a reconcile possible at any
time, so the signal of a refill request adds nothing; process shutdown is left
out.  A tunnel name may be used again once nothing mentions it, which is how
the instances stay finite while the code's IDs never repeat.
`MarkBrokenAndRemove`, called in the comments the fallback of a failed close,
can never succeed where it is called (the record is already closing or gone),
and so changes nothing.

### ControlHandshake

Three channels of one source ask for one connector.  A channel `chan[c]` is a
record with its place, its messages left and what it holds of the guard's
budgets; the guard's windows, failures and bans are kept with times.  Each
limiter and each ban takes one step, the clock is read with it; the
coordinator's clock is read *before* it waits for the connector's lock, and
kept in `at`, as in the code.  `GuardsCount` therefore bounds the takeovers by
the window in the order in which the lock was held, not by real time, where the
bound does not hold (section 4).  There is a lock per connector; `refs` counts who
holds it or waits for it, as `connectorScopedLocker` does to forget a lock nobody
needs, and `holder` is who has it.  `takeovers[k]` is the set of takeovers that still
count, each with its session and time.  Hello's limiters and the assignment of the
epoch are one step; the cleanup of limiters is not observable and left out; the
`upsertActiveSession` of business messages is in `BridgeSessions`.

### ControlIntake

`at[g]` is where each goroutine is: the runner of the server, its watcher, the
listener, the handler, the control reader, the acceptor of tunnels and its
readers.  The outcomes of the TLS handshake and of the classification are
chosen.  Deferred closes of one function are one step.  The server starts with
its listeners listening.  Error paths that no state reaches (an acceptor built
without a connection, a nil session) are left out.  Fairness is assumed for the
Bridge's own goroutines, none for the client or the operator.

### ResourceControl

A handler of a channel is a place and what it has read.  The event guard, the
logical services, the instances and the routes are registries; each call is one
step, and what a handler read is used later as it was.  Envelopes are whatever
a connector may build, at any version up to a bound: late, early or twice.
Overlapping scopes of routes are not told apart from equal ones, and metadata
is left out.  The error replies carry no state.

### RouteResolver, IngressProxy, TrafficOwnership, DirectProxy

`RouteResolver` takes the list of routes once and then reads registry after
registry, with writers between.  A request meets a set of criteria, a route
asks for some; what is compared inside a criterion is not modelled (a path prefix has one weight, not
one for its length), and error codes are collapsed.  The code sorts its candidates once and takes the first that
is left; here what is left is a set (`rest`) and `Current` its first.  `past` is a ghost that keeps what could be served at every
moment of a lookup, so that `NothingSkipped` speaks of what was there *all* the
time; sessions and instances are read in different steps, so only an instance
that was steady counts.  Lookups of one traffic follow each other.  The
registries start with any content of the configurations in `MCIngress`.

`IngressProxy` chooses what resolver and dispatcher return (the other modules
have those outcomes) and follows the attempts, the fallback and the writes of
heads and bodies, with the client leaving at any time.  `net/http2` is external:
a goroutine of it reads the connection all the time, and `Close` closes the
connection first.  `TrafficOwnership` is the store with its queue of versioned
references: the set of them, whose order is that of their versions.  Its clock is
read in the step that holds the mutex.  `DirectProxy` has one endpoint cache: an endpoint list is the time
it was put there; the provider is the static selector and external.

### TokenStore, ServerCertificates, ConfigStore

`TokenStore` is the file driver: memory, the file, the temporary file's rename,
a crash anywhere and a start from what is on the disk.  A secret is named for
the request that made it, so that an answer can be compared with what a later
authentication finds.  `Reload`, which nothing calls, hand edits and ill-formed
files are left out.

`ServerCertificates` has the two sources, with the life and the renewal window of a
managed certificate, the manager's cached certificate and the reload loop.  Time stands still during a loading, the loop is prompt, and an
operator's certificate does not expire.

`ConfigStore` has the layers of files (an explicit or a local one, or none, which can
be written or not), the environment over them, the version, the admins' optimistic
updates and reloads, a write that fails, a stop anywhere and a start from the files.
The keys behave alike, except that managed TLS needs the files of a root CA, which are
made on the way, one at a time, and taken away when the save fails.  `Odd` are the
values that no key can have, which is what is left of the checks of values.  The
version begins again with each process.  The system layer is not edited when a user
path exists; hand edits of files and changes of the environment while the process runs
are left out.

### AdminApi

A request `call[c]` is where it is, what its browser sent with it and when it began.
The handlers note the time first, look a session up with a later one, and write the
audit record when the response has been written, with the time they noted first; so
records of requests that overlap may stand in another order than their times.  Each
access to a store is one step, because each store has its mutex, but the time a store
is looked at with was read before its mutex was taken: `ReadTimes` is any time in
between.  `jar` is the cookie a browser has; a response may get lost.  A session and a
record are named for the request that made them, an export by its number: the order in
which they make room is that of their numbers.  The operations on tokens look the
session up once more for its role (`Manage`).  What an operation does
elsewhere is in the other modules (`BridgeSessions`, `TokenStore`, `ConfigStore`).
Left out: the contents of lists, exports and events, cursors after the first page,
wrong methods and parameters.

### AgentControl, AgentPublish

The control loop's `pc` is where it can be told from outside: at its queue, at
a dial, in the handshake, in the synchronisation, in the connected loop, in a
backoff, parked.  `manager` is what it has told the tunnel manager, `commands`
the queue of the local API, `channel` and `frames` the wire and the reader's
buffer.  The count of failures, which only sets the length of the backoff, and
the states shown to users are left out.  `session/manager.go` is not used by
the runtime and not modelled.

`AgentPublish` has what that loop sends: a publisher lists the catalogue,
stamps an entry with the session and a version, and writes it, and publishers
interleave.  The Bridge handles a message at the moment it is sent: one channel
keeps its order and has one reader, and `ResourceControl` has the interleavings
of several.  Versions are counted per service.  Heartbeat and health report are
stamped and written in one step.  `CatalogArrives` excludes the services whose
last change was overtaken by another publisher or failed to be written (the
ghost `raced`, section 4), and those of which the Bridge still knows the versions
of an earlier process, which `resync_refused` is about.  Left
out: pool reports, the periodic scan and the identity an acknowledgement gives
back.

### AgentHost, LocalRpc

In `AgentHost` the user's commands run on the main thread one at a time, the
supervisor thread beside them; both release the mutex while they spawn,
connect, call, wait or kill, and one action is one stretch under the mutex or
one step outside.  A process is a number; it may crash, hang, start late or
refuse; a budget of faults bounds how often.  A retry that waits becomes due by
`RetryDue`.  `raced` and `refused` are ghosts: two starts have overlapped, a
call was refused.  The Unix endpoint with its strict check of the peer is
modelled; blocking Windows pipes, logs, the window's notices, `exit_kind`,
`last_error` and the list of manual services are not.  A call is one step there.

`LocalRpc` opens it up: the agent writes a frame in two pieces, a client gives
up a read when nothing has come for a while and loses what it had read of a
frame, and what comes later is read as if a frame began there.  `stranger` is a
client with another agent's secret, which meets the server only where peers are
not checked by process ID.  Writes of a client never block; `Buffer` is the room
of the socket, in pieces; a handler's failure is an answer.  Events and pings
are never sent by the agent (the clients' branches for them are dead), and
malformed requests are left out.  No liveness is stated.

### TransportPool, ControlChannel

`TransportPool` has four sides (`Sides`): the agent's refilled pool over TCP,
and the acceptor's pools of TCP, QUIC and gRPC.  A payload is a token; an inbox
is empty, has half a frame or a whole one.  `aged` are the tunnels whose idle
TTL has run out; the evictor works from a snapshot, releases the lock to probe,
and looks again.  `Recyclable` merges the guards of a recycle with its flush; a
terminal tunnel forgets its buffers.  Deadlines set by users and equal
timestamps of different tunnels are left out, and so is the context of a
probe, which the code does not hold against the tunnel.  `Places` are where a tunnel can be:
the two maps, the acceptor's queue and the hands of each goroutine that will still
put it somewhere or close it.

`ControlChannel` is one direction: writers, the queue by priority and the write
loop of TCP with a watcher per write, the mutexes of QUIC and gRPC, the wire and
the reassembler.  A frame is its write, its number and whether all of its bytes
were written.

## 3. Runs

| Run | Instance | Shows |
|---|---|---|
| `dispatch` | three requests to two connectors over one tunnel name, reuse limit 2, two attempts, fair | no leaked record; the whole implements `TunnelLease` (exclusive use, bounded reuse); requests end; tunnels taken out are closed; a tunnel that dies idle is noticed |
| `sessions` | two channels of one connector, all messages, takeovers and sweeps | one ACTIVE session; no forgotten purge; a predecessor's end leaves the successor's instance alone |
| `bridge_loops` | *session:* one channel, two drains, fair; *intake:* one connection per binding, three streams | a session that has left ACTIVE does not keep its tunnels, nor one whose channel is gone its life; every goroutine of a connection and of a stopped server ends |
| `resources` | two connectors, one service published under two instance IDs, a route, a session that ends | what was acknowledged as accepted holds, with counters that count; no instance goes back to an older version |
| `bridge_server` | *handshake:* three channels; *tokens:* two requests, a crash; *certificates:* a managed one with a window, one without, the operator's, a fault, a stop; *config:* two admins, a fault, a restart; *admin:* up to four requests of one or two browsers, two at a time, three workloads | budgets and takeovers are bounded; answers about tokens, logouts, links and searches hold; what is served is fresh, or as late as the window is too short; what is shown is saved; an update replaces what its author has read |
| `ingress` | *resolver:* up to three lookups of two traffics over three instances, *direct:* two requests, *owners:* three traffics in a table of two, *ingress:* one call | no scope is skipped; a traffic stays on its instance; a refresh of the cache is kept; the latest owners are kept; one answer per call |
| `agent_pool` | two tunnels, pool of exactly one, fair | every active tunnel has its worker; each connection is closed by one goroutine; a drained pool is empty; the pool refills and trims; dead tunnels leave |
| `agent_loops` | *traffic:* one tunnel, reuse limit 3, two data frames per traffic, polling or not; *control:* a drainer and a reconnecter, a queue of one; fair | traffics do not mix, no handshake is refused, `SerialTunnel` is implemented, closes come to an end; the last command wins; a deaf Bridge is noticed |
| `agent_publish` | two services; registered twice, two at a time, registered and removed, left by an earlier process | at rest the Bridge has the catalogue |
| `agent_host` | *host:* two commands of nine kinds, two faults, five processes, fair; *rpc:* two clients and a stranger, two calls each | no process is forgotten; a wanted agent comes back; a client reads the answer to its own request |
| `transport` | *pool:* two tunnels, four sides; *channel:* three writes over three bindings: a large one whose context may end, a large one that is more urgent, a small one | nobody sleeps beside an idle tunnel, only the aged is evicted; order within a priority, nothing follows a torn frame, no write waits for nothing |
| `resync_refused` | as `agent_publish` | expected to fail, section 4 |

**Bounds.**  A race in these components is between two goroutines over one
tunnel, session, file or process, and a third that watches.  Two channels of a
connector give a takeover, a third takes the limit of takeovers to its edge.
In `dispatch` one tunnel is enough for collisions because all three requests
want it (an ID is dialled once, as in the code); two connectors show that a
request stays with its own.  Two agent tunnels
exceed the pool's maximum of one, so trims happen while one is in use.  The
reuse limit of 2 is the smallest with a recycle that is allowed and one that is
not; in `traffic` it is 3, so that there is a first, a middle and a last
recycle.  Two data frames let one be read while another is on its way.  Windows,
budgets and capacities are one or two, so that they fill; clocks end a little
after the last interval that can matter.  The managed certificate with a window
passes through the base interval, a quarter of its rest and the shortest interval
before it is renewed; the one without a window ends between two looks, one unit
before the later.  Of the three control writes the first
can be given up at each of its fragments, the second overtakes it between two of them,
and the third waits behind it.  Sessions of different
connectors share no state (but the map), so one connector is enough for
`BridgeSessions`.  A crash, a fault, a restart each happen once or twice in a
behaviour, at any step.  A logout needs three requests of one browser, a link two
of one user and one of another, a log of two records a fourth to overflow.

`SYMMETRY` is used only in runs without liveness.  Deadlock is checked where
the system never rests (`dispatch`, `agent_pool`).  The others may come to rest:
channels authenticate once, users and faults have a budget, a chosen part ends.

### Fairness

* `ConnectorDispatch`: a request that holds a tunnel goes on (each wait in the
  handshake, the relay and the recycle has a timeout or the request's context),
  and so do watchers and the closing of tunnels taken out.  Nothing forces
  requests, dials, lost peers, session changes, purges or trims.
* `TunnelTraffic`: frames that have arrived are read, the dispatch, the worker
  and the relay's goroutines go on.  No timeout has to fire, no client has to
  leave, no service has to answer or end, the link need not break.
* `BridgeSessions`: effects, running handlers, the sweeper's ticker and a
  pending drain go on; the TTL of a session whose channel is gone expires.
  Frames need not arrive, channels need not end.
* `ControlIntake`: the Bridge's own goroutines go on; clients and operators
  need not do anything.
* `AgentTunnelPool`: strong fairness for `Reconcile` (a ticker, and a mutex that
  is fair to waiters: session changes do not keep it out for ever) and for
  opening a tunnel (the Bridge can be reached); weak fairness for the loops,
  workers and the end of a traffic; a read on a dead connection returns.  The
  Bridge never has to send an open.
* `AgentControl`: the loop, its ticker and the callers go on.  Reading frames
  that have come, and the success of dials, handshakes and synchronisations,
  are strong: the Bridge can be reached often enough.  A channel's loss and a
  peer's silence are never required.
* `AgentHost`: the main thread, the supervisor thread, due retries, and a
  started agent's listening go on until the host exits.

Most of what must come about is stated as "again and again": `[]<>` that nothing of it
is owed.  Where what is owed stays owed until it is done, this is the same as a
leads-to, and TLC decides it far sooner.

## 4. Disagreements between code and text

`resync_refused` is expected to fail: the agent counts the versions of its
resources from zero in every process (`publisher.go:61`), the Bridge keeps the
versions of the earlier one, and so the full synchronisation of a restarted
agent is refused as old until the new counter has caught up.

Also seen with TLC while modelling, and kept here without a run of their own.

*Tunnels and sessions on the Bridge*

* The idle watcher looks a tunnel up idle, a dispatch makes it active, the
  watcher breaks it (control_plane.go:3219), although the comment at
  control_plane.go:3158 leaves active tunnels to the dispatcher.  Conversely, a
  stream lost while its recycle is committed goes back to idle unwatched, since
  the watcher that saw it active has ended (:3201, :3133).
* An accepted tunnel is registered with the owner resolved before a handshake
  is read (:3045); the session may be drained and purged meanwhile
  (`docs/LTFP-v1-Draft.md:601`: it carries no new traffic).
* A heartbeat makes a drained or ended session ACTIVE again (:1261), which the
  state diagram of `docs/LTFP-v1-Draft.md:584-596` does not have.  A resource
  event reads its session (:1223) and commits it ACTIVE (:1239) in two calls: a
  drain in between is undone, against the comment at :1231.
* A takeover between the mark of an ended session and the question whether it
  is current (:1444) leaves the ended session's instance ACTIVE
  (`docs/DevBridge-MultiAgent-ServiceModel-TechDesign.md:295`).
* Two welcomes give out the same epoch (:864) and, once the first session has
  ended, the second takes over with it; `docs/LTFP-v1-Draft.md:316` says epochs
  grow.  A refused commit of a session is not told to the authentication that
  asked for it (:748).
* Takeovers are counted with a clock read before the connector's lock
  (control_auth.go:255 and :272; comment at :17).
* The session an agent is told of need not be its connector's current one
  (`AckIsAuthoritative` of `AgentPublish` is violated; runtime_bridge.go:1821,
  `docs/Agent‑BridgeSecurityArchitectureAndAuthDesign.md:16`).
* A token revoked between its check and the commit still makes a session
  (`docs/Agent‑BridgeSecurityArchitectureAndAuthDesign.md:685`).
* A stream that never sends its handshake blocks the QUIC acceptor; a TCP
  control client silent for the first seconds is taken for a tunnel (:3238); the
  gRPC listener does detection and TLS serially in `Accept`; a failed listener
  is reported only when its connections have ended (:2037, :2139).

*Traffic*

* A traffic that the Bridge closes first is usually not recycled: the agent's
  relay acknowledges the close, closes the upstream, and takes the
  `net.ErrClosed` of its own pending read for an error (relay.go:237), so it
  writes a reset and the tunnel is closed.  The test's upstream returns `io.EOF`
  there (relay_test.go).  `RelayStops` allows both.
* On `grpc_h2`, when the service ends its side, the relay waits for its tunnel
  reader (relay.go:184), which nothing gets out of its read, and the close the
  Bridge waits for is never written (relay_test.go:372).  After a gRPC response
  the `Close` of the client connection waits for a lock that its own reader
  holds inside `ReadPayload` (ingress_grpc_server.go:566): `AnsweredCallEnds` of
  `IngressProxy` is violated under `FairSpec`.  A deadline there has
  no stream to cancel (grpcbinding/tunnel_acceptor.go:127).
* The HTTP entry's dispatch timeout also cuts long responses; a retried chunked
  GET is sent without its body the second time (ingress_http_server.go:36).
* An unavailable route ends its scope even when a lesser route of it could be
  served (resolver.go:165,
  `docs/Agent‑and‑Bridge‑Implementation‑Technical‑Design.md:138`).

*Resources*

* Two conflicting routes can both be admitted (route_conflict.go:47,
  `docs/DevBridge-MultiAgent-ServiceModel-TechDesign.md:1059`).
* A publish accepted before a takeover is written after it
  (publish_handler.go:157); `docs/LTFP-v1-Draft.md:607` forbids the old session
  to write.  With the old and the new session of one connector at work at once,
  an instance can go back to an older version (resource_event_guard.go:70).
* A health report writes the whole instance back that it has read
  (health_handler.go:108): when the session ends and its instances are withdrawn in
  between, the instance is ACTIVE again (control_plane.go:1411).
* On the Agent, listing and stamping are two steps (runtime_bridge.go:1574): a
  service removed in between is registered again.  A publish that fails on a
  channel that lives on is never retried.

*The Agent's pool and control loop*

* The reaper sees a tunnel idle, a worker activates it, the reaper closes it
  under its traffic (ttl_reaper.go:79; comment at :76).
* A refill request that arrives between a reconcile's last count and
  `clearPendingIfSatisfied` (manager.go:576) is forgotten; `PoolSettles` holds
  all the same because the minimum is looked at again on every tick.
* A drain read by a parked loop leaves the tunnel manager ACTIVE
  (runtime_bridge.go:2071); after a reconnect the manager stays ACTIVE while
  dials fail; the reader of a session that was left blocks for ever when its
  buffer of frames is full (:1154).

*Transport*

* A QUIC control write that times out inside a frame is reported, but the stream
  goes on (quicbinding/control_channel.go:109,
  `docs/Agent-Bridge-QUIC-Implementation-Plan.md:77`).  A write that failed at
  the last check may be on the wire (control_write_queue.go:213); abandoned
  fragments stay until their TTL (control_fragmentation.go:211).
* `pushIdleLocked` exceeds the maximum of idle tunnels (comment at
  tunnel_pool.go:207).  An idle tunnel whose peer has ended its gRPC stream, or
  finished its QUIC stream, is noticed only when it is used.  A TCP probe resets
  a read deadline that was set (stream_adapter.go:283).  The QUIC acceptor's
  `Close` leaves what is queued; the gRPC acceptor's closes tunnels in use.

*Host*

* A stop or shutdown that overtakes a start is undone when the start ends
  (`IntentionIsTheUsers`, `docs/Agent–TauriLocalCommunicationDesignProposal.md:708`
  and `:983`); a user's
  start and the supervisor's recovery may overlap, and then leave a process
  behind and pair processes and connections wrongly (`NoneForgotten` says so);
  a stale pending flag leads to a double start; a host that exits during a start
  leaves an orphan.
* A local client that has timed out stays one answer behind for its requests
  until a ping clears it; a server that writes a large answer nobody reads keeps
  every other client waiting.

*Certificates and configuration*

* The QUIC listener keeps the certificate it was started with (control_plane.go:2118,
  `docs/Agent‑BridgeSecurityArchitectureAndAuthDesign.md:228`): `QuicIsFresh` in
  `ServerCertificates` is violated.
* A renewal window may be shorter than the shortest interval of 200 ms, and with
  `renew_before = 0`, which is accepted (config.go:620), a certificate is renewed only
  when it has ended (cert_provider.go:540): the loop may come back after the end, and
  until then connections are given a certificate that has run out, for less than the
  difference.  `ServedIsFresh` bounds it so.
* The version of the configuration restarts at 1, so a stale `if_match_version`
  may match after a restart (`docs/BridgeAdminBackendTechnicalProposal.md:771`):
  `NoUpdateIsLost` in `ConfigStore` is violated.
* A crash between certificate and key of the root CA leaves a mismatch that
  nothing repairs; removing `tls_ca_cert_file` by a null patch is refused; an
  update overwrites hand edits made since the start.

## 5. Proofs

Assumptions: the `ASSUME`s of the modules, which give the constants their types
(a connector for each session, a positive reuse limit, `MinIdle <= MaxIdle`, a
finite set of agent tunnels, the `No...` values outside their sets; for
`RouteResolver`, a finite table of numbered routes and chains that are sequences;
for `BridgeServer`, limits that are positive once the constructors have replaced those
that are not, and a renewal window shorter than a certificate's life, which the code
validates; for `BridgeIngress`, `AgentDesktop` and `Transport`, natural bounds and
numbers of fragments).  The sets are otherwise arbitrary.

**`ConnectorDispatch_proofs`.**  `Exclusive`, `NoLeak`, `ReuseBound` and
`NoOrphanLink` are proved together, from one inductive invariant
(`Invariance`).  None is inductive alone: exclusive use needs that a tunnel
held by somebody is not idle (`HeldIsNotIdle`), a leak is excluded because a
dispatch closes before it marks (`ClosedBeforeMarked`) and knows its tunnel
while it is busy (`HeldWhileBusy`), a name not yet accepted has no record
(`UnknownBefore`), and a dispatch that commits a recycle has checked that the
limit leaves room (`CommitIsNotFinal`).  `ImplementsLeaseHolds` is the
refinement: with `idle`, `lent`, `gone` and `rounds` computed from the
registry and the dispatches, every step is a step of `TunnelLease` or a
stutter; purges, trims, watchers and dispatches that give up are all `Retire`.

**`BridgeSessions_proofs`.**  `ActiveIsCurrent` is inductive with types and the
fact that a drain that has not marked its session applies no effects
(`DrainIdle`).  `PurgeOwedHolds`, `HandoverHolds` and
`SuccessorKeepsInstanceHolds` are action properties proved from it, one step per kind of
goroutine; the last one needs who writes a status at all (`StatusWriters`).

**`AgentTunnelPool_proofs`.**  `IInv` joins where a job can be and what it knows
(`JobInv`), that a connection is closed before its record is removed
(`ClosedFirst`), what a suspended pool may still contain (`DrainInv`: what is
not closed is on the drain's list), and the stated invariants; `ClosedOnce` joins
that no connection is lost and that each has one closer.
`DrainedIsEmpty` follows from `DrainInv`; the others are conjuncts.  Counting
idle tunnels needs that the set of tunnels is finite.

**`TunnelTraffic_proofs`.**  One inductive invariant (`Invariant`) for both
ends: the numbers of the traffics and recycles grow together (`Numbers`), where
one end can be while the other is at each place (`Phases`), and which frames may
stand in the two queues and in which order (`AgentQueue`, `BridgeQueue`): an
open stands first, nothing follows a recycle or its answer, the first frame
after an open answers it.  The order is what makes it inductive: that a queue holds no data
of an earlier traffic follows from what the reader has taken before it.  Actions
with the same effect on the queues are proved once (`Effects` names the
classes), and taking and writing a frame are lemmas (`BridgeTook`, `AgentTook`,
`BridgeSent`, `AgentSent`).  `NeverMixed` follows from it; `ServesSerially` maps
each step to one of `SerialTunnel` or a stutter; `RecyclesAgree` adds the
numbers in the acknowledgement on its way (`Agreed`).

`NeverRefusedHolds` continues it.  `Seen` adds what each end has marked of the other's
close (`Marks`, `Told`), that whoever acts on a close has evidence of it on its way or
behind it (`Evident`), and that a recycle on its way is newer than what its reader has
answered (`Newer`); each is disturbed by the frames the other end writes, and the
order of the queues says which frames those can be.  From them: an agent that reads a
recycle has closed its traffic and has not seen the number, so it does not reject it,
and the Bridge's open is answered by its own answer (`AnswerAgrees`).

**`BridgeServer_proofs`.**  *Handshake.*  That the takeovers of a connector stay within the limit
needs that nobody else takes it over between a channel's check and its commit, and
that is the lock's doing.  So the invariant says what the lock is for: a channel that
uses a lock uses the one in the map (`LocksNamed`), its count of references is exact
(`RefsExact`, which is why a lock is not forgotten while somebody waits for it), who
is between lock and unlock is its holder (`HoldersHold`), and a channel that is to
take over has found room (`Room`).  `GuardsCount` is the last conjunct of `IInv`;
`OneAtATime` (one authentication per connector between lock and unlock) follows.

*Configuration* (`ConfigSafe`).  One update at a time is between lock and unlock
(`OneUpdates`); what it is about to save is valid and finds its root CA where it was
when the update looked (`NextFits`); an admin that knows the version of this process
has read the layers of this moment (`SeenIsShown`).  Then what is shown is saved, at
each step of a save that fails or stops half way, and `UpdatesAreSeen` is the property
of the steps: within one life of the process no update replaces what its author had not
read.  Across two lives it does (section 4).

*Certificates* (`CertificatesSafe`).  `Promised` relates what is served to the time of
the next look at it: a managed certificate does not end before that, or at most by what
the shortest interval exceeds the renewal window (`Overrun`), an operator's is that of the
key, or has been looked at within the interval.  A certificate that was not renewed
lasts longer than the window, and a new one lasts longer than it too, which is all that
is assumed of the two times: the code validates it.

*Tokens* (`TokensSafe`).  One request is served at a time (`OneServed`); what it has
learned of the memory is still so (`LearnedFits`), and what it is to write, to the file
first and then to the memory, keeps every answer given and contains its own
(`WritingFits`).  So a crash between the two finds a file that honours them all.

*Admin API* (`AdminSafe`).  `SessionsFit`: a session or a cookie comes of an answered
login, none is both over and present, and a request that came after its session was
ended gets no further than the answer that turns it away.  `LinksFit`: what is stored
is what the links said, what is taken is gone, and what gives way to newer exports
leaves as many of them as fit (`NewestFit`, by counting).  `LogFits`: the log is the
end of all records there were, as many as fit, and a request's records before it are
the ones not younger than it; `SearchShows` reads a search's last page off that.
`ServerAnswersHold` puts the tokens' half and the API's half together.

**`Transport_proofs`.**  *Pool.*  `IInv` says where a tunnel is: in no place before it is
made (`Fresh`), in some place while its connection is open (`Held`), and never in two
at once, open or not (`Apart`).  Every action is one of three kinds, proved once each:
it makes a tunnel somewhere (`Begins`), moves some from one place to another (`Moves`,
`OneMoves`) or leaves what is open where it is (`Stays`); what remains per action is
which places it touches (`UserPlaces`, `ServerPlaces`, `WorkerPlaces`,
`MaintenancePlaces`).  `WellKept` counts places, so it needs that what stands in an
acceptor's queue will still be taken from it: `Queue` says that a closed TCP acceptor
with nobody draining has an empty queue.  Its second part needs the sweep's snapshot
(`Swept`): a tunnel that was old then and was not put in again is old still, as long
as nobody has settled on it.  `NoMissedWakeup` needs that the order of the pool names
every idle tunnel (`Covered`), or a pop would find nothing beside one.  `Links` holds
what the bindings make of a tunnel: that an operation leaves a fit tunnel fit or ends
it is a lemma for each of `Probed`, the reads and the writes.  The recursive function
`Without` is reasoned about by a least counterexample (`LeastNumber`).

*Control channel* (`ChannelSafe`).  `QueueFits` says that queue and write loop hold
exactly the frames that are still owed, `EntriesFit` that each write enters once, so a
write that is neither finished nor given up has its frames somewhere: `NoLostWrite`.
Order is stated over everything that is still `Coming` to the reader, on the wire or
not, by the place of the write and then the part (`QueueOrdered`, `WireOrdered`,
`ReaderFits`), since only so it is inductive: each of the twenty actions keeps, grows,
moves or reads this line, and those four are lemmas (`LineKeeps`, `LineGrows`,
`LinePuts`, `LineReads`).  `TornFits` says that nothing comes behind a torn frame.
The reader completes a message with its last part only because parts come in
increasing order; `InOrder` follows.

**`AgentDesktop_proofs`.**  *Host.*  `NoneForgotten` needs to know what a start finds when it
records its process: `Vacant` says that a thread that is past its look and has yet to
record finds no child, because that look found none and nobody else records one
(`OneStart`).  `Asking` gives a command that calls the agent a client, without which
the types are lost.  `NoneOverwritten` is the same fact as a property of the steps.
`raced` is in each of them: the code does lose a process when two starts overlap
(section 4), and the theorems say that this is the only way.

*Local connection* (`RpcSafe`).  Which requests and answers can stand on a connection
depends on whether the agent trusts it (`ConnectionFits`): nothing but the handshake
before, so a client that is up has met an agent that trusts it.  A client waits in the
backlog, is served, or has been hung up on; one that waits has sent its first request
and has no answer (`Unaccepted`).  `InStep` follows for every number of clients and calls.

**`BridgeIngress_proofs`.**  *Resolver.*  The order of the candidates comes first: it is total
(`BeforeOrders`), a finite set with such an order has a first element (`FirstExists`,
by a least counterexample), so `First` is what it says and a change of the registries
does not move it (`ConfigStays`).  Then one conjunct of `Good` per stage of a lookup:
`Found` (what it has left is some of what it found, none once it is at its external
routes), `SteadyIsFit` with `Seen` (an instance fit to serve all the time is among
those the lookup has read as usable or has yet to read), `HeldAsThen` (the affinity is
the one it began with, or none, and none when it stores) and `AllSettled`, the point of
it: a route that has been dropped could not be served all the time, or its scope has
been left because another could not.  `Registered` and `OneByOne` (lookups of one
traffic come one after the other) are what `Seen` and `HeldAsThen` lean on.
`NothingSkippedHolds` and `TrafficStaysHolds` read the end of a lookup (`EndsAt`) off
these.  A lookup's step keeps the other lookups good since it can at most evict the
affinities of other traffics (`OthersStay`).

*Endpoint cache* (`DirectSafe`).  The time a request judges by is one the clock has
shown, so what it finds too old is, and stays so until it takes it out (`RefreshKept`).
*Calls* (`CallsSafe`).  `CallFits` relates a call's place to the heads it has written:
none while it may still be tried again, one once it copies, recycles or closes; so a
retry or a fallback answers only a call that has no answer.
*Owners* (`OwnersSafe`).  A traffic's record is its last observation and has its
reference in the queue (`References`), versions and times rise together (`Rising`), and
a record that goes leaves as many later ones as fit (`EvictionFits`), whatever old
references the queue still holds.

`Exclusive`, `ReuseBound`, `NoOrphanLink`, `Handover`, `RecycleAgreed`, `OneAtATime`
and `NoneOverwritten` are proved and no run lists them; a run would show less.

Only model-checked: every liveness property (out of TLAPS's reach here);
`AcceptedHolds` and `NoRollback` of `ResourceControl`, which are not theorems for all
constants: with the old and the new session of a connector at work at once they fail
(section 4), and the run's constants leave that out; and `CatalogArrives` of
`AgentPublish`, whose Bridge handles a sequence of messages by a fold, of which nothing
can be proved without induction over data.  Every other safety property of a run is a
theorem.

## 6. Not modelled, and the plan

Components with status `not_modelled` or `partly` in `PROJECT.json` say why.  Not
modelled at all: the protocol library (conversions and checks), metrics, logs and
web consoles, the SDK (a client that polls).  Left out of modelled components:
the contents of lists, exports and events; the transport library's heartbeat and
in-memory session; the agent's session manager, which its runtime does not use;
parsing, defaults and value checks.

Next, in this order:

1. Proofs: `CatalogArrives`, and what `ResourceControl` promises while
   a connector has one session at work.
2. The transport's heartbeat.
3. Larger instances where a part of a run is small: two connections in
   `ControlIntake`, two calls that share a tunnel in `IngressProxy`.
