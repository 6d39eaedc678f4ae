--------------------------- MODULE TransportPool ---------------------------
(***************************************************************************)
(* The tunnel pool of the transport library (ltfp/transport): the pool     *)
(* itself, the tunnels of the three bindings as far as the pool can tell   *)
(* them apart, and everything that puts tunnels in or takes them out: the  *)
(* acceptor of the server role, the refill controller of the agent role,   *)
(* the users that acquire and recycle, and the maintenance that evicts.    *)
(*                                                                         *)
(* A payload is a token: a tunnel's inbox is empty, holds the first half   *)
(* of a frame or a whole payload.  Times are kept as far as they decide    *)
(* something: `aged' holds the tunnels whose idle TTL has run out, and     *)
(* ev.same those put in at the same instant as in the evictor's snapshot.  *)
(***************************************************************************)
EXTENDS Naturals, FiniteSets, Sequences

CONSTANTS Tunnels,    \* every tunnel that is ever accepted or opened
          NoTunnel,   \* no tunnel in hand
          Sides,      \* the sessions looked at, see SideType
          Users,      \* callers of Acquire and Recycle
          Workers,    \* goroutines of one refill (max_inflight_tunnel_opens)
          Requests,   \* refill request ids
          MaxIdle,    \* max_idle_tunnels of the pool
          QueueSize,  \* capacity of the acceptor's queue
          Delta       \* requested_idle_delta of every refill request

\* A session has a role and a binding; the bounds on its concurrent users, on the
\* frames its peers send and on the sweeps of its maintenance come with it.
SideType == [role : {"server", "agent"}, kind : {"tcp", "grpc", "quic"},
             callers : Nat, sends : Nat, sweeps : Nat]

ASSUME PoolConstants ==
    /\ NoTunnel \notin Tunnels
    /\ Sides \subseteq SideType
    /\ MaxIdle \in Nat \ {0} /\ QueueSize \in Nat \ {0} /\ Delta \in Nat \ {0}

VARIABLES
    side,       \* the session the pool belongs to
    tun,        \* tunnel -> [state, link, inbox, pend, half]
    idle,       \* keys of idleTunnelsByID
    order,      \* idleTunnelOrder
    inUse,      \* keys of inUseTunnelsByID
    aged,       \* tunnels whose insertedAt is a TTL or more in the past
    user,       \* user -> [pc, t, signalled]
    sv,         \* the acceptor's Serve loop: [pc, t]
    pending,    \* pendingTunnels
    acc,        \* the acceptor: "open", "draining" (doneChannel closed), "closed"
    con,        \* AcceptTunnelToPool: [pc, t]
    handler,    \* gRPC tunnel -> "none", "offering", "serving" or "ended"
    ev,         \* the maintenance: [pc, snap, same, expired, cand, out]
    refill,     \* one RefillToTarget: [pc, target, jobs]
    worker,     \* refill worker -> [pc, t]
    seen,       \* requestSeenAt
    sends,      \* frames sent so far
    sweeps      \* sweeps begun so far

poolVars   == <<idle, order, inUse, aged>>
serverVars == <<sv, pending, acc, con, handler>>
agentVars  == <<refill, worker, seen>>
boundVars  == <<sends, sweeps>>
vars == <<side, tun, poolVars, user, serverVars, ev, agentVars, boundVars>>

-----------------------------------------------------------------------------
(* Tunnels *)

Absent == [state |-> "none", link |-> "up", inbox |-> "empty",
           pend |-> FALSE, half |-> FALSE]

\* The constructors of the three bindings: a tunnel starts idle, its link up.
NewTunnel == [Absent EXCEPT !.state = "idle"]

Terminal(t) == tun[t].state \in {"closed", "broken"}
Open(t)     == tun[t].state = "idle"

\* markClosed: a broken tunnel stays broken.  What a tunnel that ended had
\* buffered is forgotten here: only its own reader could still see it.
Closed(r) == IF r.state = "broken" THEN r ELSE [Absent EXCEPT !.state = "closed", !.link = "down"]

\* markBroken, Reset: the connection is closed and the state broken.
Broken(r) == [Absent EXCEPT !.state = "broken", !.link = "down"]

\* readTunnelPayloadFromConn: what the next read of a framed TCP connection
\* finds.  A stream that ends inside a frame is broken.
Receive(r) ==
    CASE r.inbox # "empty"              -> r.inbox
      [] r.link = "up"                  -> "nothing"
      [] r.link \in {"fin", "down"}     -> IF r.half THEN "error" ELSE "eof"
      [] r.link = "cut"                 -> "error"

\* Probe of a framed TCP tunnel: a read with a deadline of now.
TCPProbe(r) ==
    CASE r.pend                        -> r
      [] Receive(r) = "data"           -> [r EXCEPT !.inbox = "empty", !.pend = TRUE, !.half = FALSE]
      [] Receive(r) = "half"           -> [r EXCEPT !.inbox = "empty", !.half = TRUE]
      [] Receive(r) = "nothing"        -> r
      [] Receive(r) = "eof"            -> Closed(r)
      [] Receive(r) = "error"          -> Broken(r)

\* The ways a Read of each binding can return, as the tunnel is afterwards; none
\* while it blocks.  A payload longer than the caller's buffer leaves a rest read
\* ahead in TCP and gRPC.  At a deadline TCP keeps what it has of the frame and
\* QUIC just returns; gRPC cannot stop one Recv and cancels the whole stream.
Taken(r, rest) == [r EXCEPT !.inbox = "empty", !.half = FALSE, !.pend = rest]

TCPReads(r) ==
    CASE r.pend                        -> {[r EXCEPT !.pend = FALSE]}
      [] ~r.pend /\ Receive(r) = "data"    -> {Taken(r, FALSE), Taken(r, TRUE)}
      [] ~r.pend /\ Receive(r) = "eof"     -> {Closed(r)}
      [] ~r.pend /\ Receive(r) = "error"   -> {Broken(r)}
      [] ~r.pend /\ Receive(r) = "half"    -> {[r EXCEPT !.inbox = "empty", !.half = TRUE]}
      [] ~r.pend /\ Receive(r) = "nothing" -> {r}

GRPCReads(r) ==
    CASE r.pend                         -> {[r EXCEPT !.pend = FALSE]}
      [] ~r.pend /\ r.inbox = "data"    -> {Taken(r, FALSE), Taken(r, TRUE)}
      [] ~r.pend /\ r.inbox = "empty"   -> IF r.link = "fin" THEN {Closed(r)} ELSE {Broken(r)}

QUICReads(r) ==
    CASE r.inbox = "data" -> {Taken(r, FALSE)}
      [] r.inbox = "empty" /\ r.link = "up"  -> {r}
      [] r.inbox = "empty" /\ r.link = "fin" -> {Closed(r)}
      [] r.inbox = "empty" /\ r.link \in {"cut", "down"} -> {Closed(r), Broken(r)}

\* The ways a Write returns, likewise.  A deadline that cuts a TCP frame in two
\* breaks the tunnel, one before it does not; gRPC cancels the stream; a QUIC
\* stream takes the part that was written.
TCPWrites(r) ==
    CASE r.link = "up"  -> {r, Broken(r)}
      [] r.link = "fin" -> {r, Closed(r), Broken(r)}
      [] r.link = "cut" -> {Closed(r), Broken(r)}

GRPCWrites(r) == IF r.link = "cut" THEN {Closed(r), Broken(r)} ELSE {r, Broken(r)}

QUICWrites(r) == IF r.link = "cut" THEN {Closed(r), Broken(r)} ELSE {r}

\* Probe: only the TCP binding probes; the others answer ErrUnsupported.
Probed(r) == IF side.kind = "tcp" /\ r.state = "idle" THEN TCPProbe(r) ELSE r

\* classifyIdleTunnelRuntimeState followed by the binding's Probe: the tunnel
\* afterwards is r and it is fit to be handed out.
Fit(r) == r.state = "idle"

\* Recyclable, of each binding.
TCPRecyclable(r)  == r.state = "idle" /\ ~r.pend /\ ~r.half
GRPCRecyclable(r) == r.state = "idle" /\ ~r.pend
QUICRecyclable(r) == r.state = "idle"

ByKind(tcp, grpc, quic) ==
    CASE side.kind = "tcp" -> tcp [] side.kind = "grpc" -> grpc [] side.kind = "quic" -> quic

Recyclable(r) == ByKind(TCPRecyclable(r), GRPCRecyclable(r), QUICRecyclable(r))

\* Flush looks at what was read ahead and not at the state.
Flushed(r) == ~r.pend /\ ~r.half

\* Some reader sits in Read of t, with the tunnel's readMutex.
ReadLocked(t) == \E u \in Users : user[u].pc = "reading" /\ user[u].t = t

-----------------------------------------------------------------------------
(* The pool, under its mutex *)

\* (A mutant: the channel is replaced but not closed.)
NotifiedNobody == user

\* notifyLocked: every waiting Acquire captured the channel that is closed.
Notified == [u \in Users |-> [user[u] EXCEPT !.signalled = @ \/ user[u].pc = "waiting"]]

\* PutIdle is refused for a tunnel that is not idle, in use, or one too many.
Refused(t) ==
    \/ ~Open(t)
    \/ t \in inUse
    \/ t \notin idle /\ Cardinality(idle) >= MaxIdle

\* PutIdle: appended to the order only when it was not there.
PutIdle(t, users) ==
    /\ ~Refused(t)
    /\ idle' = idle \cup {t}
    /\ order' = IF t \in idle THEN order ELSE Append(order, t)
    /\ aged' = aged \ {t}
    /\ ev' = [ev EXCEPT !.same = @ \ {t}]
    /\ user' = [u \in Users |->
                  [users[u] EXCEPT !.signalled = @ \/ (t \notin idle /\ users[u].pc = "waiting")]]
    /\ UNCHANGED inUse

\* removeIdleOrderLocked, for each of the tunnels ts; the order holds none of them twice.
Without(s, ts) ==
    LET left[n \in 0..Len(s)] ==
            IF n = 0 THEN <<>>
            ELSE IF s[n] \in ts THEN left[n - 1] ELSE Append(left[n - 1], s[n])
    IN  left[Len(s)]

\* The tunnels ts leave the idle map, the times and the order.
TakeIdle(ts) ==
    /\ idle' = idle \ ts
    /\ order' = Without(order, ts)
    /\ UNCHANGED <<inUse, aged>>

-----------------------------------------------------------------------------
(* Acquire and Recycle *)

Set(u, pc, t) == [user EXCEPT ![u] = [@ EXCEPT !.pc = pc, !.t = t]]

\* A user calls Acquire.
StartAcquire(u) ==
    /\ user[u].pc = "out" /\ Cardinality({v \in Users : user[v].pc # "out"}) < side.callers
    /\ user' = Set(u, "popping", NoTunnel)
    /\ UNCHANGED <<side, tun, poolVars, serverVars, ev, agentVars, boundVars>>

\* Ids are popped from the head of the order until one is still idle; with none
\* found the channel of the moment is captured under the same lock.
Pop(u) ==
    LET found == {n \in DOMAIN order : order[n] \in idle} IN
    /\ user[u].pc = "popping"
    /\ \/ /\ found = {}
          /\ user' = [user EXCEPT ![u] = [@ EXCEPT !.pc = "waiting", !.signalled = FALSE]]
          /\ order' = <<>>
          /\ UNCHANGED idle
       \/ \E n \in found :
             /\ \A m \in found : n <= m
             /\ user' = Set(u, "probing", order[n])
             /\ idle' = idle \ {order[n]}
             /\ order' = SubSeq(order, n + 1, Len(order))
    /\ UNCHANGED <<side, tun, inUse, aged, serverVars, ev, agentVars, boundVars>>

\* The wait ends with a broadcast, or with the caller's context, which may be
\* cancelled or run out at any time.
Wake(u) ==
    /\ user[u].pc = "waiting"
    /\ \E pc \in {"popping", "out"} :
          /\ pc = "popping" => user[u].signalled
          /\ user' = [user EXCEPT ![u] = [@ EXCEPT !.pc = pc, !.signalled = FALSE]]
    /\ UNCHANGED <<side, tun, poolVars, serverVars, ev, agentVars, boundVars>>

\* classifyIdleTunnelAcquireState, without the pool's lock.  A tunnel found bad
\* is cleaned up (nobody else has it) and the next one is tried.
ProbePopped(u) ==
    LET t == user[u].t
        r == Probed(tun[t])
    IN
    /\ user[u].pc = "probing" /\ ~ReadLocked(t)
    /\ \/ /\ Fit(r)
          /\ tun' = [tun EXCEPT ![t] = r] /\ user' = Set(u, "probed", t)
          /\ UNCHANGED aged
       \/ /\ ~Fit(r)
          /\ tun' = [tun EXCEPT ![t] = Broken(r)] /\ user' = Set(u, "popping", NoTunnel)
          /\ aged' = aged \ {t}
    /\ UNCHANGED <<side, idle, order, inUse, serverVars, ev, agentVars, boundVars>>

\* Back under the lock: the caller was cancelled and the tunnel goes back as it
\* was, over max_idle_tunnels if need be.
PushBack(u) ==
    LET t == user[u].t IN
    /\ user[u].pc = "probed"
    /\ idle' = idle \cup {t}
    /\ order' = Append(order, t)
    /\ user' = [Notified EXCEPT ![u] = [@ EXCEPT !.pc = "out", !.t = NoTunnel]]
    /\ UNCHANGED <<side, tun, inUse, aged, serverVars, ev, agentVars, boundVars>>

\* Or the tunnel is looked at once more: it is in use from here, or it failed
\* meanwhile and is cleaned up.
Settle(u) ==
    LET t == user[u].t IN
    /\ user[u].pc = "probed"
    /\ \/ /\ Fit(tun[t])
          /\ inUse' = inUse \cup {t} /\ user' = Set(u, "using", t)
          /\ aged' = aged \ {t}
          /\ UNCHANGED tun
       \/ /\ ~Fit(tun[t])
          /\ tun' = [tun EXCEPT ![t] = Broken(@)] /\ user' = Set(u, "popping", NoTunnel)
          /\ aged' = aged \ {t}
          /\ UNCHANGED inUse
    /\ UNCHANGED <<side, idle, order, serverVars, ev, agentVars, boundVars>>

\* The user reads: the readMutex is held until the Read returns.
StartRead(u) ==
    /\ user[u].pc = "using" /\ Open(user[u].t)
    /\ user' = Set(u, "reading", user[u].t)
    /\ UNCHANGED <<side, tun, poolVars, serverVars, ev, agentVars, boundVars>>

EndRead(u) ==
    LET t == user[u].t IN
    /\ user[u].pc = "reading"
    /\ \E r \in ByKind(TCPReads(tun[t]), GRPCReads(tun[t]), QUICReads(tun[t])) :
          tun' = [tun EXCEPT ![t] = r]
    /\ user' = Set(u, "using", t)
    /\ UNCHANGED <<side, poolVars, serverVars, ev, agentVars, boundVars>>

\* The user writes.
UserWrites(u) ==
    LET t == user[u].t IN
    /\ user[u].pc = "using" /\ Open(t)
    /\ \E r \in ByKind(TCPWrites(tun[t]), GRPCWrites(tun[t]), QUICWrites(tun[t])) :
          tun' = [tun EXCEPT ![t] = r]
    /\ UNCHANGED <<side, user, poolVars, serverVars, ev, agentVars, boundVars>>

\* Recycle: out of the in-use map, then the tunnel is checked without the lock and
\* closed (cleanupClosedTunnel) unless it is clean, or when the caller's context is
\* done, as it may be at any time.
StartRecycle(u) ==
    LET t == user[u].t IN
    /\ user[u].pc = "using" /\ t \in inUse
    /\ inUse' = inUse \ {t}
    /\ \/ Recyclable(tun[t]) /\ user' = Set(u, "putting", t) /\ UNCHANGED tun
       \/ tun' = [tun EXCEPT ![t] = Broken(@)] /\ user' = Set(u, "out", NoTunnel)
    /\ UNCHANGED <<side, idle, order, aged, serverVars, ev, agentVars, boundVars>>

\* Flush, then PutIdle; what either refuses is closed.
PutRecycled(u) ==
    LET t == user[u].t IN
    /\ user[u].pc = "putting"
    /\ \/ Flushed(tun[t]) /\ PutIdle(t, Set(u, "out", NoTunnel)) /\ UNCHANGED tun
       \/ /\ ~Flushed(tun[t]) \/ Refused(t)
          /\ tun' = [tun EXCEPT ![t] = Broken(@)] /\ user' = Set(u, "out", NoTunnel)
          /\ UNCHANGED <<poolVars, ev>>
    /\ UNCHANGED <<side, serverVars, agentVars, boundVars>>

\* Remove by the user who has the tunnel: no map knows it any more, and its
\* closing, which follows at once, is the caller's.
Remove(u) ==
    LET t == user[u].t IN
    /\ user[u].pc = "using" /\ t \in idle \cup inUse
    /\ inUse' = inUse \ {t} /\ idle' = idle \ {t}
    /\ order' = Without(order, {t})
    /\ tun' = [tun EXCEPT ![t] = Closed(@)] /\ user' = Set(u, "out", NoTunnel)
    /\ UNCHANGED <<side, aged, serverVars, ev, agentVars, boundVars>>

-----------------------------------------------------------------------------
(* Maintenance: EvictExpiredIdle and EvictZombieIdle *)

Resting == [pc |-> "rest", snap |-> {}, same |-> {}, expired |-> {}, cand |-> {}, out |-> {}]

\* EvictExpiredIdle: what has aged leaves the maps under one lock and is closed
\* after it.
EvictExpired ==
    /\ ev.pc = "rest" /\ sweeps < side.sweeps
    /\ aged \cap idle # {}
    /\ TakeIdle(aged \cap idle)
    /\ ev' = [ev EXCEPT !.pc = "closing", !.out = aged \cap idle, !.expired = aged \cap idle]
    /\ sweeps' = sweeps + 1
    /\ UNCHANGED <<side, tun, user, serverVars, agentVars, sends>>

\* EvictZombieIdle: the snapshot, with the instants the tunnels were put in.
Snapshot ==
    /\ ev.pc = "rest" /\ sweeps < side.sweeps
    /\ idle # {}
    /\ ev' = [pc |-> "scanning", snap |-> idle, same |-> idle,
              expired |-> aged \cap idle, cand |-> {}, out |-> {}]
    /\ sweeps' = sweeps + 1
    /\ UNCHANGED <<side, tun, poolVars, user, serverVars, agentVars, sends>>

\* One tunnel of the snapshot is classified, without the pool's lock: its
\* state, then the TTL, then the Probe.  It may be in use by now.
Scan(t) ==
    /\ ev.pc = "scanning" /\ t \in ev.snap
    /\ t \in ev.expired \/ ~Fit(tun[t]) \/ ~ReadLocked(t)
    /\ tun' = IF Fit(tun[t]) /\ t \notin ev.expired
              THEN [tun EXCEPT ![t] = Probed(@)] ELSE tun
    /\ ev' = [ev EXCEPT !.snap = @ \ {t},
                        !.cand = IF t \in ev.expired \/ ~Fit(tun'[t]) THEN @ \cup {t} ELSE @]
    /\ UNCHANGED <<side, poolVars, user, serverVars, agentVars, boundVars>>

\* (A mutant: whichever tunnel of that id is idle now.)
StillThereByName(t) == t \in idle

\* sameInsertedAt: still idle, and not put in again since the snapshot.
StillThere(t) == t \in idle /\ t \in ev.same

\* The candidates that are still there are removed: at the end of the snapshot, or before
\* it when the maintenance is cancelled.
EvictCandidates ==
    /\ ev.pc = "scanning"
    /\ LET gone == {t \in ev.cand : StillThere(t)} IN
          /\ TakeIdle(gone)
          /\ ev' = IF gone = {} THEN Resting
                   ELSE [Resting EXCEPT !.pc = "closing", !.out = gone, !.expired = ev.expired \cap gone]
    /\ UNCHANGED <<side, tun, user, serverVars, agentVars, boundVars>>

\* cleanupEvictedIdleTunnel: an expired tunnel is closed, any other is reset.
CloseEvicted(t) ==
    /\ ev.pc = "closing" /\ t \in ev.out
    /\ tun' = [tun EXCEPT ![t] = IF t \in ev.expired THEN Closed(@) ELSE Broken(@)]
    /\ aged' = aged \ {t}
    /\ ev' = IF ev.out = {t} THEN Resting ELSE [ev EXCEPT !.out = @ \ {t}]
    /\ UNCHANGED <<side, idle, order, inUse, user, serverVars, agentVars, boundVars>>

\* The TTL of an idle tunnel runs out.
Age(t) ==
    /\ t \in idle /\ t \notin aged
    /\ aged' = aged \cup {t}
    /\ UNCHANGED <<side, tun, idle, order, inUse, user, serverVars, ev, agentVars, boundVars>>

-----------------------------------------------------------------------------
(* Server role: the acceptors and AcceptTunnelToPool *)

\* The TCP and QUIC loops accept a connection or stream, unless the acceptor is
\* done: its listener or connection is closed with it.
Accept(t) ==
    /\ side.role = "server" /\ side.kind # "grpc" /\ sv.pc = "accepting" /\ acc = "open"
    /\ tun[t].state = "none"
    /\ tun' = [tun EXCEPT ![t] = NewTunnel]
    /\ sv' = [pc |-> "offering", t |-> t]
    /\ UNCHANGED <<side, poolVars, user, pending, acc, con, handler, ev, agentVars, boundVars>>

\* The select of the loop: with the acceptor done the tunnel is closed, with
\* room in the queue it is sent; with both, either.  Only the TCP loop looks
\* again after the send.
Offer ==
    /\ sv.pc = "offering"
    /\ \/ /\ acc # "open"
          /\ tun' = [tun EXCEPT ![sv.t] = Closed(@)]
          /\ sv' = [pc |-> "ended", t |-> NoTunnel]
          /\ UNCHANGED pending
       \/ /\ Len(pending) < QueueSize
          /\ pending' = Append(pending, sv.t)
          /\ sv' = [pc |-> IF side.kind = "tcp" THEN "sent" ELSE "accepting", t |-> NoTunnel]
          /\ UNCHANGED tun
    /\ UNCHANGED <<side, poolVars, user, acc, con, handler, ev, agentVars, boundVars>>

\* After the send the TCP loop looks again, and drains what nobody will take.
CheckDone ==
    /\ sv.pc = "sent"
    /\ sv' = [sv EXCEPT !.pc = IF acc = "open" THEN "accepting" ELSE "draining"]
    /\ UNCHANGED <<side, tun, poolVars, user, pending, acc, con, handler, ev, agentVars, boundVars>>

\* Blocked in Accept the loop is ended by the close.
ServeEnds ==
    /\ sv.pc = "accepting" /\ acc # "open"
    /\ sv' = [sv EXCEPT !.pc = "ended"]
    /\ UNCHANGED <<side, tun, poolVars, user, pending, acc, con, handler, ev, agentVars, boundVars>>

\* gRPC has one handler per stream: HandleTunnelStream makes the tunnel ...
HandleTunnelStream(t) ==
    /\ side.role = "server" /\ side.kind = "grpc"
    /\ tun[t].state = "none"
    /\ tun' = [tun EXCEPT ![t] = NewTunnel]
    /\ handler' = [handler EXCEPT ![t] = "offering"]
    /\ UNCHANGED <<side, poolVars, user, sv, pending, acc, con, ev, agentVars, boundVars>>

\* ... offers it to the queue ...
OfferStream(t) ==
    /\ handler[t] = "offering" /\ Len(pending) < QueueSize
    /\ pending' = Append(pending, t)
    /\ handler' = [handler EXCEPT ![t] = "serving"]
    /\ UNCHANGED <<side, tun, poolVars, user, sv, acc, con, ev, agentVars, boundVars>>

\* ... and stays until the acceptor is done (the tunnel is closed, wherever it
\* is), the stream's context is (it is reset), or the tunnel is.
HandlerEnds(t) ==
    /\ handler[t] \in {"offering", "serving"}
    /\ \/ acc # "open" /\ tun' = [tun EXCEPT ![t] = Closed(@)]
       \/ Open(t) /\ tun[t].link = "cut" /\ tun' = [tun EXCEPT ![t] = Broken(@)]
       \/ handler[t] = "serving" /\ Terminal(t) /\ UNCHANGED tun
    /\ handler' = [handler EXCEPT ![t] = "ended"]
    /\ UNCHANGED <<side, poolVars, user, sv, pending, acc, con, ev, agentVars, boundVars>>

\* Close of the acceptor: doneChannel is closed; TCP drains the queue as well.
CloseAcceptor ==
    /\ side.role = "server" /\ acc = "open"
    /\ acc' = IF side.kind = "tcp" THEN "draining" ELSE "closed"
    /\ UNCHANGED <<side, tun, poolVars, user, sv, pending, con, handler, ev, agentVars, boundVars>>

\* The owner of a QUIC session closes the connection after its acceptor: every
\* stream is cut, the queued ones too.
CloseConn ==
    /\ side.kind = "quic" /\ acc = "closed"
    /\ \E t \in Tunnels : Open(t) /\ tun[t].link # "cut"
    /\ tun' = [t \in Tunnels |-> IF Open(t) THEN [tun[t] EXCEPT !.link = "cut"] ELSE tun[t]]
    /\ UNCHANGED <<side, poolVars, user, serverVars, ev, agentVars, boundVars>>

\* drainPendingTunnels, by the closer or by the loop: one tunnel at a time,
\* until the queue is empty.
Drain(draining, drained) ==
    /\ draining
    /\ \/ /\ pending # <<>>
          /\ tun' = [tun EXCEPT ![Head(pending)] = Closed(@)]
          /\ pending' = Tail(pending)
          /\ UNCHANGED <<acc, sv>>
       \/ pending = <<>> /\ drained /\ UNCHANGED <<tun, pending>>

DrainPending ==
    /\ \/ Drain(acc = "draining", acc' = "closed" /\ UNCHANGED sv)
       \/ Drain(sv.pc = "draining", sv' = [sv EXCEPT !.pc = "ended"] /\ UNCHANGED acc)
    /\ UNCHANGED <<side, poolVars, user, con, handler, ev, agentVars, boundVars>>

\* AcceptTunnel: the select takes a tunnel, or sees the acceptor done.
TakePending ==
    /\ con.pc = "waiting"
    /\ \/ /\ acc # "open"
          /\ con' = [pc |-> "ended", t |-> NoTunnel]
          /\ UNCHANGED pending
       \/ /\ pending # <<>>
          /\ con' = [pc |-> "taken", t |-> Head(pending)]
          /\ pending' = Tail(pending)
    /\ UNCHANGED <<side, tun, poolVars, user, sv, acc, handler, ev, agentVars, boundVars>>

\* What was taken is reset when the acceptor is done, skipped when it already
\* ended, and delivered otherwise.
CheckTaken ==
    /\ con.pc = "taken"
    /\ \/ /\ acc # "open"
          /\ tun' = [tun EXCEPT ![con.t] = Broken(@)]
          /\ con' = [pc |-> "ended", t |-> NoTunnel]
       \/ /\ acc = "open"
          /\ con' = IF Terminal(con.t) THEN [pc |-> "waiting", t |-> NoTunnel]
                    ELSE [con EXCEPT !.pc = "putting"]
          /\ UNCHANGED tun
    /\ UNCHANGED <<side, poolVars, user, sv, pending, acc, handler, ev, agentVars, boundVars>>

\* AcceptTunnelToPool: into the pool, or reset.
PutAccepted ==
    /\ con.pc = "putting"
    /\ \/ PutIdle(con.t, user) /\ UNCHANGED tun
       \/ /\ Refused(con.t)
          /\ tun' = [tun EXCEPT ![con.t] = Broken(@)]
          /\ UNCHANGED <<poolVars, user, ev>>
    /\ con' = [pc |-> "waiting", t |-> NoTunnel]
    /\ UNCHANGED <<side, sv, pending, acc, handler, agentVars, boundVars>>

-----------------------------------------------------------------------------
(* Agent role: the refill controller *)

Lesser(a, b) == IF a < b THEN a ELSE b

\* HandleRefillRequest: a request id seen before changes nothing; the target is
\* the idle count of the moment and the delta, at most max_idle_tunnels.
HandleRefillRequest(q) ==
    /\ side.role = "agent" /\ refill.pc = "rest" /\ q \notin seen
    /\ seen' = seen \cup {q}
    /\ refill' = [pc |-> "target", target |-> Lesser(Cardinality(idle) + Delta, MaxIdle), jobs |-> 0]
    /\ UNCHANGED <<side, tun, poolVars, user, serverVars, ev, worker, boundVars>>

\* RefillToTarget counts again, and starts at most Workers goroutines.
RefillToTarget ==
    /\ refill.pc = "target"
    /\ LET idles == Cardinality(idle) IN
          refill' = IF idles >= refill.target
                    THEN [pc |-> "rest", target |-> 0, jobs |-> 0]
                    ELSE [refill EXCEPT !.pc = "opening", !.jobs = refill.target - idles]
    /\ UNCHANGED <<side, tun, poolVars, user, serverVars, ev, worker, seen, boundVars>>

\* A worker takes a job and opens a tunnel, or fails to.
OpenTunnel(w, t) ==
    /\ refill.pc = "opening" /\ refill.jobs > 0 /\ worker[w].pc = "free"
    /\ refill' = [refill EXCEPT !.jobs = @ - 1]
    /\ \/ /\ tun[t].state = "none"
          /\ tun' = [tun EXCEPT ![t] = NewTunnel]
          /\ worker' = [worker EXCEPT ![w] = [pc |-> "putting", t |-> t]]
       \/ UNCHANGED <<tun, worker>>
    /\ UNCHANGED <<side, poolVars, user, serverVars, ev, seen, boundVars>>

\* Into the pool, or closed.
PutOpened(w) ==
    /\ worker[w].pc = "putting"
    /\ \/ PutIdle(worker[w].t, user) /\ UNCHANGED tun
       \/ /\ Refused(worker[w].t)
          /\ tun' = [tun EXCEPT ![worker[w].t] = Closed(@)]
          /\ UNCHANGED <<poolVars, user, ev>>
    /\ worker' = [worker EXCEPT ![w] = [pc |-> "free", t |-> NoTunnel]]
    /\ UNCHANGED <<side, serverVars, refill, seen, boundVars>>

\* All workers are done.
RefillDone ==
    /\ refill.pc = "opening" /\ refill.jobs = 0
    /\ \A w \in Workers : worker[w].pc = "free"
    /\ refill' = [pc |-> "rest", target |-> 0, jobs |-> 0]
    /\ UNCHANGED <<side, tun, poolVars, user, serverVars, ev, worker, seen, boundVars>>

-----------------------------------------------------------------------------
(* The peer and the network *)

\* The peer sends: a whole payload, half a frame (TCP), or the other half.
PeerSend(t) ==
    /\ Open(t) /\ tun[t].link = "up"
    /\ \/ /\ tun[t].inbox = "empty" /\ ~tun[t].half /\ sends < side.sends
          /\ \E part \in {"data", "half"} :
                /\ part = "half" => side.kind = "tcp"
                /\ tun' = [tun EXCEPT ![t].inbox = part]
          /\ sends' = sends + 1
       \/ /\ tun[t].inbox = "half" \/ (tun[t].inbox = "empty" /\ tun[t].half)
          /\ tun' = [tun EXCEPT ![t].inbox = "data"]
          /\ UNCHANGED sends
    /\ UNCHANGED <<side, poolVars, user, serverVars, ev, agentVars, sweeps>>

\* The peer ends the stream in order, or the connection is lost.
PeerEnds(t) ==
    /\ Open(t) /\ tun[t].link = "up"
    /\ \E l \in {"fin", "cut"} : tun' = [tun EXCEPT ![t].link = l]
    /\ UNCHANGED <<side, poolVars, user, serverVars, ev, agentVars, boundVars>>

\* watchStreamContext of QUIC: the stream's context is cancelled when the
\* connection is lost.  The other bindings notice nothing by themselves.
StreamContextDone(t) ==
    /\ Open(t) /\ side.kind = "quic" /\ tun[t].link = "cut"
    /\ tun' = [tun EXCEPT ![t] = Closed(@)]
    /\ UNCHANGED <<side, poolVars, user, serverVars, ev, agentVars, boundVars>>

-----------------------------------------------------------------------------
Init ==
    /\ side \in Sides
    /\ tun = [t \in Tunnels |-> Absent]
    /\ idle = {} /\ order = <<>> /\ inUse = {} /\ aged = {}
    /\ user = [u \in Users |-> [pc |-> "out", t |-> NoTunnel, signalled |-> FALSE]]
    /\ sv = [pc |-> "accepting", t |-> NoTunnel]
    /\ pending = <<>> /\ acc = "open"
    /\ con = [pc |-> "waiting", t |-> NoTunnel]
    /\ handler = [t \in Tunnels |-> "none"]
    /\ ev = Resting
    /\ refill = [pc |-> "rest", target |-> 0, jobs |-> 0]
    /\ worker = [w \in Workers |-> [pc |-> "free", t |-> NoTunnel]]
    /\ seen = {} /\ sends = 0 /\ sweeps = 0

UserStep(u) ==
    \/ StartAcquire(u) \/ Pop(u) \/ Wake(u) \/ ProbePopped(u) \/ PushBack(u) \/ Settle(u)
    \/ StartRead(u) \/ EndRead(u) \/ UserWrites(u)
    \/ StartRecycle(u) \/ PutRecycled(u) \/ Remove(u)

ServerStep ==
    \/ \E t \in Tunnels : Accept(t) \/ HandleTunnelStream(t) \/ OfferStream(t) \/ HandlerEnds(t)
    \/ Offer \/ CheckDone \/ ServeEnds \/ CloseAcceptor \/ CloseConn \/ DrainPending
    \/ TakePending \/ CheckTaken \/ PutAccepted

AgentStep ==
    \/ \E q \in Requests : HandleRefillRequest(q)
    \/ RefillToTarget \/ RefillDone
    \/ \E w \in Workers, t \in Tunnels : OpenTunnel(w, t)
    \/ \E w \in Workers : PutOpened(w)

Maintenance ==
    \/ EvictExpired \/ Snapshot \/ EvictCandidates
    \/ \E t \in Tunnels : Scan(t) \/ CloseEvicted(t) \/ Age(t)

Network == \E t \in Tunnels : PeerSend(t) \/ PeerEnds(t) \/ StreamContextDone(t)

Next == (\E u \in Users : UserStep(u)) \/ ServerStep \/ AgentStep \/ Maintenance \/ Network

Spec == Init /\ [][Next]_vars

-----------------------------------------------------------------------------
(* Properties *)

TypeOK ==
    /\ side \in Sides
    /\ tun \in [Tunnels -> [state : {"none", "idle", "closed", "broken"},
                            link : {"up", "fin", "cut", "down"},
                            inbox : {"empty", "half", "data"},
                            pend : BOOLEAN, half : BOOLEAN]]
    /\ idle \subseteq Tunnels /\ inUse \subseteq Tunnels /\ aged \subseteq Tunnels
    /\ user \in [Users -> [pc : {"out", "popping", "waiting", "probing", "probed",
                                  "using", "reading", "putting"},
                            t : Tunnels \cup {NoTunnel}, signalled : BOOLEAN]]
    /\ sv \in [pc : {"accepting", "offering", "sent", "draining", "ended"},
               t : Tunnels \cup {NoTunnel}]
    /\ acc \in {"open", "draining", "closed"}
    /\ con \in [pc : {"waiting", "taken", "putting", "ended"}, t : Tunnels \cup {NoTunnel}]
    /\ handler \in [Tunnels -> {"none", "offering", "serving", "ended"}]
    /\ ev \in [pc : {"rest", "scanning", "closing"}, snap : SUBSET Tunnels,
               same : SUBSET Tunnels, expired : SUBSET Tunnels,
               cand : SUBSET Tunnels, out : SUBSET Tunnels]
    /\ worker \in [Workers -> [pc : {"free", "putting"}, t : Tunnels \cup {NoTunnel}]]
    /\ order \in Seq(Tunnels) /\ pending \in Seq(Tunnels)
    /\ seen \subseteq Requests /\ sends \in 0..side.sends /\ sweeps \in 0..side.sweeps

\* The acceptor's queue keeps a tunnel as long as somebody will still take it from
\* there or close it: in TCP the consumer or a drain, in gRPC its handler, in QUIC
\* the watcher of its stream.
QueueServed ==
    ByKind(acc # "closed" \/ con.pc # "ended" \/ sv.pc \in {"sent", "draining"}, TRUE, TRUE)

Queued(t) == \E i \in DOMAIN pending : pending[i] = t

\* The places a tunnel can be: the two maps, the queue, and the hands of a goroutine
\* that will still put it somewhere or close it.
Kept(place, t) ==
    CASE place = "idle"     -> t \in idle
      [] place = "in_use"   -> t \in inUse
      [] place = "evicted"  -> t \in ev.out
      [] place = "offered"  -> sv.t = t
      [] place = "stream"   -> handler[t] = "offering"
      [] place = "queued"   -> QueueServed /\ Queued(t)
      [] place = "accepted" -> con.t = t

InHand(u, t) == user[u].t = t /\ user[u].pc \notin {"using", "reading"}

Places(t) ==
    {<<place, NoTunnel>> : place \in {p \in {"idle", "in_use", "evicted", "offered", "stream",
                                            "queued", "accepted"} : Kept(p, t)}}
    \cup {<<"user", u>> : u \in {v \in Users : InHand(v, t)}}
    \cup {<<"worker", w>> : w \in {x \in Workers : worker[x].t = t}}

\* A tunnel whose connection is open is always in exactly one place: it is never
\* forgotten with its connection open (a cancelled Acquire, a refused PutIdle, an
\* acceptor closed while the loop sends) and never handed out twice.
OnePlace == \A t \in Tunnels : Open(t) => Cardinality(Places(t)) = 1

\* An Acquire that waits and has not been told to look again has nothing to
\* find: no path puts a tunnel into an empty pool without the broadcast, and
\* none slips in between the empty pop and the wait.
NoMissedWakeup ==
    \A u \in Users : user[u].pc = "waiting" /\ ~user[u].signalled => idle = {}

\* And what the maintenance takes out for its age has been idle for a TTL: a tunnel
\* acquired and recycled while the sweep probed is not taken for the old one.
WellKept ==
    /\ OnePlace
    /\ \A t \in ev.out : t \in ev.expired => t \in aged

=============================================================================
