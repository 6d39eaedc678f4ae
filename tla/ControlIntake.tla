------------------------------ MODULE ControlIntake ------------------------------
\* The intake of the Bridge's control plane: the server that runs its listeners and
\* stops them (app/bootstrap.go, controlPlaneServer.run and shutdown), and one connection
\* of one binding with the goroutines that serve it. A TCP connection is told apart by its
\* first bytes (tls/control_plane_tls.go, classifyTCPInboundConnection); of a QUIC
\* connection the first stream is the control channel and the others are tunnels
\* (quicbinding/connection.go, tunnel_acceptor.go); over gRPC each stream has a handler.
\*
\* The server starts with its listeners listening. What a control channel says is in
\* BridgeSessions and ControlHandshake, who owns a tunnel in BridgeSessions.
EXTENDS Integers

CONSTANTS
    Bindings, Modes,             \* of the connection: {"tcp", "grpc", "quic"}; tls_mode
    MaxStreams,                  \* bound: streams the client opens
    IncomingQueue, PendingQueue  \* sizes of incomingTunnels and pendingTunnels

VARIABLES
    binding, mode,
    at,          \* where each goroutine is: see Places
    cancelled,   \* the server's context
    stopped,     \* controlPlaneServer.shutdown has closed what it knows
    conn,        \* of the connection: see NoConnection
    queue        \* [control, incoming, pending |-> streams that wait]

vars == <<binding, mode, at, cancelled, stopped, conn, queue>>

Goroutines ==
    {"host",                \* Runtime.Run
     "run",                 \* controlPlaneServer.run
     "rest",                \* its other runners
     "listener",            \* runTCP, runGRPC or runQUIC
     "serve",               \* serveTCPInboundConnection, serveQUICInboundConnection
     "control",             \* the control channel's reader
     "incoming",            \* conn.runAcceptLoop; gRPC: the Accept that detects TLS
     "acceptor",            \* the tunnel acceptor's loop; gRPC: a tunnel stream's handler
     "intake"}              \* runQUICTunnelAcceptLoop, runGRPCTunnelAcceptLoop

Serving == {"serve", "control", "incoming", "acceptor", "intake"}

NoConnection == [alive |-> FALSE,       \* the client is there
                 done |-> FALSE,        \* closed from this side: doneChannel
                 cancelled |-> FALSE,   \* connectionContext
                 assigned |-> FALSE,    \* controlAssigned
                 acceptorDone |-> FALSE, streams |-> 0]

Init ==
    /\ binding \in Bindings
    /\ mode \in IF binding = "quic" THEN Modes \ {"plaintext"} ELSE Modes
    /\ at = [g \in Goroutines |->
                CASE g \in {"host", "run", "rest"} -> "run"
                  [] g = "listener" -> "accept"
                  [] g = "intake" /\ binding = "grpc" -> "take"
                  [] OTHER -> "none"]
    /\ cancelled = FALSE /\ stopped = FALSE
    /\ conn = NoConnection
    /\ queue = [control |-> 0, incoming |-> 0, pending |-> 0]

Go(g, place)  == at' = [at EXCEPT ![g] = place]
Over(gs)      == \A g \in gs : at[g] \in {"none", "over", "failed"}
Gone          == ~conn.alive \/ conn.done
ConnCancelled == cancelled \/ conn.cancelled

serverVars == <<binding, mode, cancelled, stopped>>

-----------------------------------------------------------------------------
\* The server.

\* The process is told to stop.
Cancel ==
    /\ ~cancelled
    /\ cancelled' = TRUE
    /\ UNCHANGED <<binding, mode, at, stopped, conn, queue>>

\* shutdown: listeners and the gRPC server with its connections are closed, and the
\* gRPC acceptor. QUIC connections are left to their goroutines.
Shutdown ==
    /\ stopped' = TRUE
    /\ conn' = IF binding = "grpc" THEN [conn EXCEPT !.done = TRUE, !.acceptorDone = TRUE] ELSE conn

\* Runtime.Run: admin and ingress servers are shut down first, then the control plane.
HostStops ==
    /\ at.host = "run" /\ cancelled
    /\ Go("host", "over")
    /\ Shutdown
    /\ UNCHANGED <<binding, mode, cancelled, queue>>

\* A runner fails, or the others end with the context.
RestEnds(place) ==
    /\ at.rest = "run" /\ (place = "over" => cancelled)
    /\ Go("rest", place)
    /\ UNCHANGED <<serverVars, conn, queue>>

Reported == at.rest = "failed" \/ at.listener = "failed"

\* run takes the first error: it cancels the context and shuts the server down.
RunFails ==
    /\ at.run = "run" /\ Reported
    /\ Go("run", "collect")
    /\ cancelled' = TRUE
    /\ Shutdown
    /\ UNCHANGED <<binding, mode, queue>>

\* And it waits for all of its runners.
RunReturns ==
    /\ at.run = "collect" \/ (at.run = "run" /\ ~Reported)
    /\ {at.rest, at.listener} \subseteq {"over", "failed"}
    /\ binding = "grpc" => at.intake = "over"
    /\ Go("run", "over")
    /\ UNCHANGED <<serverVars, conn, queue>>

-----------------------------------------------------------------------------
\* The listener.

\* A client connects. gRPC's Accept looks for TLS before it returns.
Connect ==
    /\ at.listener = "accept" /\ ~stopped /\ at.serve = "none" /\ at.incoming = "none"
    /\ conn' = [conn EXCEPT !.alive = TRUE]
    /\ at' = CASE binding = "tcp"  -> [at EXCEPT !.serve = "detect"]
               [] binding = "grpc" -> [at EXCEPT !.incoming = "detect"]
               [] binding = "quic" -> [at EXCEPT !.serve = "accept", !.incoming = "read"]
    /\ UNCHANGED <<serverVars, queue>>

\* It stops with the context or when it is closed, or Accept fails. runTCP and runQUIC
\* return after the connections they serve, whatever made them stop.
ListenerStops(place) ==
    /\ at.listener = "accept" /\ (place = "wait" => cancelled \/ stopped)
    /\ Go("listener", place)
    /\ UNCHANGED <<serverVars, conn, queue>>

\* gRPC: GracefulStop waits for the handlers unless Stop has closed the connections.
ListenerReturns ==
    /\ at.listener \in {"wait", "failing"}
    /\ Over(IF binding = "grpc" THEN {"control", "acceptor", "incoming"} ELSE {"serve"})
    /\ Go("listener", IF at.listener = "wait" THEN "over" ELSE "failed")
    /\ UNCHANGED <<serverVars, conn, queue>>

-----------------------------------------------------------------------------
\* TLS and the kind of a TCP connection.

\* detectTLSClientHello has read what the client sent within the time: a client hello,
\* something else, nothing, or too little. tls_mode tells what goes on and how.
Admitted(seen) ==
    CASE seen = "hello"   -> mode # "plaintext"
      [] seen = "other"   -> mode # "required"
      [] seen = "nothing" -> mode # "required"
      [] seen = "broken"  -> FALSE

Detect(g, seen) ==
    /\ at[g] = "detect"
    /\ Go(g, IF ~Admitted(seen) THEN "over" ELSE IF seen = "hello" THEN "tls"
             ELSE IF binding = "tcp" THEN "classify" ELSE "ready")
    /\ conn' = [conn EXCEPT !.done = @ \/ ~Admitted(seen)]
    /\ UNCHANGED <<serverVars, queue>>

\* The handshake, with a deadline.
Secure(g) ==
    /\ at[g] = "tls"
    /\ \/ Go(g, IF binding = "tcp" THEN "classify" ELSE "ready") /\ UNCHANGED conn
       \/ Go(g, "over") /\ conn' = [conn EXCEPT !.done = TRUE]
    /\ UNCHANGED <<serverVars, queue>>

\* A frame type that is known makes a control channel, silence or anything else a
\* tunnel, except what looks like HTTP.
Classify(seen) ==
    /\ at.serve = "classify"
    /\ at' = CASE seen = "control" -> [at EXCEPT !.serve = "control", !.control = "read"]
               [] seen \in {"nothing", "other"} -> [at EXCEPT !.serve = "tunnel"]
               [] seen \in {"http", "broken"}   -> [at EXCEPT !.serve = "over"]
    /\ conn' = [conn EXCEPT !.done = @ \/ seen \in {"http", "broken"}]
    /\ UNCHANGED <<serverVars, queue>>

\* readIncomingTCPTunnelHandshake: the client names the tunnel before the deadline.
Announced == ~Gone

\* handleAcceptedTCPTunnel: the tunnel is announced and has an owner, or it is closed.
TcpTunnel ==
    /\ at.serve = "tunnel"
    /\ Go("serve", "over")
    /\ \/ Announced /\ UNCHANGED conn
       \/ conn' = [conn EXCEPT !.done = TRUE]
    /\ UNCHANGED <<serverVars, queue>>

TcpServed ==
    /\ at.serve = "control" /\ at.control = "over"
    /\ Go("serve", "over")
    /\ conn' = [conn EXCEPT !.done = TRUE]
    /\ UNCHANGED <<serverVars, queue>>

-----------------------------------------------------------------------------
\* The control channel's reader, of each binding.

\* The handshake ends well.
Authenticates ==
    /\ at.control = "read" /\ ~Gone
    /\ Go("control", "authenticated")
    /\ UNCHANGED <<serverVars, conn, queue>>

\* The channel ends: the client closes it or says what cannot be handled.
ControlFails ==
    /\ at.control \in {"read", "authenticated"}
    /\ Go("control", "over")
    /\ UNCHANGED <<serverVars, conn, queue>>

\* Its context is over, or the connection is. A gRPC handler knows only its stream.
ControlEnds ==
    /\ at.control \in {"read", "authenticated"}
    /\ Gone \/ (binding # "grpc" /\ ConnCancelled)
    /\ Go("control", "over")
    /\ UNCHANGED <<serverVars, conn, queue>>

-----------------------------------------------------------------------------
\* The streams of a gRPC connection.

OpenStream(g) ==
    /\ binding = "grpc" /\ at.incoming = "ready" /\ ~Gone /\ ~cancelled /\ at[g] = "none"
    /\ Go(g, IF g = "control" THEN "read" ELSE "put")
    /\ UNCHANGED <<serverVars, conn, queue>>

GrpcConnOver ==
    /\ binding = "grpc" /\ at.incoming = "ready" /\ (Gone \/ cancelled)
    /\ Go("incoming", "over")
    /\ UNCHANGED <<serverVars, conn, queue>>

\* HandleTunnelStream: it queues the tunnel, and stays until the tunnel is over.
GrpcPut ==
    /\ binding = "grpc" /\ at.acceptor = "put" /\ queue.pending < PendingQueue
    /\ Go("acceptor", "hold")
    /\ queue' = [queue EXCEPT !.pending = @ + 1]
    /\ UNCHANGED <<serverVars, conn>>

GrpcTunnelOver ==
    /\ binding = "grpc" /\ at.acceptor \in {"put", "hold"} /\ (conn.acceptorDone \/ Gone)
    /\ Go("acceptor", "over")
    /\ UNCHANGED <<serverVars, conn, queue>>

-----------------------------------------------------------------------------
\* The streams of a QUIC connection: conn.runAcceptLoop.

Arrives ==
    /\ binding = "quic" /\ at.incoming = "read" /\ ~Gone /\ conn.streams < MaxStreams
    /\ Go("incoming", "put")
    /\ conn' = [conn EXCEPT !.streams = @ + 1]
    /\ UNCHANGED <<serverVars, queue>>

\* The first stream is the control channel, the others wait for room.
Enqueue ==
    /\ at.incoming = "put"
    /\ Go("incoming", "read")
    /\ \/ /\ ~conn.assigned
          /\ conn' = [conn EXCEPT !.assigned = TRUE]
          /\ queue' = [queue EXCEPT !.control = 1]
       \/ /\ conn.assigned /\ queue.incoming < IncomingQueue
          /\ queue' = [queue EXCEPT !.incoming = @ + 1]
          /\ UNCHANGED conn
       \/ conn.assigned /\ conn.done /\ UNCHANGED <<conn, queue>>
    /\ UNCHANGED serverVars

\* AcceptStream fails: the connection is over and this side says so. watchConnectionContext
\* does it while the loop waits for room.
ConnectionOver ==
    /\ binding = "quic" /\ Gone /\ at.incoming \in {"read", "put"}
    /\ \/ at.incoming = "read" /\ Go("incoming", "over")
       \/ at.incoming = "put" /\ ~conn.done /\ UNCHANGED at
    /\ conn' = [conn EXCEPT !.done = TRUE]
    /\ UNCHANGED <<serverVars, queue>>

-----------------------------------------------------------------------------
\* serveQUICInboundConnection.

\* AcceptControlChannel, within its timeout.
AcceptControl ==
    /\ binding = "quic" /\ at.serve = "accept"
    /\ \/ /\ queue.control = 1
          /\ queue' = [queue EXCEPT !.control = 0]
          /\ at' = [at EXCEPT !.serve = "auth", !.control = "read"]
       \/ Go("serve", "close") /\ UNCHANGED queue
    /\ UNCHANGED <<serverVars, conn>>

\* The first of: authenticated, the reader is over, the context is.
AwaitAuth ==
    /\ at.serve = "auth"
    /\ \/ /\ at.control = "authenticated"
          /\ at' = [at EXCEPT !.serve = "serve", !.acceptor = "take", !.intake = "take"]
       \/ (at.control = "over" \/ ConnCancelled) /\ Go("serve", "close")
    /\ UNCHANGED <<serverVars, conn, queue>>

\* (A mutant: the tunnel loop is waited for before the context is cancelled.)
EndsLater(c) == c

\* cancel().
EndsNow(c) == [c EXCEPT !.cancelled = TRUE]

\* The reader is over: the tunnel loop is cancelled and waited for.
ServeOver ==
    /\ at.serve = "serve" /\ at.control = "over"
    /\ Go("serve", "ending")
    /\ conn' = EndsNow(conn)
    /\ UNCHANGED <<serverVars, queue>>

Finish ==
    /\ at.serve = "ending" /\ at.intake = "over"
    /\ Go("serve", "close")
    /\ UNCHANGED <<serverVars, conn, queue>>

\* The deferred calls: the acceptor, the connection and its context.
Close ==
    /\ at.serve = "close"
    /\ Go("serve", "over")
    /\ conn' = [conn EXCEPT !.acceptorDone = TRUE, !.done = TRUE, !.cancelled = TRUE]
    /\ UNCHANGED <<serverVars, queue>>

-----------------------------------------------------------------------------
\* The tunnel acceptor of a QUIC connection, and the loop that registers its tunnels
\* (of gRPC too).

Take ==
    /\ binding = "quic" /\ at.acceptor = "take"
    /\ \/ /\ queue.incoming > 0
          /\ queue' = [queue EXCEPT !.incoming = @ - 1]
          /\ Go("acceptor", "handshake") /\ UNCHANGED conn
       \/ /\ conn.done
          /\ conn' = [conn EXCEPT !.acceptorDone = TRUE]
          /\ Go("acceptor", "over") /\ UNCHANGED queue
    /\ UNCHANGED serverVars

\* The tunnel's handshake arrives, good or bad. Nothing limits the wait for it.
Handshake(good) ==
    /\ at.acceptor = "handshake" /\ ~Gone
    /\ Go("acceptor", IF good THEN "put" ELSE "take")
    /\ UNCHANGED <<serverVars, conn, queue>>

HandshakeFails ==
    /\ at.acceptor = "handshake" /\ Gone
    /\ Go("acceptor", "take")
    /\ UNCHANGED <<serverVars, conn, queue>>

Put ==
    /\ binding = "quic" /\ at.acceptor = "put"
    /\ \/ /\ queue.pending < PendingQueue
          /\ queue' = [queue EXCEPT !.pending = @ + 1]
          /\ Go("acceptor", "take")
       \/ conn.acceptorDone /\ Go("acceptor", "over") /\ UNCHANGED queue
    /\ UNCHANGED <<serverVars, conn>>

\* AcceptTunnel of the acceptor.
AcceptTunnel ==
    /\ at.intake = "take"
    /\ \/ /\ queue.pending > 0
          /\ queue' = [queue EXCEPT !.pending = @ - 1]
          /\ Go("intake", IF conn.acceptorDone THEN "over" ELSE "register")
       \/ /\ conn.acceptorDone \/ ConnCancelled
          /\ Go("intake", "over") /\ UNCHANGED queue
    /\ UNCHANGED <<serverVars, conn>>

\* registerAcceptedTunnel: it is registered or closed.
Register ==
    /\ at.intake = "register"
    /\ Go("intake", "take")
    /\ UNCHANGED <<serverVars, conn, queue>>

-----------------------------------------------------------------------------
\* The client leaves, or its connection is lost.
Leave ==
    /\ conn.alive
    /\ conn' = [conn EXCEPT !.alive = FALSE]
    /\ UNCHANGED <<serverVars, at, queue>>

Seen == {"hello", "other", "nothing", "broken"}

\* What the Bridge does by itself, of each goroutine.
Server   == HostStops \/ RestEnds("over") \/ RunFails \/ RunReturns
Listener == ListenerStops("wait") \/ ListenerReturns
Serve    == \/ (\E seen \in Seen : Detect("serve", seen)) \/ Secure("serve")
            \/ (\E seen \in {"control", "other", "http", "nothing", "broken"} : Classify(seen))
            \/ TcpTunnel \/ TcpServed
            \/ AcceptControl \/ AwaitAuth \/ ServeOver \/ Finish \/ Close
Incoming == \/ (\E seen \in Seen : Detect("incoming", seen)) \/ Secure("incoming")
            \/ GrpcConnOver \/ Enqueue \/ ConnectionOver
Acceptor == GrpcPut \/ GrpcTunnelOver \/ Take \/ HandshakeFails \/ Put
Intake   == AcceptTunnel \/ Register

\* And what the client, the operator and the operating system do.
Outside ==
    \/ Cancel \/ RestEnds("failed") \/ ListenerStops("failing") \/ Connect \/ Leave
    \/ Authenticates \/ ControlFails \/ (\E g \in {"control", "acceptor"} : OpenStream(g))
    \/ Arrives \/ (\E good \in BOOLEAN : Handshake(good))

Next == Server \/ Listener \/ Serve \/ ControlEnds \/ Incoming \/ Acceptor \/ Intake \/ Outside

Spec == Init /\ [][Next]_vars

Fairness ==
    /\ WF_vars(Server) /\ WF_vars(Listener) /\ WF_vars(Serve) /\ WF_vars(ControlEnds)
    /\ WF_vars(Incoming) /\ WF_vars(Acceptor) /\ WF_vars(Intake)

FairSpec == Spec /\ Fairness

-----------------------------------------------------------------------------
\* No goroutine of a connection is left behind: once its control channel was read to the
\* end all of them end, although they wait for each other. And once the server's context
\* is cancelled, by the operator or by a runner that failed, everything ends.
IntakeEnds ==
    /\ []<>(binding = "quic" /\ at.control = "over" => Over(Serving))
    /\ []<>(cancelled => Over(Goroutines))
=============================================================================
