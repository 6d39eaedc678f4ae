------------------------------ MODULE IngressProxy ------------------------------
\* The HTTP and gRPC entries of the Bridge (app/ingress_http_server.go and
\* ingress_grpc_server.go): each call is resolved, sent to a service over a tunnel
\* of a connector or straight to an external endpoint, and answered.
\*
\* What the resolver finds and what the dispatcher's handshake and recycling return
\* is chosen here: RouteResolver and ConnectorDispatch model them. The HTTP/2 client
\* (golang.org/x/net/http2) is external: one goroutine of it reads the connection
\* all the time, and closing it closes the connection first of all.
EXTENDS Integers, Sequences, FiniteSets

CONSTANTS
    Calls,
    Kinds,             \* of a call: [entry, safe, body]
    ResolveAttempts, ReadAttempts,
    MaxExtra           \* bound: frames a gRPC service sends beside its answer

VARIABLES
    kind,        \* of each call, one of Kinds: entry "http" or "grpc", a safe method
                 \* or not, a body that is "none", "declared" or "chunked"
    call,        \* of each call: see Start
    gone,        \* the calls whose context is done: the client left, or a timeout
    sent,        \* history: the request as it went to a service, once per attempt
    wire,        \* gRPC over a tunnel: what the service has sent and nobody read
    reader,      \* its read goroutine: "none", "free", "locked" (in Read), "ended"
    extra        \* the frames beside its answer the service has sent

vars == <<kind, call, gone, sent, wire, reader, extra>>

Start == [pc |-> "resolve", attempt |-> 1, tries |-> 1, target |-> "none",
          heads |-> 0, failures |-> 0, got |-> {}]

Init ==
    /\ kind \in [Calls -> Kinds]
    /\ call = [c \in Calls |-> Start]
    /\ gone = {}
    /\ sent = [c \in Calls |-> <<>>]
    /\ wire = [c \in Calls |-> <<>>]
    /\ reader = [c \in Calls |-> "none"]
    /\ extra = [c \in Calls |-> 0]

Step(c, l)  == call' = [call EXCEPT ![c] = l]
Goto(c, pc) == Step(c, [call[c] EXCEPT !.pc = pc])

\* writeIngressError: a response head of its own, and the end of the call.
Answer(c) == Step(c, [call[c] EXCEPT !.pc = "done", !.heads = @ + 1, !.failures = @ + 1])
Finish(c) == Goto(c, "done")

\* (A mutant: the error is answered whatever was sent before.)
FailLoudly(c) == Answer(c)

\* An error after the head of the response is only logged (errIngressResponseCommitted).
Fail(c) == IF call[c].heads > 0 THEN Finish(c) ELSE Answer(c)

tunnelVars == <<wire, reader, extra>>

-----------------------------------------------------------------------------
\* handleHTTPIngress, handleGRPCIngress

\* The context of a call ends with its client; that of an HTTP call also after the
\* dispatch timeout.
Leave(c) ==
    /\ c \notin gone /\ call[c].pc # "done"
    /\ gone' = gone \cup {c}
    /\ UNCHANGED <<kind, call, sent, tunnelVars>>

Resolved(c, target) == Step(c, [call[c] EXCEPT !.target = target,
                                   !.pc = IF target = "connector" THEN "open" ELSE "dial"])

Refused(c) == Answer(c)

\* resolveHTTPIngressRouteWithRetry: no route may mean that it is not there yet.
Again(c) == call[c].tries < ResolveAttempts

ResolveHTTP(c) ==
    /\ call[c].pc = "resolve" /\ kind[c].entry = "http"
    /\ \/ \E target \in {"connector", "external"} : Resolved(c, target)
       \/ Refused(c)
       \/ Again(c) /\ Goto(c, "pause")
    /\ UNCHANGED <<kind, gone, sent, tunnelVars>>

ResolveGRPC(c) ==
    /\ call[c].pc = "resolve" /\ kind[c].entry = "grpc"
    /\ \/ \E target \in {"connector", "external"} : Resolved(c, target)
       \/ Refused(c)
    /\ UNCHANGED <<kind, gone, sent, tunnelVars>>

Pause(c) ==
    /\ call[c].pc = "pause"
    /\ \/ c \in gone /\ Answer(c)
       \/ Step(c, [call[c] EXCEPT !.pc = "resolve", !.tries = @ + 1])
    /\ UNCHANGED <<kind, gone, sent, tunnelVars>>

-----------------------------------------------------------------------------
\* proxyHTTPIngressConnector: an attempt, and another one when a safe request met
\* the end of its tunnel before there was a response.

\* shouldRetryConnectorIngressRead
Retry(c, eof) ==
    /\ eof /\ call[c].attempt < ReadAttempts /\ call[c].heads = 0
    /\ kind[c].entry = "http" /\ kind[c].safe /\ kind[c].body # "declared"

AttemptFailed(c, eof) ==
    IF Retry(c, eof) THEN Step(c, [call[c] EXCEPT !.pc = "open", !.attempt = @ + 1]) ELSE Fail(c)

\* The dispatcher finds a tunnel and opens the traffic on it, or it does not.
Open(c) ==
    /\ call[c].pc = "open"
    /\ \/ c \notin gone /\ Goto(c, IF kind[c].entry = "http" THEN "send" ELSE "trip")
       \/ \E eof \in BOOLEAN : AttemptFailed(c, eof)
    /\ UNCHANGED <<kind, gone, sent, tunnelVars>>

\* Serializing the request reads its body: it can be read once only.
Payload(c) == IF kind[c].body # "none" /\ sent[c] # <<>> THEN "bodiless" ELSE "whole"

Send(c) ==
    /\ call[c].pc = "send"
    /\ \/ /\ sent' = [sent EXCEPT ![c] = Append(@, Payload(c))]
          /\ Goto(c, "read")
       \/ /\ sent' = [sent EXCEPT ![c] = Append(@, "part")]
          /\ \E eof \in BOOLEAN : AttemptFailed(c, eof)
    /\ UNCHANGED <<kind, gone, tunnelVars>>

Read(c) ==
    /\ call[c].pc = "read"
    /\ \/ Step(c, [call[c] EXCEPT !.pc = "copy", !.heads = @ + 1])
       \/ \E eof \in BOOLEAN : AttemptFailed(c, eof)
    /\ UNCHANGED <<kind, gone, sent, tunnelVars>>

Copy(c) ==
    /\ call[c].pc = "copy"
    /\ \/ Goto(c, "recycle")
       \/ \E eof \in BOOLEAN : AttemptFailed(c, eof)
    /\ UNCHANGED <<kind, gone, sent, tunnelVars>>

\* The close and its ack, which only decide what the dispatcher does with the tunnel;
\* what that returns comes after the response.
Recycle(c) ==
    /\ call[c].pc = "recycle"
    /\ Finish(c) \/ \E eof \in BOOLEAN : AttemptFailed(c, eof)
    /\ UNCHANGED <<kind, gone, sent, tunnelVars>>

-----------------------------------------------------------------------------
\* proxyHTTPIngressExternalTarget, proxyGRPCIngressExternalTarget

Dial(c) ==
    /\ call[c].pc = "dial"
    /\ (c \notin gone /\ Goto(c, "exchange")) \/ Fail(c)
    /\ UNCHANGED <<kind, gone, sent, tunnelVars>>

Exchange(c) ==
    /\ call[c].pc = "exchange"
    /\ \E what \in {"whole", "part"} : sent' = [sent EXCEPT ![c] = Append(@, what)]
    /\ Fail(c) \/ Step(c, [call[c] EXCEPT !.pc = "forward", !.heads = @ + 1])
    /\ UNCHANGED <<kind, gone, tunnelVars>>

Forward(c) ==
    /\ call[c].pc = "forward"
    /\ Finish(c) \/ Fail(c)
    /\ UNCHANGED <<kind, gone, sent, tunnelVars>>

-----------------------------------------------------------------------------
\* proxyGRPCIngressConnectorTarget: HTTP/2 over the tunnel. Read and Close of the
\* connection take one mutex, and Read keeps it while it waits for the tunnel.

RoundTrip(c) ==
    /\ call[c].pc = "trip"
    /\ \/ /\ sent' = [sent EXCEPT ![c] = Append(@, "whole")]
          /\ reader' = [reader EXCEPT ![c] = "free"]
          /\ Goto(c, "head")
       \/ /\ sent' = [sent EXCEPT ![c] = Append(@, "part")]
          /\ AttemptFailed(c, FALSE)
          /\ UNCHANGED reader
    /\ UNCHANGED <<kind, gone, wire, extra>>

\* External: the service answers, and may send frames of no stream beside it.
Serve(c) ==
    /\ call[c].pc \in {"head", "body", "close"}
    /\ \/ /\ wire[c] = <<>> /\ call[c].got = {}
          /\ wire' = [wire EXCEPT ![c] = <<"head", "end">>]
          /\ UNCHANGED extra
       \/ /\ extra[c] < MaxExtra /\ wire[c] = <<>>
          /\ extra' = [extra EXCEPT ![c] = @ + 1]
          /\ wire' = [wire EXCEPT ![c] = Append(@, "ping")]
    /\ UNCHANGED <<kind, call, gone, sent, reader>>

LockRead(c) ==
    /\ reader[c] = "free"
    /\ reader' = [reader EXCEPT ![c] = "locked"]
    /\ UNCHANGED <<kind, call, gone, sent, wire, extra>>

\* Read returns with a frame, which the goroutine handles before it reads again.
ReadFrame(c) ==
    /\ reader[c] = "locked" /\ wire[c] # <<>>
    /\ wire' = [wire EXCEPT ![c] = Tail(@)]
    /\ Step(c, [call[c] EXCEPT !.got = @ \cup {Head(wire[c])}])
    /\ reader' = [reader EXCEPT ![c] = "free"]
    /\ UNCHANGED <<kind, gone, sent, extra>>

\* Read returns because the context is done, or the tunnel has ended.
ReadFails(c) ==
    /\ reader[c] = "locked" /\ wire[c] = <<>>
    /\ reader' = [reader EXCEPT ![c] = "ended"]
    /\ UNCHANGED <<kind, call, sent, wire, extra>>

ReadCancelled(c) == c \in gone /\ ReadFails(c) /\ UNCHANGED gone
TunnelEnds(c)    == ReadFails(c) /\ UNCHANGED gone

ResponseHead(c) ==
    /\ call[c].pc = "head"
    /\ \/ /\ "head" \in call[c].got
          /\ Step(c, [call[c] EXCEPT !.pc = "body", !.heads = @ + 1])
       \/ (c \in gone \/ reader[c] = "ended") /\ Goto(c, "abort")
    /\ UNCHANGED <<kind, gone, sent, tunnelVars>>

ResponseBody(c) ==
    /\ call[c].pc = "body"
    /\ \/ "end" \in call[c].got /\ Goto(c, "close")
       \/ (c \in gone \/ reader[c] = "ended") /\ Goto(c, "abort")
    /\ UNCHANGED <<kind, gone, sent, tunnelVars>>

\* The body is closed, which closes the client and its connection.
CloseConn(c) ==
    /\ call[c].pc \in {"close", "abort"} /\ reader[c] # "locked"
    /\ reader' = [reader EXCEPT ![c] = "ended"]
    /\ IF call[c].pc = "close" THEN Goto(c, "recycle") ELSE AttemptFailed(c, FALSE)
    /\ UNCHANGED <<kind, gone, sent, wire, extra>>

Handler(c) ==
    \/ ResolveHTTP(c) \/ ResolveGRPC(c) \/ Pause(c) \/ Open(c) \/ Send(c) \/ Read(c) \/ Copy(c) \/ Recycle(c)
    \/ Dial(c) \/ Exchange(c) \/ Forward(c)
    \/ RoundTrip(c) \/ ResponseHead(c) \/ ResponseBody(c) \/ CloseConn(c)

ReadLoop(c) == LockRead(c) \/ ReadFrame(c) \/ ReadCancelled(c)

Next == \E c \in Calls : Leave(c) \/ Handler(c) \/ ReadLoop(c) \/ TunnelEnds(c) \/ Serve(c)

Spec == Init /\ [][Next]_vars

\* The goroutines run, and a mutex is not denied for ever to one that asks for it
\* again and again. A client need not leave nor a service send anything.
FairSpec == Spec /\ \A c \in Calls : SF_vars(Handler(c)) /\ WF_vars(ReadLoop(c))

-----------------------------------------------------------------------------
\* A call is answered once: by the response of a service or by an error, and never
\* by an error after (a part of) a response.
OneAnswer ==
    \A c \in Calls : /\ call[c].heads <= 1
                     /\ call[c].pc = "done" => call[c].heads = 1

\* (Not kept: see the README.)  A gRPC call to which the service has given its whole
\* answer ends, whether or not the client loses patience.
AnsweredCallEnds ==
    \A c \in Calls : "end" \in call[c].got ~> call[c].pc = "done"
=============================================================================
