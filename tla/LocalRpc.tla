------------------------------- MODULE LocalRpc -------------------------------
\* The local connection between the desktop host and the agent: the clients of the host
\* (agent_host/ipc_client.rs, codec.rs), and the agent's server, which serves one
\* connection after the other (app/localrpc_server.go, localrpc_codec.go).
\*
\* The agent writes a frame in two pieces, its header and its body, and a client gives up
\* a read when nothing has come for a while. What it had read of a frame is lost then, and
\* what comes later is read as if a frame began there. A piece here is a header, a body or
\* what is left of a piece when part of it has been read, less than a header's length.
EXTENDS Naturals, Sequences

CONSTANTS
    Clients,     \* connections of the host; one that is over may be opened anew
    Known,       \* the clients that have the agent's session secret
    MaxCalls,    \* bound on the calls over one connection
    Buffer,      \* the pieces that wait in a connection for the client to read them
    None

VARIABLES
    client,      \* of each client: see Away
    up,          \* frames on their way to the agent
    down,        \* pieces on their way to the client
    hungup,      \* of each connection, who has closed it: "client", "agent"
    backlog,     \* connections that have not been accepted
    serving,     \* the connection that has, or None
    trust,       \* localRPCConnectionAuthState of it
    handling,    \* the request the server works on, or None
    writing      \* what it has still to write

peerVars  == <<serving, trust, handling, writing>>
vars == <<client, up, down, hungup, backlog, peerVars>>

\* `seq' is the identifier of the last request, `head' the header whose body is awaited,
\* `got' the answer of the last call: which request it was given for and is of.
Away == [pc |-> "away", seq |-> 0, calls |-> 0, head |-> None, got |-> None]

\* Where a client reads.
Waiting == {"greeting", "proving", "calling", "pinging"}

NoTrust == [authenticated |-> FALSE, pending |-> None]

Request(id, method, nonce) == [type |-> "request", id |-> id, method |-> method, nonce |-> nonce]
Ping == [type |-> "ping"]

Header(type, id, code) == [kind |-> "header", type |-> type, id |-> id, code |-> code]
Body == [kind |-> "body"]
Rest == [kind |-> "rest"]

-----------------------------------------------------------------------------
\* The client.

Put(c, field) == client' = [client EXCEPT ![c] = field]

Sends(c, frame) == up' = [up EXCEPT ![c] = Append(@, frame)]

\* LocalRpcClient::connect: it is the expected process, as far as the platform tells;
\* the handshake begins.
Connect(c) ==
    /\ client[c].pc = "away" /\ serving # c
    /\ \A i \in DOMAIN backlog : backlog[i] # c
    /\ Put(c, [Away EXCEPT !.pc = "greeting", !.seq = 1])
    /\ up' = [up EXCEPT ![c] = <<Request(1, "begin", 0)>>]
    /\ down' = [down EXCEPT ![c] = <<>>]
    /\ hungup' = [hungup EXCEPT ![c] = {}]
    /\ backlog' = Append(backlog, c)
    /\ UNCHANGED peerVars

\* A call in the handshake that fails drops the client; another leaves it to its owner.
Fails(c) ==
    IF client[c].pc \in {"greeting", "proving"}
    THEN /\ Put(c, Away)
         /\ hungup' = [hungup EXCEPT ![c] = @ \cup {"client"}]
    ELSE /\ Put(c, [client[c] EXCEPT !.pc = "ready", !.head = None, !.got = None])
         /\ UNCHANGED hungup

\* A request or a ping of the owner.
Call(c) ==
    /\ client[c].pc = "ready" /\ client[c].calls < MaxCalls
    /\ "agent" \notin hungup[c]
    /\ \/ /\ Put(c, [client[c] EXCEPT !.pc = "calling", !.seq = @ + 1, !.calls = @ + 1, !.got = None])
          /\ Sends(c, Request(client[c].seq + 1, "host", 0))
       \/ /\ Put(c, [client[c] EXCEPT !.pc = "pinging", !.calls = @ + 1, !.got = None])
          /\ Sends(c, Ping)
    /\ UNCHANGED <<down, hungup, backlog, peerVars>>

\* The owner drops it.
Drop(c) ==
    /\ client[c].pc = "ready"
    /\ Put(c, Away)
    /\ hungup' = [hungup EXCEPT ![c] = @ \cup {"client"}]
    /\ UNCHANGED <<up, down, backlog, peerVars>>

\* Nothing comes in time, or nothing will: of a frame that has begun, what came is lost.
TimesOut(c) ==
    /\ client[c].pc \in Waiting
    /\ \/ down[c] = <<>>
       \/ Len(down[c]) = 1 /\ client[c].head = None /\ Head(down[c]).kind # "header"
    /\ down' = [down EXCEPT ![c] = <<>>]
    /\ Fails(c)
    /\ UNCHANGED <<up, backlog, peerVars>>

\* What is left when a header is read from the rest of a piece and the piece after it.
Swallowed(s) ==
    IF s[2].kind = "header" THEN {<<Rest>> \o Tail(Tail(s))}
    ELSE {Tail(s), <<Rest>> \o Tail(Tail(s)), Tail(Tail(s))}

\* What is left when a header is read where none begins: a body may be longer than a
\* header, as long, or shorter.
Misreadings(s) ==
    (IF s[1].kind = "body" THEN {s, Tail(s)} ELSE {})
    \cup (IF Len(s) > 1 THEN Swallowed(s) ELSE {})

\* It does not begin as a header does.
Misread(c) ==
    /\ client[c].pc \in Waiting /\ client[c].head = None
    /\ down[c] # <<>> /\ Head(down[c]).kind # "header"
    /\ \E left \in Misreadings(down[c]) : down' = [down EXCEPT ![c] = left]
    /\ Fails(c)
    /\ UNCHANGED <<up, backlog, peerVars>>

\* A pong answers a ping and is passed over otherwise; of an answer the body is awaited.
ReadHeader(c) ==
    /\ client[c].pc \in Waiting /\ client[c].head = None
    /\ down[c] # <<>> /\ Head(down[c]).kind = "header"
    /\ down' = [down EXCEPT ![c] = Tail(@)]
    /\ LET head == Head(down[c]) IN
          client' = [client EXCEPT ![c] =
              IF head.type = "response" THEN [@ EXCEPT !.head = head]
              ELSE IF @.pc = "pinging" THEN [@ EXCEPT !.pc = "ready"] ELSE @]
    /\ UNCHANGED <<up, hungup, backlog, peerVars>>

\* (A mutant: the answer that comes is the one that is awaited.)
Taken(c) == client[c].pc # "pinging"

\* Only the answer to the request that is made is taken.
Own(c) == client[c].pc # "pinging" /\ client[c].head.id = client[c].seq

\* The handshake goes on or is done, a call returns.
Goes(c) ==
    LET s == client[c] IN
    \/ /\ s.pc = "greeting"
       /\ Put(c, [s EXCEPT !.pc = "proving", !.seq = 2, !.head = None])
       /\ Sends(c, Request(2, "complete", s.head.id))
    \/ /\ s.pc = "proving"
       /\ Put(c, [s EXCEPT !.pc = "ready", !.head = None])
       /\ UNCHANGED up
    \/ /\ s.pc = "calling"
       /\ Put(c, [s EXCEPT !.pc = "ready", !.head = None,
                           !.got = [given |-> s.seq, of |-> s.head.id, code |-> s.head.code]])
       /\ UNCHANGED up

\* The proof of an agent that has another secret does not do, nor does a refusal.
Accepts(c) == client[c].pc = "calling" \/ (c \in Known /\ client[c].head.code = "ok")

ReadBody(c) ==
    /\ client[c].head # None
    /\ down[c] # <<>>
    /\ down' = [down EXCEPT ![c] = Tail(@)]
    /\ IF Own(c) /\ Accepts(c) THEN Goes(c) /\ UNCHANGED hungup ELSE Fails(c) /\ UNCHANGED up
    /\ UNCHANGED <<backlog, peerVars>>

-----------------------------------------------------------------------------
\* The server: Serve and serveConnection.

Accept ==
    /\ serving = None /\ backlog # <<>>
    /\ serving' = Head(backlog) /\ backlog' = Tail(backlog)
    /\ trust' = NoTrust
    /\ UNCHANGED <<client, up, down, hungup, handling, writing>>

Reads == serving # None /\ handling = None /\ writing = <<>>

Take ==
    /\ Reads /\ up[serving] # <<>>
    /\ up' = [up EXCEPT ![serving] = Tail(@)]
    /\ LET frame == Head(up[serving]) IN
          IF frame = Ping THEN writing' = <<Header("pong", 0, "ok")>> /\ UNCHANGED handling
          ELSE handling' = frame /\ UNCHANGED writing
    /\ UNCHANGED <<client, down, hungup, backlog, serving, trust>>

\* dispatchRequest: the authentication state after a request ...
TrustAfter(r) ==
    CASE r.method = "begin" -> [trust EXCEPT !.pending = r.id]
      [] r.method = "complete" /\ trust.pending = r.nonce /\ serving \in Known
         -> [authenticated |-> TRUE, pending |-> None]
      [] OTHER -> trust

\* ... and whether it was allowed.
Code(r) ==
    IF r.method = "begin" \/ TrustAfter(r).authenticated THEN "ok" ELSE "UNAUTHORIZED"

Answer ==
    /\ handling # None
    /\ handling' = None
    /\ trust' = TrustAfter(handling)
    /\ writing' = <<Header("response", handling.id, Code(handling)), Body>>
    /\ UNCHANGED <<client, up, down, hungup, backlog, serving>>

EndConnection ==
    /\ hungup' = [hungup EXCEPT ![serving] = @ \cup {"agent"}]
    /\ serving' = None /\ trust' = NoTrust /\ handling' = None /\ writing' = <<>>
    /\ UNCHANGED <<client, up, down, backlog>>

\* The answer is larger than a frame may be.
TooLarge == handling # None /\ handling.method = "host" /\ EndConnection

\* A write waits for room and fails when the client has gone.
Write ==
    /\ writing # <<>> /\ "client" \notin hungup[serving]
    /\ Len(down[serving]) < Buffer
    /\ down' = [down EXCEPT ![serving] = Append(@, Head(writing))]
    /\ writing' = Tail(writing)
    /\ UNCHANGED <<client, up, hungup, backlog, serving, trust, handling>>

\* A read or a write fails.
PeerGone ==
    /\ serving # None /\ handling = None
    /\ "client" \in hungup[serving]
    /\ EndConnection

-----------------------------------------------------------------------------
Init ==
    /\ client = [c \in Clients |-> Away]
    /\ up = [c \in Clients |-> <<>>] /\ down = [c \in Clients |-> <<>>]
    /\ hungup = [c \in Clients |-> {"client", "agent"}]
    /\ backlog = <<>> /\ serving = None
    /\ trust = NoTrust /\ handling = None /\ writing = <<>>

Client(c) ==
    \/ Connect(c) \/ Call(c) \/ Drop(c)
    \/ TimesOut(c) \/ Misread(c) \/ ReadHeader(c) \/ ReadBody(c)

Server == Accept \/ Take \/ Answer \/ TooLarge \/ Write \/ PeerGone

Next == Server \/ \E c \in Clients : Client(c)

Spec == Init /\ [][Next]_vars

-----------------------------------------------------------------------------
\* A client that is up is the one that the agent serves, as one that has proved itself,
\* unless the agent has hung up on it; and what a call returns is the answer to that very
\* call, and no refusal, whatever came late, in part or not at all before.
InStep ==
    \A c \in Clients :
        /\ (client[c].pc \in {"ready", "calling", "pinging"} /\ "agent" \notin hungup[c])
               => serving = c /\ trust.authenticated
        /\ client[c].got # None
               => client[c].got.of = client[c].got.given /\ client[c].got.code = "ok"
=============================================================================
