--------------------------- MODULE TunnelTraffic ---------------------------
(***************************************************************************)
(* The traffics that one tunnel carries, one after the other: how the      *)
(* Bridge's dispatch and the agent's traffic worker open, relay, close and *)
(* recycle it (cloud-bridge/runtime/bridge/connectorproxy, the HTTP and    *)
(* gRPC pumps of its app package; agent-core/runtime/agent/traffic,        *)
(* app/data_plane_runtime.go).                                             *)
(*                                                                         *)
(* Each direction of the tunnel is a FIFO queue of frames.  A frame is its *)
(* kind and the traffic it belongs to (the recycle number for the recycle  *)
(* handshake); the code's data frames do not carry their traffic, it is a  *)
(* ghost here.  Frames of a side that has closed the tunnel can still be   *)
(* read by the other until it notices.                                     *)
(*                                                                         *)
(* The Bridge's reader is one goroutine at a time: the open handshake, a   *)
(* pump, the close handshake, the recycle handshake.  A pump is "wait" (the *)
(* default relay, which only waits for the end), "http" or "grpc".  The    *)
(* agent's relay is four goroutines: reader is the one that reads the      *)
(* tunnel, stop what the others found (the end of the upstream or an       *)
(* error) before they cancelled it.                                        *)
(*                                                                         *)
(* Not here: what the frames hold, discardLateOpenAck (it reads a tunnel   *)
(* that nobody reads again), and which tunnel a dispatch picks             *)
(* (ConnectorDispatch).                                                    *)
(***************************************************************************)
EXTENDS Naturals, Sequences

CONSTANTS
    MaxReuse,   \* the dispatcher's maxReuseCount
    MaxChunks   \* bound: data frames the service sends in one traffic

ASSUME MaxReuseAssumption == MaxReuse \in Nat \ {0}
ASSUME MaxChunksAssumption == MaxChunks \in Nat

VARIABLES
    polling,        \* reads poll their context (every binding but grpc_h2)
    toAgent,        \* frames on their way to the agent
    toBridge,       \* frames on their way to the Bridge
    link,           \* "down" once either side, or the network, has cut it
    bpc,            \* what the Bridge is doing with the tunnel
    traffic,        \* the last traffic it opened
    recycleSeq,     \* TunnelRuntime.RecycleSeq (ReuseCount rises with it)
    bridgeAcked,    \* closeAckSentByID has the traffic, on the Bridge
    apc,            \* what the agent's worker is doing with the tunnel
    serving,        \* the last traffic it took up
    lastRecycleSeq, \* Record.LastRecycleSeq
    ackedSeq,       \* the recycle number it acknowledged last
    agentAcked,     \* closeAckSentByID has the traffic, on the agent
    observed,       \* closeAckObserved
    reader,         \* the relay's tunnel reader
    stop,           \* why the relay was cancelled: "no", "eof" or "error"
    chunks          \* data frames sent in this traffic

bridgeVars == <<bpc, traffic, recycleSeq, bridgeAcked>>
recycleVars == <<lastRecycleSeq, ackedSeq, agentAcked, observed>>
relayVars == <<reader, stop, chunks>>
agentVars == <<apc, serving, recycleVars, relayVars>>
wire == <<toAgent, toBridge, link>>
vars == <<polling, wire, bridgeVars, agentVars>>

Pumps == {"wait", "http", "grpc"}
BridgePlaces == Pumps \cup {"idle", "opening", "late", "drain", "await",
                            "relayed", "recycling", "closed"}
AgentPlaces == {"idle", "dial", "relay", "recycle", "acked", "closed"}
ToAgent == {"open", "data", "close", "closeAck", "reset", "recycle", "final"}
ToBridge == {"ack", "nak", "data", "close", "closeAck", "reset", "recycleAck",
             "reject"}

Init ==
    /\ polling \in BOOLEAN
    /\ toAgent = <<>> /\ toBridge = <<>> /\ link = "up"
    /\ bpc = "idle" /\ traffic = 0 /\ recycleSeq = 0 /\ bridgeAcked = FALSE
    /\ apc = "idle" /\ serving = 0 /\ lastRecycleSeq = 0 /\ ackedSeq = 0
    /\ agentAcked = FALSE /\ observed = FALSE
    /\ reader = "off" /\ stop = "no" /\ chunks = 0

\* A queue after a write of these frames: nothing arrives over a cut link.
Sent(queue, frames) == IF link = "up" THEN queue \o frames ELSE queue

\* A frame of the Bridge, of the agent.
OfBridge(kind) == <<[kind |-> kind, of |-> traffic]>>
OfAgent(kind) == <<[kind |-> kind, of |-> serving]>>

\* The frame at the head of the queue is read.
BridgeTakes(kinds) ==
    /\ toBridge # <<>>
    /\ Head(toBridge).kind \in kinds
    /\ Head(toBridge).of = traffic
    /\ toBridge' = Tail(toBridge)

\* recycleTunnelBroken, recycleTunnelClosed: the dispatch closes the tunnel.
BridgeCloses == bpc' = "closed" /\ link' = "down"

\* The Bridge writes these frames and goes on.
BridgeWrites(frames, place) ==
    /\ toAgent' = Sent(toAgent, frames)
    /\ bpc' = place
    /\ UNCHANGED link

(***************************************************************************)
(* The Bridge: open handshake                                              *)
(***************************************************************************)
\* OpenHandshake.Execute writes the open.
BridgeOpens ==
    /\ bpc = "idle"
    /\ traffic' = traffic + 1
    /\ BridgeWrites(<<[kind |-> "open", of |-> traffic']>>, "opening")
    /\ UNCHANGED <<polling, toBridge, recycleSeq, bridgeAcked, agentVars>>

\* The first frame is the open's acknowledgement: a pump starts.  The HTTP
\* and gRPC pumps write the request.
OpenAcked ==
    /\ bpc = "opening"
    /\ BridgeTakes({"ack"})
    /\ \E pump \in Pumps :
          BridgeWrites(IF pump = "wait" THEN <<>> ELSE OfBridge("data"), pump)
    /\ UNCHANGED <<polling, traffic, recycleSeq, bridgeAcked, agentVars>>

\* The first frame is a refusal or not an acknowledgement of this open.
OpenRefused ==
    /\ bpc = "opening"
    /\ toBridge # <<>>
    /\ Head(toBridge) # [kind |-> "ack", of |-> traffic]
    /\ toBridge' = Tail(toBridge)
    /\ BridgeCloses
    /\ UNCHANGED <<polling, toAgent, traffic, recycleSeq, bridgeAcked, agentVars>>

\* No answer in time: a reset, and the tunnel is given up.
OpenTimesOut ==
    /\ bpc = "opening" /\ polling
    /\ BridgeWrites(OfBridge("reset"), "late")
    /\ UNCHANGED <<polling, toBridge, traffic, recycleSeq, bridgeAcked, agentVars>>

\* (A mutant: the tunnel goes back to the pool once the reset is written.)
BridgeGivesUpReused ==
    /\ bpc = "late"
    /\ bpc' = "idle"
    /\ UNCHANGED <<polling, wire, traffic, recycleSeq, bridgeAcked, agentVars>>

BridgeGivesUp ==
    /\ bpc = "late"
    /\ BridgeCloses
    /\ UNCHANGED <<polling, toAgent, toBridge, traffic, recycleSeq, bridgeAcked,
                   agentVars>>

(***************************************************************************)
(* The Bridge: pumps and close handshake                                   *)
(***************************************************************************)
\* WriteTrafficCloseAndAwaitAck.
BridgeWritesClose == BridgeWrites(OfBridge("close"), "await")

\* The frame that completes the response, or that the client does not take.
\* After a gRPC response the deferred close of the client connection waits
\* for the reader's lock, which the reader holds until the next frame.
ResponseEnds ==
    /\ bpc \in {"http", "grpc", "drain"}
    /\ BridgeTakes({"data"})
    /\ \/ bpc \in {"http", "drain"} /\ BridgeWritesClose
       \/ bpc = "grpc" /\ BridgeWrites(<<>>, "drain")
       \/ bpc \in {"http", "grpc"} /\ BridgeCloses /\ UNCHANGED toAgent
    /\ UNCHANGED <<polling, traffic, recycleSeq, bridgeAcked, agentVars>>

\* tryMarkBridgeCloseAckSentOnce guards the acknowledgement of the default
\* relay and of the close handshake ...
PeerClosed ==
    /\ bpc \in {"wait", "await"}
    /\ BridgeTakes({"close"})
    /\ BridgeWrites(IF bridgeAcked THEN <<>> ELSE OfBridge("closeAck"), "relayed")
    /\ bridgeAcked' = TRUE
    /\ UNCHANGED <<polling, traffic, recycleSeq, agentVars>>

\* ... but not that of the HTTP and gRPC readers, for which the close is the
\* end of the response, complete or not.
PumpClosed ==
    /\ bpc \in {"http", "grpc", "drain"}
    /\ BridgeTakes({"close"})
    /\ \/ /\ bpc \in {"http", "drain"}
          /\ BridgeWrites(OfBridge("closeAck") \o OfBridge("close"), "await")
       \/ /\ bpc \in {"http", "grpc"}
          /\ toAgent' = Sent(toAgent, OfBridge("closeAck"))
          /\ BridgeCloses
    /\ UNCHANGED <<polling, traffic, recycleSeq, bridgeAcked, agentVars>>

\* A reset ends the dispatch, unless the gRPC response is complete already.
PeerReset ==
    /\ bpc \in Pumps \cup {"drain", "await"}
    /\ BridgeTakes({"reset"})
    /\ IF bpc = "drain" THEN BridgeWritesClose
                        ELSE BridgeCloses /\ UNCHANGED toAgent
    /\ UNCHANGED <<polling, traffic, recycleSeq, bridgeAcked, agentVars>>

CloseAcked ==
    /\ bpc = "await"
    /\ BridgeTakes({"closeAck"})
    /\ bpc' = "relayed"
    /\ UNCHANGED <<polling, toAgent, link, traffic, recycleSeq, bridgeAcked,
                   agentVars>>

\* The client goes away: its context ends what reads with it.
ClientGone ==
    /\ polling
    /\ \/ bpc \in Pumps \cup {"opening"} /\ BridgeCloses /\ UNCHANGED toAgent
       \/ bpc = "drain" /\ BridgeWritesClose
    /\ UNCHANGED <<polling, toBridge, traffic, recycleSeq, bridgeAcked, agentVars>>

(***************************************************************************)
(* The Bridge: recycle handshake, and what ends any wait                   *)
(***************************************************************************)
IsFinal == recycleSeq + 1 >= MaxReuse

\* recycleTunnelReusable.
BridgeRecycles ==
    /\ bpc = "relayed"
    /\ LET kind == IF IsFinal THEN "final" ELSE "recycle"
       IN  BridgeWrites(<<[kind |-> kind, of |-> recycleSeq + 1]>>, "recycling")
    /\ UNCHANGED <<polling, toBridge, traffic, recycleSeq, bridgeAcked, agentVars>>

\* The answer: the tunnel goes back to the pool, or it was its last traffic.
BridgeRecycled ==
    /\ bpc = "recycling"
    /\ toBridge # <<>>
    /\ toBridge' = Tail(toBridge)
    /\ bridgeAcked' = FALSE
    /\ Head(toBridge).kind \in {"recycleAck", "reject"}
    /\ IF Head(toBridge) = [kind |-> "recycleAck", of |-> recycleSeq + 1] /\ ~IsFinal
         THEN /\ bpc' = "idle"
              /\ recycleSeq' = recycleSeq + 1
              /\ UNCHANGED link
         ELSE BridgeCloses /\ UNCHANGED recycleSeq
    /\ UNCHANGED <<polling, toAgent, traffic, agentVars>>

\* A wait heeds the frames it is for; it discards the others, and hands data
\* to the client.
Heeds(f) ==
    IF bpc = "recycling"
      THEN f.kind \in {"recycleAck", "reject"}
      ELSE /\ f.kind \in {"close", "reset"} \/ (f.kind = "closeAck" /\ bpc = "await")
           /\ f.of = traffic

BridgeSkips ==
    /\ bpc \in Pumps \cup {"drain", "await", "recycling"}
    /\ toBridge # <<>>
    /\ ~Heeds(Head(toBridge))
    /\ toBridge' = Tail(toBridge)
    /\ UNCHANGED <<polling, toAgent, link, bridgeVars, agentVars>>

\* The close and recycle handshakes have a timeout.
BridgeTimesOut ==
    /\ polling
    /\ bpc \in {"await", "recycling"}
    /\ BridgeCloses
    /\ UNCHANGED <<polling, toAgent, toBridge, traffic, recycleSeq, bridgeAcked,
                   agentVars>>

\* A read, a write or the reuse check finds the tunnel cut, or the watcher of
\* the accepted tunnel does.
BridgeFails ==
    /\ link = "down" /\ bpc # "closed"
    /\ bpc' = "closed"
    /\ UNCHANGED <<polling, wire, traffic, recycleSeq, bridgeAcked, agentVars>>

\* The network is lost, or either pool retires its tunnel.
Sever ==
    /\ link = "up"
    /\ link' = "down"
    /\ UNCHANGED <<polling, toAgent, toBridge, bridgeVars, agentVars>>

(***************************************************************************)
(* The agent: open and relay                                               *)
(***************************************************************************)
AgentTakes == toAgent # <<>> /\ toAgent' = Tail(toAgent)
Frame == Head(toAgent)

\* cleanupTunnelAfterTraffic: the worker closes the tunnel.
AgentCloses == apc' = "closed" /\ link' = "down"

AgentWrites(kind) == toBridge' = Sent(toBridge, OfAgent(kind))

RelayOver == reader' = "off" /\ stop' = "no" /\ chunks' = 0

\* Acceptor.WaitTrafficOpen takes the first frame, which has to be an open.
AgentOpens ==
    /\ apc = "idle"
    /\ AgentTakes
    /\ IF Frame.kind = "open"
         THEN apc' = "dial" /\ serving' = Frame.of /\ UNCHANGED link
         ELSE AgentCloses /\ UNCHANGED serving
    /\ UNCHANGED <<polling, toBridge, bridgeVars, recycleVars, relayVars>>

\* Opener.Handle dials the upstream and acknowledges ...
DialOk ==
    /\ apc = "dial"
    /\ AgentWrites("ack")
    /\ apc' = "relay"
    /\ reader' = "reading"
    /\ UNCHANGED <<polling, toAgent, link, bridgeVars, serving, recycleVars,
                   stop, chunks>>

\* ... or cannot.
DialFails ==
    /\ apc = "dial"
    /\ AgentWrites("nak")
    /\ AgentCloses
    /\ UNCHANGED <<polling, toAgent, bridgeVars, serving, recycleVars, relayVars>>

\* (A mutant: the relay does not wait for the goroutine that writes the tunnel.)
MaySendOn == apc \in {"relay", "recycle", "acked"} /\ chunks < MaxChunks

MaySend == apc = "relay" /\ stop = "no" /\ chunks < MaxChunks

ServiceSends ==
    /\ MaySend
    /\ AgentWrites("data")
    /\ chunks' = chunks + 1
    /\ UNCHANGED <<polling, toAgent, link, bridgeVars, apc, serving, recycleVars,
                   reader, stop>>

\* The service ends its side: what it sent is written, the relay stops.
ServiceEnds ==
    /\ apc = "relay" /\ reader # "eof" /\ stop = "no"
    /\ stop' = "eof"
    /\ UNCHANGED <<polling, wire, bridgeVars, apc, serving, recycleVars, reader,
                   chunks>>

\* The upstream fails, or takes no data in time.
ServiceFails ==
    /\ apc = "relay" /\ reader # "eof" /\ stop = "no"
    /\ stop' = "error"
    /\ UNCHANGED <<polling, wire, bridgeVars, apc, serving, recycleVars, reader,
                   chunks>>

\* The tunnel's end is reached: the relay cancels itself and closes the
\* upstream.  A pending read of the upstream then fails (net.ErrClosed),
\* which Relay does not take for its own doing; an end of the upstream, or
\* the cancelled context, it does.
RelayStops ==
    /\ apc = "relay" /\ reader = "eof" /\ stop = "no"
    /\ stop' \in {"eof", "error"}
    /\ UNCHANGED <<polling, wire, bridgeVars, apc, serving, recycleVars, reader,
                   chunks>>

\* readTunnelToUpstream reads while its context lives.
RelayReads ==
    /\ apc = "relay" /\ reader = "reading"
    /\ AgentTakes

\* A close is acknowledged, unless it was before: marked first, then written.
RelayReadsClose ==
    /\ RelayReads
    /\ Frame = [kind |-> "close", of |-> serving]
    /\ agentAcked' = TRUE
    /\ observed' = agentAcked
    /\ reader' = IF agentAcked THEN "eof" ELSE "closing"
    /\ UNCHANGED <<polling, toBridge, link, bridgeVars, apc, serving,
                   lastRecycleSeq, ackedSeq, stop, chunks>>

RelayReadsReset ==
    /\ RelayReads
    /\ Frame = [kind |-> "reset", of |-> serving]
    /\ reader' = "done" /\ stop' = "error"
    /\ UNCHANGED <<polling, toBridge, link, bridgeVars, apc, serving, recycleVars,
                   chunks>>

\* Data goes to the upstream, other frames nowhere.
RelayReadsOther ==
    /\ RelayReads
    /\ Frame \notin {[kind |-> kind, of |-> serving] : kind \in {"close", "reset"}}
    /\ reader' = IF stop = "no" THEN "reading" ELSE "done"
    /\ UNCHANGED <<polling, toBridge, link, bridgeVars, apc, serving, recycleVars,
                   stop, chunks>>

\* (A mutant: the relay keeps to itself that it acknowledged the close.)
RelayAcksCloseUnmarked ==
    /\ apc = "relay" /\ reader = "closing"
    /\ IF stop = "no"
         THEN AgentWrites("closeAck") /\ reader' = "eof"
         ELSE reader' = "done" /\ UNCHANGED toBridge
    /\ UNCHANGED <<polling, toAgent, link, bridgeVars, apc, serving,
                   recycleVars, stop, chunks>>

\* The write fails once the relay is cancelled: marked, not acknowledged.
RelayAcksClose ==
    /\ apc = "relay" /\ reader = "closing"
    /\ IF stop = "no"
         THEN AgentWrites("closeAck") /\ observed' = TRUE /\ reader' = "eof"
         ELSE reader' = "done" /\ UNCHANGED <<toBridge, observed>>
    /\ UNCHANGED <<polling, toAgent, link, bridgeVars, apc, serving,
                   lastRecycleSeq, ackedSeq, agentAcked, stop, chunks>>

\* The cancelled context ends a read, except on grpc_h2.
ReaderStops ==
    /\ apc = "relay" /\ reader = "reading" /\ stop # "no"
    /\ polling
    /\ reader' = "done"
    /\ UNCHANGED <<polling, wire, bridgeVars, apc, serving, recycleVars, stop,
                   chunks>>

\* (A mutant: no close is written once the acknowledgement of the Bridge's is
\* marked.)
RelayEndsQuietly ==
    /\ apc = "relay" /\ reader \in {"eof", "done"} /\ stop # "no"
    /\ RelayOver
    /\ IF stop = "error"
         THEN AgentWrites("reset") /\ AgentCloses
         ELSE /\ toBridge' = Sent(toBridge, IF agentAcked THEN <<>>
                                            ELSE OfAgent("close"))
              /\ apc' = "recycle"
              /\ UNCHANGED link
    /\ UNCHANGED <<polling, toAgent, bridgeVars, serving, recycleVars>>

\* Relay returns when its four goroutines have; Handle writes how it ended.
RelayEnds ==
    /\ apc = "relay" /\ reader \in {"eof", "done"} /\ stop # "no"
    /\ RelayOver
    /\ IF stop = "error" THEN AgentWrites("reset") /\ AgentCloses
                         ELSE AgentWrites("close") /\ apc' = "recycle" /\ UNCHANGED link
    /\ UNCHANGED <<polling, toAgent, bridgeVars, serving, recycleVars>>

(***************************************************************************)
(* The agent: handleTunnelRecyclePhase                                     *)
(***************************************************************************)
ClosesServed == Frame.kind \in {"close", "closeAck"} /\ Frame.of = serving

RecycleReadsClose ==
    /\ apc = "recycle"
    /\ AgentTakes
    /\ ClosesServed
    /\ observed' = TRUE
    /\ IF Frame.kind = "close"
         THEN /\ toBridge' = Sent(toBridge, IF agentAcked THEN <<>>
                                            ELSE OfAgent("closeAck"))
              /\ agentAcked' = TRUE
         ELSE UNCHANGED <<toBridge, agentAcked>>
    /\ UNCHANGED <<polling, link, bridgeVars, apc, serving, lastRecycleSeq,
                   ackedSeq, relayVars>>

\* A recycle is refused unless its number is new and the close of the traffic
\* has been seen through.
MayRecycle == /\ Frame.of > lastRecycleSeq
              /\ observed

RecycleAnswers ==
    /\ apc = "recycle"
    /\ AgentTakes
    /\ Frame.kind \in {"recycle", "final"}
    /\ toBridge' = Sent(toBridge,
                        <<[kind |-> IF MayRecycle THEN "recycleAck" ELSE "reject",
                           of   |-> Frame.of]>>)
    /\ IF MayRecycle /\ Frame.kind = "recycle"
         THEN apc' = "acked" /\ ackedSeq' = Frame.of /\ UNCHANGED link
         ELSE AgentCloses /\ UNCHANGED ackedSeq
    /\ UNCHANGED <<polling, bridgeVars, serving, lastRecycleSeq, agentAcked,
                   observed, relayVars>>

\* A reset of the traffic ends the phase; it discards any other frame.
RecycleReadsOther ==
    /\ apc = "recycle"
    /\ AgentTakes
    /\ Frame.kind \notin {"recycle", "final"} /\ ~ClosesServed
    /\ IF Frame = [kind |-> "reset", of |-> serving]
         THEN AgentCloses
         ELSE UNCHANGED <<apc, link>>
    /\ UNCHANGED <<polling, toBridge, bridgeVars, serving, recycleVars, relayVars>>

\* RecycleToIdle, after the acknowledgement is on its way.
RecycleToIdle ==
    /\ apc = "acked"
    /\ apc' = "idle"
    /\ lastRecycleSeq' = ackedSeq
    /\ agentAcked' = FALSE /\ observed' = FALSE
    /\ UNCHANGED <<polling, wire, bridgeVars, serving, ackedSeq, relayVars>>

AgentTimesOut ==
    /\ polling
    /\ apc = "recycle"
    /\ AgentCloses
    /\ UNCHANGED <<polling, toAgent, toBridge, bridgeVars, serving, recycleVars,
                   relayVars>>

AgentFails ==
    /\ link = "down" /\ apc # "closed"
    /\ apc' = "closed"
    /\ RelayOver
    /\ UNCHANGED <<polling, wire, bridgeVars, serving, recycleVars>>

(***************************************************************************)
(* The specification                                                       *)
(***************************************************************************)
\* Both sides are done with the tunnel.
Over == bpc = "closed" /\ apc = "closed" /\ UNCHANGED vars

\* Steps that come by themselves once they can be taken.
BridgeReads == OpenAcked \/ OpenRefused \/ ResponseEnds \/ PeerClosed
               \/ PumpClosed \/ PeerReset \/ CloseAcked \/ BridgeRecycled
               \/ BridgeSkips
BridgeStep == BridgeReads \/ BridgeGivesUp \/ BridgeRecycles \/ BridgeFails
AgentStep == AgentOpens \/ DialOk \/ DialFails \/ RelayEnds \/ RecycleReadsClose
             \/ RecycleAnswers \/ RecycleReadsOther \/ RecycleToIdle \/ AgentFails
ReaderStep == RelayReadsClose \/ RelayReadsReset \/ RelayReadsOther
              \/ RelayAcksClose \/ ReaderStops

\* Steps that may come or not: clients, timeouts, services, the network.
Environment == BridgeOpens \/ OpenTimesOut \/ ClientGone \/ BridgeTimesOut
               \/ Sever \/ ServiceSends \/ ServiceEnds \/ ServiceFails
               \/ AgentTimesOut

Next == BridgeStep \/ AgentStep \/ ReaderStep \/ RelayStops \/ Environment \/ Over

Spec == Init /\ [][Next]_vars

\* The dispatch, the worker, the relay's reader and its other goroutines.
Fairness == /\ WF_vars(BridgeStep) /\ WF_vars(AgentStep)
            /\ WF_vars(ReaderStep) /\ WF_vars(RelayStops)

FairSpec == Spec /\ Fairness

(***************************************************************************)
(* Properties                                                              *)
(***************************************************************************)
Elements(queue) == {queue[i] : i \in DOMAIN queue}

TypeOK ==
    /\ polling \in BOOLEAN
    /\ toAgent \in Seq([kind : ToAgent, of : 1 .. MaxReuse])
    /\ toBridge \in Seq([kind : ToBridge, of : 1 .. MaxReuse])
    /\ link \in {"up", "down"}
    /\ bpc \in BridgePlaces
    /\ traffic \in 0 .. MaxReuse
    /\ recycleSeq \in 0 .. MaxReuse - 1
    /\ bridgeAcked \in BOOLEAN
    /\ apc \in AgentPlaces
    /\ serving \in 0 .. MaxReuse
    /\ lastRecycleSeq \in 0 .. MaxReuse
    /\ ackedSeq \in 0 .. MaxReuse
    /\ agentAcked \in BOOLEAN
    /\ observed \in BOOLEAN
    /\ reader \in {"off", "reading", "closing", "eof", "done"}
    /\ stop \in {"no", "eof", "error"}
    /\ chunks \in 0 .. MaxChunks

\* No data of one traffic is taken for another's: what is on its way to a
\* client is of the traffic the Bridge relays, what is on its way to the
\* service is of the traffic the agent serves.  Data frames name no traffic,
\* so nothing else keeps them apart when the tunnel is reused.
NoMixing ==
    /\ \A f \in Elements(toBridge) : f.kind = "data" => f.of = traffic
    /\ \A f \in Elements(toAgent) : f.kind = "data" => f.of = serving

\* Neither side is ever sent what it has to refuse: the agent's first frame
\* is an open (Acceptor.WaitTrafficOpen), the Bridge's answer to its open an
\* answer to that open (OpenHandshake.Execute), and a recycle is asked for
\* only once the agent has seen the close through (handleTunnelRecyclePhase),
\* even if the acknowledgement it marked as sent never was.
NeverRefused ==
    /\ apc = "idle" /\ toAgent # <<>> => Frame.kind = "open"
    /\ bpc = "opening" /\ toBridge # <<>> =>
          Head(toBridge).kind \in {"ack", "nak"} /\ Head(toBridge).of = traffic
    /\ \A f \in Elements(toBridge) : f.kind # "reject"

\* The Bridge puts a tunnel back into its pool only when the agent has agreed
\* to the same recycle, though its registry may not have it as idle yet: the
\* recycle numbers of the two registries never drift apart.
RecycleAgreed ==
    bpc = "idle" /\ link = "up" =>
        \/ lastRecycleSeq = recycleSeq
        \/ apc = "acked" /\ ackedSeq = recycleSeq

\* The tunnel serves one traffic after the other.
Serial == INSTANCE SerialTunnel WITH
            opened <- traffic,
            served <- serving,
            ended <- IF apc \in {"dial", "relay"} THEN serving - 1 ELSE serving

SerialSpec == Serial!Spec

\* Once the Bridge closes a traffic, its handshakes with the agent come to an
\* end without any timeout, whoever closes first and even when both do.
ClosingEnds == []<>(bpc \notin {"await", "relayed", "recycling"})

\* Where reads poll, the end of the service's side ends the traffic on both
\* sides: no half of it waits for the other.
EofEndsTraffic ==
    []<>(polling /\ serving = traffic =>
             \/ bpc \in {"idle", "closed"}
             \/ apc = "dial"
             \/ apc = "relay" /\ stop = "no")
=============================================================================
