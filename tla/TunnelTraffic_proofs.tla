------------------------ MODULE TunnelTraffic_proofs ------------------------
(***************************************************************************)
(* Proofs about TunnelTraffic, for any number of reuses and of data        *)
(* frames, on every binding.                                               *)
(***************************************************************************)
EXTENDS TunnelTraffic, SequenceTheorems, TLAPS

(***************************************************************************)
(* The inductive invariant.                                                *)
(***************************************************************************)
\* The agent is busy with a traffic, the Bridge relays or closes one.
Serving == {"dial", "relay", "recycle"}
Relaying == Pumps \cup {"drain", "await"}

\* How the traffic number and the recycle number go together.
Numbers ==
    /\ traffic \in {recycleSeq, recycleSeq + 1}
    /\ bpc = "idle" => traffic = recycleSeq /\ traffic < MaxReuse
    /\ bpc \notin {"idle", "closed"} => traffic = recycleSeq + 1
    /\ apc \in Serving => serving > 0

\* How far apart the two sides can be.
Phases ==
    /\ serving \in {traffic - 1, traffic}
    /\ bpc = "closed" \/ apc = "closed" => link = "down"
    /\ apc \in Serving => serving = traffic
    /\ bpc \notin {"opening", "late", "closed"} => serving = traffic
    /\ apc = "dial" => bpc \in {"opening", "late", "closed"}
    /\ apc \in {"idle", "acked"} =>
          bpc \in {"recycling", "idle", "opening", "late", "closed"}
    /\ bpc = "idle" => /\ toAgent = <<>> /\ toBridge = <<>>
                       /\ apc \notin Serving
    /\ bpc = "opening" /\ apc \in {"idle", "acked", "dial"} => toBridge = <<>>
    /\ bpc = "opening" /\ toBridge # <<>> =>
          /\ serving = traffic
          /\ Head(toBridge).kind \in {"ack", "nak"}
    /\ bpc = "opening" /\ link = "up" =>
          IF apc \in {"idle", "acked"} THEN toAgent # <<>>
                                       ELSE apc = "dial" \/ toBridge # <<>>

\* What may be on its way to the agent, and where in the queue.
AgentQueue ==
    /\ apc \in {"idle", "acked"} /\ toAgent # <<>> => Frame.kind = "open"
    /\ \A i \in 1 .. Len(toAgent) :
          /\ toAgent[i].kind = "open" =>
                /\ i = 1
                /\ serving = traffic - 1
                /\ bpc \in {"opening", "late", "closed"}
          /\ toAgent[i].kind = "data" => serving = traffic
          /\ IF toAgent[i].kind \in {"recycle", "final"}
               THEN /\ i = Len(toAgent)
                    /\ toAgent[i].of = recycleSeq + 1
                    /\ serving = traffic
                    /\ bpc \in {"recycling", "closed"}
                    /\ apc # "dial"
               ELSE toAgent[i].of = traffic

\* What may be on its way to the Bridge.
BridgeQueue ==
    \A i \in 1 .. Len(toBridge) :
        IF toBridge[i].kind \in {"recycleAck", "reject"}
          THEN /\ bpc \in {"recycling", "closed"}
               /\ bpc = "recycling" =>
                     /\ i = Len(toBridge)
                     /\ toAgent = <<>>
                     /\ apc \notin Serving
          ELSE toBridge[i].of = traffic

\* The recycle the Bridge reads, or has read, is one the agent agreed to.
Agreed ==
    /\ bpc = "recycling" /\ link = "up" =>
          \A i \in 1 .. Len(toBridge) :
              toBridge[i].kind = "recycleAck" =>
                  \/ apc = "acked" /\ ackedSeq = toBridge[i].of
                  \/ apc = "idle" /\ lastRecycleSeq = toBridge[i].of
    /\ bpc = "idle" /\ link = "up" =>
          \/ apc = "acked" /\ ackedSeq = recycleSeq
          \/ apc = "idle" /\ lastRecycleSeq = recycleSeq

TypeInv == TypeOK /\ Numbers
Inv == TypeInv /\ Phases /\ AgentQueue /\ BridgeQueue

(***************************************************************************)
(* Queues.                                                                 *)
(***************************************************************************)
\* What a queue is after its head was taken.
LEMMA TakenQueue ==
    ASSUME NEW S, NEW q \in Seq(S), q # <<>>
    PROVE  /\ Tail(q) \in Seq(S)
           /\ Head(q) = q[1] /\ Head(q) \in S
           /\ Len(q) \in Nat \ {0}
           /\ Len(Tail(q)) = Len(q) - 1
           /\ \A i \in 1 .. Len(q) - 1 : Tail(q)[i] = q[i + 1]
  OBVIOUS

\* What a queue is after a write.
LEMMA SentQueue ==
    ASSUME NEW S, NEW q \in Seq(S), NEW frames \in Seq(S)
    PROVE  /\ Sent(q, frames) \in Seq(S)
           /\ Len(q) \in Nat /\ Len(frames) \in Nat
           /\ link = "up" => /\ Len(Sent(q, frames)) = Len(q) + Len(frames)
                             /\ \A i \in 1 .. Len(frames) :
                                    Sent(q, frames)[Len(q) + i] = frames[i]
           /\ link # "up" => Sent(q, frames) = q
           /\ \A i \in 1 .. Len(q) : Sent(q, frames)[i] = q[i]
  BY DEF Sent

\* What two frames are when they are written together.
LEMMA TwoFrames ==
    ASSUME NEW S, NEW u \in Seq(S), NEW v \in Seq(S), Len(u) = 1, Len(v) = 1
    PROVE  /\ u \o v \in Seq(S) /\ Len(u \o v) = 2
           /\ (u \o v)[1] = u[1] /\ (u \o v)[2] = v[1]
  BY ConcatProperties

\* The frames of the two sides.
BridgeFrames == [kind : ToAgent, of : 1 .. MaxReuse]
AgentFrames == [kind : ToBridge, of : 1 .. MaxReuse]

(***************************************************************************)
(* Type correctness.                                                       *)
(***************************************************************************)
LEMMA TypeInit == Init => TypeInv
  <1> SUFFICES ASSUME Init PROVE TypeInv
      OBVIOUS
  <1> USE MaxReuseAssumption, MaxChunksAssumption DEF Init
  <1>1. toAgent \in Seq(BridgeFrames) /\ toBridge \in Seq(AgentFrames)
        OBVIOUS
  <1>2. /\ polling \in BOOLEAN /\ bridgeAcked \in BOOLEAN
        /\ agentAcked \in BOOLEAN /\ observed \in BOOLEAN
        BY Zenon
  <1>3. /\ traffic \in 0 .. MaxReuse /\ recycleSeq \in 0 .. MaxReuse - 1
        /\ serving \in 0 .. MaxReuse /\ lastRecycleSeq \in 0 .. MaxReuse
        /\ ackedSeq \in 0 .. MaxReuse /\ chunks \in 0 .. MaxChunks
        OBVIOUS
  <1>4. Numbers
        BY DEF Numbers, Serving
  <1> QED BY <1>1, <1>2, <1>3, <1>4, Zenon
          DEF TypeInv, TypeOK, BridgeFrames, AgentFrames, BridgePlaces, AgentPlaces

\* Every step keeps the marks Boolean.
LEMMA MarksStep ==
    ASSUME TypeOK, [Next]_vars
    PROVE  /\ polling' \in BOOLEAN /\ bridgeAcked' \in BOOLEAN
           /\ agentAcked' \in BOOLEAN /\ observed' \in BOOLEAN
  <1> USE DEF TypeOK, bridgeVars, agentVars, recycleVars
  <1>1. CASE UNCHANGED vars
        BY <1>1, Zenon DEF vars
  <1>2. CASE BridgeStep
        BY <1>2, Zenon
           DEF BridgeStep, BridgeReads, OpenAcked, OpenRefused, ResponseEnds,
               PeerClosed, PumpClosed, PeerReset, CloseAcked, BridgeRecycled,
               BridgeSkips, BridgeGivesUp, BridgeRecycles, BridgeFails
  <1>3. CASE AgentStep
        BY <1>3, Zenon
           DEF AgentStep, AgentOpens, DialOk, DialFails, RelayEnds,
               RecycleReadsClose, RecycleAnswers, RecycleReadsOther,
               RecycleToIdle, AgentFails
  <1>4. CASE ReaderStep \/ RelayStops
        BY <1>4, Zenon
           DEF ReaderStep, RelayReadsClose, RelayReadsReset, RelayReadsOther,
               RelayAcksClose, ReaderStops, RelayStops
  <1>5. CASE Environment \/ Over
        BY <1>5, Zenon
           DEF Environment, BridgeOpens, OpenTimesOut, ClientGone, BridgeTimesOut,
               Sever, ServiceSends, ServiceEnds, ServiceFails, AgentTimesOut, Over,
               vars
  <1> QED BY <1>1, <1>2, <1>3, <1>4, <1>5 DEF Next

\* Every step keeps the types of what only the agent's side knows.
LEMMA PrivateStep ==
    ASSUME TypeOK, [Next]_vars
    PROVE  /\ reader' \in {"off", "reading", "closing", "eof", "done"}
           /\ stop' \in {"no", "eof", "error"}
           /\ chunks' \in 0 .. MaxChunks
           /\ lastRecycleSeq' \in 0 .. MaxReuse
           /\ ackedSeq' \in 0 .. MaxReuse
  <1> USE MaxReuseAssumption, MaxChunksAssumption
      DEF TypeOK, agentVars, recycleVars, relayVars
  <1>1. CASE UNCHANGED vars
        BY <1>1 DEF vars
  <1>2. CASE BridgeStep
        BY <1>2, Zenon
           DEF BridgeStep, BridgeReads, OpenAcked, OpenRefused, ResponseEnds,
               PeerClosed, PumpClosed, PeerReset, CloseAcked, BridgeRecycled,
               BridgeSkips, BridgeGivesUp, BridgeRecycles, BridgeFails
  <1>3. CASE RecycleAnswers
    <2>1. toAgent # <<>> /\ Frame \in [kind : ToAgent, of : 1 .. MaxReuse]
          BY <1>3, TakenQueue DEF RecycleAnswers, AgentTakes, Frame
    <2>2. Frame.of \in 0 .. MaxReuse
          BY <2>1
    <2>3. ackedSeq' \in {ackedSeq, Frame.of}
          BY <1>3, Zenon DEF RecycleAnswers
    <2> QED BY <1>3, <2>2, <2>3 DEF RecycleAnswers
  <1>4. CASE AgentOpens \/ DialOk \/ DialFails \/ RelayEnds
        BY <1>4 DEF AgentOpens, DialOk, DialFails, RelayEnds, RelayOver
  <1>5. CASE RecycleReadsClose \/ RecycleReadsOther \/ RecycleToIdle \/ AgentFails
        BY <1>5 DEF RecycleReadsClose, RecycleReadsOther, RecycleToIdle, AgentFails,
                    RelayOver
  <1>6. CASE ReaderStep \/ RelayStops
        BY <1>6 DEF ReaderStep, RelayReadsClose, RelayReadsReset, RelayReadsOther,
                    RelayReads, RelayAcksClose, ReaderStops, RelayStops
  <1>7. CASE ServiceSends
        BY <1>7 DEF ServiceSends, MaySend
  <1>8. CASE ServiceEnds \/ ServiceFails
        BY <1>8 DEF ServiceEnds, ServiceFails
  <1>9. CASE \/ BridgeOpens \/ OpenTimesOut \/ ClientGone \/ BridgeTimesOut
             \/ Sever \/ AgentTimesOut \/ Over
        BY <1>9, Zenon
           DEF BridgeOpens, OpenTimesOut, ClientGone, BridgeTimesOut, Sever,
               AgentTimesOut, Over, vars
  <1> QED BY <1>1, <1>2, <1>3, <1>4, <1>5, <1>6, <1>7, <1>8, <1>9
             DEF Next, AgentStep, Environment

(***************************************************************************)
(* What the steps do to the tunnel.  Many differ only in what sets them    *)
(* off; the invariant needs only their effect on the queues and on where   *)
(* the two sides are.                                                      *)
(***************************************************************************)
places == <<link, bpc, traffic, recycleSeq, apc, serving>>

\* Nothing.
Quiet == UNCHANGED <<toAgent, toBridge, places>>

\* The Bridge closes the tunnel, perhaps after a frame it took, perhaps with
\* a last acknowledgement.
BridgeEnds ==
    /\ bpc # "closed" /\ bpc' = "closed" /\ link' = "down"
    /\ UNCHANGED <<traffic, recycleSeq, apc, serving>>
    /\ toBridge' = toBridge \/ (toBridge # <<>> /\ toBridge' = Tail(toBridge))
    /\ \/ toAgent' = toAgent
       \/ bpc \in Relaying /\ toAgent' = Sent(toAgent, OfBridge("closeAck"))

\* The Bridge relays, closes, and is done with the traffic.
Closing == {OfBridge("close"), OfBridge("closeAck"),
            OfBridge("closeAck") \o OfBridge("close")}

BridgeGoesOn ==
    /\ bpc \in Relaying /\ bpc' \in Relaying \cup {"relayed"}
    /\ UNCHANGED <<link, traffic, recycleSeq, apc, serving>>
    /\ toBridge' = toBridge \/ (toBridge # <<>> /\ toBridge' = Tail(toBridge))
    /\ toAgent' = toAgent \/ \E frames \in Closing : toAgent' = Sent(toAgent, frames)

\* The Bridge starts a pump.
BridgeStarts ==
    /\ bpc = "opening" /\ bpc' \in Pumps
    /\ toBridge # <<>> /\ toBridge' = Tail(toBridge)
    /\ toAgent' = toAgent \/ toAgent' = Sent(toAgent, OfBridge("data"))
    /\ UNCHANGED <<link, traffic, recycleSeq, apc, serving>>

\* The Bridge, recycling, discards a frame ...
BridgeDiscards ==
    /\ bpc = "recycling"
    /\ toBridge # <<>> /\ toBridge' = Tail(toBridge)
    /\ Head(toBridge).kind \notin {"recycleAck", "reject"}
    /\ UNCHANGED <<toAgent, places>>

\* ... or puts the tunnel back into the pool.
BridgePools ==
    /\ bpc = "recycling" /\ bpc' = "idle"
    /\ toBridge # <<>> /\ toBridge' = Tail(toBridge)
    /\ Head(toBridge).kind = "recycleAck" /\ Head(toBridge).of = recycleSeq + 1
    /\ recycleSeq + 1 < MaxReuse /\ recycleSeq' = recycleSeq + 1
    /\ UNCHANGED <<toAgent, link, traffic, apc, serving>>

\* The agent closes the tunnel, perhaps with a last frame.
AgentEnds ==
    /\ apc # "closed" /\ apc' = "closed" /\ link' = "down"
    /\ UNCHANGED <<bpc, traffic, recycleSeq, serving>>
    /\ toAgent' = toAgent \/ (toAgent # <<>> /\ toAgent' = Tail(toAgent))
    /\ \/ toBridge' = toBridge
       \/ apc = "dial" /\ toBridge' = Sent(toBridge, OfAgent("nak"))
       \/ apc = "relay" /\ toBridge' = Sent(toBridge, OfAgent("reset"))

\* The agent relays, and waits for the recycle.
AgentGoesOn ==
    /\ apc \in {"relay", "recycle"} /\ apc' \in {apc, "recycle"}
    /\ UNCHANGED <<link, bpc, traffic, recycleSeq, serving>>
    /\ toAgent' = toAgent \/ (toAgent # <<>> /\ toAgent' = Tail(toAgent))
    /\ \/ toBridge' = toBridge
       \/ \E kind \in {"data", "close", "closeAck"} :
             toBridge' = Sent(toBridge, OfAgent(kind))

\* The agent takes up a traffic.
AgentStarts ==
    /\ apc = "idle" /\ apc' = "dial"
    /\ toAgent # <<>> /\ toAgent' = Tail(toAgent)
    /\ Head(toAgent).kind = "open" /\ serving' = Head(toAgent).of
    /\ UNCHANGED <<toBridge, link, bpc, traffic, recycleSeq>>

\* The agent answers a recycle.
AgentAnswers ==
    /\ apc = "recycle" /\ apc' \in {"acked", "closed"}
    /\ toAgent # <<>> /\ toAgent' = Tail(toAgent)
    /\ Head(toAgent).kind \in {"recycle", "final"}
    /\ \E kind \in {"recycleAck", "reject"} :
          toBridge' = Sent(toBridge, <<[kind |-> kind, of |-> Head(toAgent).of]>>)
    /\ link' = IF apc' = "closed" THEN "down" ELSE link
    /\ UNCHANGED <<bpc, traffic, recycleSeq, serving>>

AgentIdles == apc = "acked" /\ apc' = "idle"
              /\ UNCHANGED <<toAgent, toBridge, link, bpc, traffic, recycleSeq, serving>>

OtherEffect ==
    \/ Quiet \/ BridgeEnds \/ BridgeGoesOn \/ BridgeStarts \/ BridgeDiscards
    \/ BridgePools \/ AgentEnds \/ AgentGoesOn \/ AgentStarts
    \/ BridgeOpens \/ OpenTimesOut \/ BridgeRecycles \/ Sever \/ DialOk

Effect == OtherEffect \/ AgentAnswers \/ AgentIdles

\* Every step has one of these effects.
LEMMA OtherEffects ==
    ASSUME TypeOK, [Next]_vars, ~RecycleAnswers, ~RecycleToIdle
    PROVE  OtherEffect
  <1> USE DEF OtherEffect, wire, bridgeVars, agentVars, recycleVars, relayVars, places
  <1>0. Sent(toAgent, <<>>) = toAgent /\ Sent(toBridge, <<>>) = toBridge
        BY DEF TypeOK, Sent
  <1>1. CASE UNCHANGED vars \/ Over
        BY <1>1, Zenon DEF vars, Over, Quiet
  <1>2. CASE OpenAcked
        BY <1>0, <1>2, Zenon DEF OpenAcked, BridgeStarts, BridgeTakes, BridgeWrites
  <1>3. CASE OpenRefused \/ BridgeGivesUp \/ BridgeTimesOut
        BY <1>3 DEF OpenRefused, BridgeGivesUp, BridgeTimesOut, BridgeEnds, BridgeCloses
  <1>4. CASE BridgeFails
        BY <1>4 DEF BridgeFails, BridgeEnds
  <1>5. CASE ResponseEnds
        BY <1>0, <1>5
           DEF ResponseEnds, BridgeTakes, BridgeWritesClose, BridgeWrites, BridgeCloses,
               BridgeEnds, BridgeGoesOn, Closing, Relaying, Pumps
  <1>6. CASE PeerClosed
        BY <1>0, <1>6
           DEF PeerClosed, BridgeTakes, BridgeWrites, BridgeGoesOn, Closing, Relaying,
               Pumps
  <1>7. CASE PumpClosed
        BY <1>7
           DEF PumpClosed, BridgeTakes, BridgeWrites, BridgeCloses, BridgeEnds,
               BridgeGoesOn, Closing, Relaying, Pumps
  <1>8. CASE PeerReset
        BY <1>8
           DEF PeerReset, BridgeTakes, BridgeWritesClose, BridgeWrites, BridgeCloses,
               BridgeEnds, BridgeGoesOn, Closing, Relaying, Pumps
  <1>9. CASE CloseAcked
        BY <1>9 DEF CloseAcked, BridgeTakes, BridgeGoesOn, Relaying
  <1>10. CASE BridgeRecycled
    <2>1. recycleSeq \in Nat /\ MaxReuse \in Nat
          BY MaxReuseAssumption DEF TypeOK
    <2>2. CASE /\ Head(toBridge) = [kind |-> "recycleAck", of |-> recycleSeq + 1]
               /\ ~IsFinal
      <3>1. recycleSeq + 1 < MaxReuse
            BY <2>1, <2>2 DEF IsFinal
      <3>2. Head(toBridge).kind = "recycleAck" /\ Head(toBridge).of = recycleSeq + 1
            BY <2>2
      <3> QED BY <1>10, <2>2, <3>1, <3>2, Zenon DEF BridgeRecycled, BridgePools
    <2>3. CASE ~ (/\ Head(toBridge) = [kind |-> "recycleAck", of |-> recycleSeq + 1]
                  /\ ~IsFinal)
          BY <1>10, <2>3, Zenon DEF BridgeRecycled, BridgeCloses, BridgeEnds
    <2> QED BY <2>2, <2>3
  <1>11. CASE BridgeSkips
        BY <1>11 DEF BridgeSkips, Heeds, BridgeDiscards, BridgeGoesOn, Relaying
  <1>12. CASE ClientGone
        BY <1>12
           DEF ClientGone, BridgeWritesClose, BridgeWrites, BridgeCloses, BridgeEnds,
               BridgeGoesOn, Closing, Relaying, Pumps
  <1>13. CASE AgentOpens
        BY <1>13 DEF AgentOpens, AgentTakes, Frame, AgentCloses, AgentStarts, AgentEnds
  <1>14. CASE DialFails
        BY <1>14 DEF DialFails, AgentWrites, AgentCloses, AgentEnds, Serving
  <1>15. CASE RelayEnds
        BY <1>15 DEF RelayEnds, AgentWrites, AgentCloses, AgentEnds, AgentGoesOn, Serving
  <1>16. CASE RecycleReadsClose
        BY <1>0, <1>16, Zenon DEF RecycleReadsClose, AgentTakes, AgentGoesOn
  <1>17. CASE RecycleReadsOther
        BY <1>17 DEF RecycleReadsOther, AgentTakes, AgentCloses, AgentEnds, AgentGoesOn
  <1>18. CASE AgentFails \/ AgentTimesOut
        BY <1>18 DEF AgentFails, AgentTimesOut, AgentCloses, AgentEnds
  <1>19. CASE RelayReadsClose \/ RelayReadsReset \/ RelayReadsOther
        BY <1>19, Zenon
           DEF RelayReadsClose, RelayReadsReset, RelayReadsOther, RelayReads,
               AgentTakes, AgentGoesOn
  <1>20. CASE RelayAcksClose
        BY <1>20, Zenon DEF RelayAcksClose, AgentWrites, AgentGoesOn, Quiet
  <1>21. CASE ServiceSends
        BY <1>21, Zenon DEF ServiceSends, MaySend, AgentWrites, AgentGoesOn
  <1>22. CASE ServiceEnds \/ ServiceFails \/ RelayStops \/ ReaderStops
        BY <1>22, Zenon DEF ServiceEnds, ServiceFails, RelayStops, ReaderStops, Quiet
  <1> QED BY <1>1, <1>2, <1>3, <1>4, <1>5, <1>6, <1>7, <1>8, <1>9, <1>10, <1>11,
             <1>12, <1>13, <1>14, <1>15, <1>16, <1>17, <1>18, <1>19, <1>20, <1>21,
             <1>22, Zenon
          DEF Next, BridgeStep, BridgeReads, AgentStep, ReaderStep, Environment

\* Every step has one of the effects.
LEMMA Effects == ASSUME TypeOK, [Next]_vars PROVE Effect
  <1> USE DEF Effect
  <1>1. CASE RecycleAnswers
        BY <1>1, Zenon
           DEF RecycleAnswers, bridgeVars, AgentTakes, Frame, AgentCloses, AgentAnswers
  <1>2. CASE RecycleToIdle
        BY <1>2, Zenon DEF RecycleToIdle, wire, bridgeVars, AgentIdles
  <1>3. CASE ~RecycleAnswers /\ ~RecycleToIdle
        BY <1>3, OtherEffects
  <1> QED BY <1>1, <1>2, <1>3

(***************************************************************************)
(* Each effect keeps the invariant of the places and the queues.           *)
(***************************************************************************)
PlaceTypes ==
    /\ toAgent \in Seq(BridgeFrames)
    /\ toBridge \in Seq(AgentFrames)
    /\ link \in {"up", "down"}
    /\ bpc \in BridgePlaces
    /\ traffic \in 0 .. MaxReuse
    /\ recycleSeq \in 0 .. MaxReuse - 1
    /\ apc \in AgentPlaces
    /\ serving \in 0 .. MaxReuse

CoreInv == PlaceTypes /\ Numbers /\ Phases /\ AgentQueue /\ BridgeQueue

\* What a queue holds after its reader has taken a frame, or none.
LEMMA BridgeTook ==
    ASSUME PlaceTypes,
           toBridge' = toBridge \/ (toBridge # <<>> /\ toBridge' = Tail(toBridge))
    PROVE  /\ toBridge' \in Seq(AgentFrames)
           /\ Len(toBridge) \in Nat /\ Len(toBridge') \in Nat
           /\ \E d \in {0, 1} : /\ Len(toBridge') = Len(toBridge) - d
                             /\ \A i \in 1 .. Len(toBridge') : toBridge'[i] = toBridge[i + d]
  <1> USE DEF PlaceTypes
  <1>1. CASE toBridge' = toBridge
        BY <1>1
  <1>2. CASE toBridge # <<>> /\ toBridge' = Tail(toBridge)
        BY <1>2
  <1> QED BY <1>1, <1>2

\* The same for the agent's queue.
LEMMA AgentTook ==
    ASSUME PlaceTypes,
           toAgent' = toAgent \/ (toAgent # <<>> /\ toAgent' = Tail(toAgent))
    PROVE  /\ toAgent' \in Seq(BridgeFrames)
           /\ Len(toAgent) \in Nat /\ Len(toAgent') \in Nat
           /\ \E d \in {0, 1} : /\ Len(toAgent') = Len(toAgent) - d
                             /\ \A i \in 1 .. Len(toAgent') : toAgent'[i] = toAgent[i + d]
  <1> USE DEF PlaceTypes
  <1>1. CASE toAgent' = toAgent
        BY <1>1
  <1>2. CASE toAgent # <<>> /\ toAgent' = Tail(toAgent)
        BY <1>2
  <1> QED BY <1>1, <1>2

\* What a queue holds after a write of one frame.
LEMMA AgentSent ==
    ASSUME PlaceTypes, NEW f \in BridgeFrames, toAgent' = Sent(toAgent, <<f>>)
    PROVE  /\ toAgent' \in Seq(BridgeFrames)
           /\ Len(toAgent) \in Nat /\ Len(toAgent') \in Nat
           /\ link # "up" => toAgent' = toAgent
           /\ link = "up" => Len(toAgent') = Len(toAgent) + 1
           /\ \A i \in 1 .. Len(toAgent) : toAgent'[i] = toAgent[i]
           /\ \A i \in 1 .. Len(toAgent') :
                 \/ i \in 1 .. Len(toAgent)
                 \/ i = Len(toAgent) + 1 /\ link = "up" /\ toAgent'[i] = f
  <1>1. toAgent \in Seq(BridgeFrames)
        BY DEF PlaceTypes
  <1>2. /\ Sent(toAgent, <<f>>) \in Seq(BridgeFrames)
        /\ Len(toAgent) \in Nat /\ Len(Sent(toAgent, <<f>>)) \in Nat
        /\ link # "up" => Sent(toAgent, <<f>>) = toAgent
        /\ link = "up" => Len(Sent(toAgent, <<f>>)) = Len(toAgent) + 1
        /\ \A i \in 1 .. Len(toAgent) : Sent(toAgent, <<f>>)[i] = toAgent[i]
        /\ \A i \in 1 .. Len(Sent(toAgent, <<f>>)) :
              \/ i \in 1 .. Len(toAgent)
              \/ i = Len(toAgent) + 1 /\ link = "up" /\ Sent(toAgent, <<f>>)[i] = f
        BY <1>1 DEF Sent
  <1> QED BY <1>2, Zenon

\* The same for a write of the Bridge.
LEMMA BridgeSent ==
    ASSUME PlaceTypes, NEW f \in AgentFrames, toBridge' = Sent(toBridge, <<f>>)
    PROVE  /\ toBridge' \in Seq(AgentFrames)
           /\ Len(toBridge) \in Nat /\ Len(toBridge') \in Nat
           /\ link # "up" => toBridge' = toBridge
           /\ link = "up" => Len(toBridge') = Len(toBridge) + 1
           /\ \A i \in 1 .. Len(toBridge) : toBridge'[i] = toBridge[i]
           /\ \A i \in 1 .. Len(toBridge') :
                 \/ i \in 1 .. Len(toBridge)
                 \/ i = Len(toBridge) + 1 /\ link = "up" /\ toBridge'[i] = f
  <1>1. toBridge \in Seq(AgentFrames)
        BY DEF PlaceTypes
  <1>2. /\ Sent(toBridge, <<f>>) \in Seq(AgentFrames)
        /\ Len(toBridge) \in Nat /\ Len(Sent(toBridge, <<f>>)) \in Nat
        /\ link # "up" => Sent(toBridge, <<f>>) = toBridge
        /\ link = "up" => Len(Sent(toBridge, <<f>>)) = Len(toBridge) + 1
        /\ \A i \in 1 .. Len(toBridge) : Sent(toBridge, <<f>>)[i] = toBridge[i]
        /\ \A i \in 1 .. Len(Sent(toBridge, <<f>>)) :
              \/ i \in 1 .. Len(toBridge)
              \/ i = Len(toBridge) + 1 /\ link = "up" /\ Sent(toBridge, <<f>>)[i] = f
        BY <1>1 DEF Sent
  <1> QED BY <1>2, Zenon

\* Steps of the relay's other goroutines, which touch neither queue.
LEMMA QuietKeeps == ASSUME CoreInv, Quiet PROVE CoreInv'
  BY DEF CoreInv, Quiet, places, PlaceTypes, Numbers, Phases, AgentQueue, BridgeQueue,
         Frame

\* The Bridge closes the tunnel (recycleTunnelClosed, recycleTunnelBroken).
LEMMA BridgeEndsKeeps == ASSUME CoreInv, BridgeEnds PROVE CoreInv'
  <1> USE MaxReuseAssumption DEF CoreInv, BridgeEnds
  <1>1. /\ toBridge' \in Seq(AgentFrames)
        /\ Len(toBridge) \in Nat /\ Len(toBridge') \in Nat
        /\ \E d \in {0, 1} : /\ Len(toBridge') = Len(toBridge) - d
                          /\ \A i \in 1 .. Len(toBridge') : toBridge'[i] = toBridge[i + d]
        BY BridgeTook
  <1>2. \/ toAgent' = toAgent
        \/ /\ bpc \in Relaying
           /\ toAgent' \in Seq(BridgeFrames)
           /\ \A i \in 1 .. Len(toAgent) : toAgent'[i] = toAgent[i]
           /\ \/ toAgent' = toAgent
              \/ /\ Len(toAgent') = Len(toAgent) + 1
                 /\ toAgent'[Len(toAgent) + 1] = [kind |-> "closeAck", of |-> traffic]
    <2>1. SUFFICES ASSUME bpc \in Relaying, toAgent' = Sent(toAgent, OfBridge("closeAck"))
                   PROVE  /\ toAgent' \in Seq(BridgeFrames)
                          /\ \A i \in 1 .. Len(toAgent) : toAgent'[i] = toAgent[i]
                          /\ \/ toAgent' = toAgent
                             \/ /\ Len(toAgent') = Len(toAgent) + 1
                                /\ toAgent'[Len(toAgent) + 1] =
                                      [kind |-> "closeAck", of |-> traffic]
          OBVIOUS
    <2>2. [kind |-> "closeAck", of |-> traffic] \in BridgeFrames
          BY <2>1 DEF PlaceTypes, Numbers, Relaying, Pumps, BridgeFrames, ToAgent
    <2>3. toAgent' = Sent(toAgent, <<[kind |-> "closeAck", of |-> traffic]>>)
          BY <2>1 DEF OfBridge
    <2>4. /\ toAgent' \in Seq(BridgeFrames)
          /\ link # "up" => toAgent' = toAgent
          /\ link = "up" => Len(toAgent') = Len(toAgent) + 1
          /\ \A i \in 1 .. Len(toAgent) : toAgent'[i] = toAgent[i]
          /\ \A i \in 1 .. Len(toAgent') :
                \/ i \in 1 .. Len(toAgent)
                \/ /\ i = Len(toAgent) + 1 /\ link = "up"
                   /\ toAgent'[i] = [kind |-> "closeAck", of |-> traffic]
          BY <2>2, <2>3, AgentSent, Zenon
    <2>5. Len(toAgent) \in Nat
          BY DEF PlaceTypes
    <2> HIDE DEF CoreInv, BridgeEnds
    <2> QED BY <2>1, <2>4, <2>5
  <1>3. PlaceTypes'
        BY <1>1, <1>2 DEF PlaceTypes, BridgePlaces
  <1>4. Numbers'
        BY DEF Numbers
  <1>5. Phases'
        BY DEF Phases
  <1>6. AgentQueue'
        BY <1>2 DEF AgentQueue, Phases, Relaying, Pumps, Frame
  <1>7. BridgeQueue'
    <2>1. PICK d \in {0, 1} : /\ Len(toBridge') = Len(toBridge) - d
                             /\ \A i \in 1 .. Len(toBridge') : toBridge'[i] = toBridge[i + d]
          BY <1>1
    <2>2. ASSUME NEW i \in 1 .. Len(toBridge')
          PROVE  i + d \in 1 .. Len(toBridge) /\ toBridge'[i] = toBridge[i + d]
          BY <1>1, <2>1
    <2> QED BY <2>2 DEF BridgeQueue
  <1> QED BY <1>3, <1>4, <1>5, <1>6, <1>7

\* The Bridge reads a frame, or its client leaves, and it goes on.
LEMMA BridgeGoesOnKeeps == ASSUME CoreInv, BridgeGoesOn PROVE CoreInv'
  <1> USE MaxReuseAssumption DEF CoreInv, BridgeGoesOn
  <1>1. PICK d \in {0, 1} : /\ Len(toBridge') = Len(toBridge) - d
                           /\ \A i \in 1 .. Len(toBridge') : toBridge'[i] = toBridge[i + d]
        BY BridgeTook
  <1>2. /\ toBridge' \in Seq(AgentFrames)
        /\ Len(toBridge) \in Nat /\ Len(toBridge') \in Nat
        BY BridgeTook
  <1>3. /\ toAgent' \in Seq(BridgeFrames)
        /\ Len(toAgent) \in Nat /\ Len(toAgent') \in Nat
        /\ \A i \in 1 .. Len(toAgent') :
              \/ i \in 1 .. Len(toAgent) /\ toAgent'[i] = toAgent[i]
              \/ toAgent'[i].kind \in {"close", "closeAck"} /\ toAgent'[i].of = traffic
    <2>1. CASE toAgent' = toAgent
          BY <2>1 DEF PlaceTypes
    <2>2. CASE \E frames \in Closing : toAgent' = Sent(toAgent, frames)
      <3>1. PICK frames \in Closing : toAgent' = Sent(toAgent, frames)
            BY <2>2
      <3>2. traffic \in 1 .. MaxReuse
            BY DEF PlaceTypes, Numbers, Relaying, Pumps
      <3>3. /\ frames \in Seq(BridgeFrames)
            /\ \A i \in 1 .. Len(frames) :
                  frames[i].kind \in {"close", "closeAck"} /\ frames[i].of = traffic
        <4> DEFINE f == [kind |-> "close", of |-> traffic]
                   a == [kind |-> "closeAck", of |-> traffic]
        <4>1. f \in BridgeFrames /\ f.kind = "close" /\ f.of = traffic
              BY <3>2 DEF BridgeFrames, ToAgent
        <4>2. a \in BridgeFrames /\ a.kind = "closeAck" /\ a.of = traffic
              BY <3>2 DEF BridgeFrames, ToAgent
        <4>3. frames \in {<<f>>, <<a>>, <<a>> \o <<f>>}
              BY <3>1 DEF Closing, OfBridge
        <4> HIDE DEF f, a, CoreInv, BridgeGoesOn
        <4>4. CASE frames = <<f>>
              BY <4>1, <4>4
        <4>5. CASE frames = <<a>>
              BY <4>2, <4>5
        <4>6. CASE frames = <<a>> \o <<f>>
          <5>1. /\ frames \in Seq(BridgeFrames) /\ Len(frames) = 2
                /\ frames[1] = a /\ frames[2] = f
            <6> DEFINE u == <<a>>
                       v == <<f>>
            <6>1. u \in Seq(BridgeFrames) /\ v \in Seq(BridgeFrames)
                  BY <4>1, <4>2
            <6>2. Len(u) = 1 /\ Len(v) = 1 /\ u[1] = a /\ v[1] = f
                  OBVIOUS
            <6>3. frames = u \o v
                  BY <4>6
            <6> HIDE DEF u, v
            <6>4. /\ u \o v \in Seq(BridgeFrames) /\ Len(u \o v) = 2
                  /\ (u \o v)[1] = u[1] /\ (u \o v)[2] = v[1]
                  BY <6>1, <6>2, TwoFrames
            <6> QED BY <6>2, <6>3, <6>4
          <5> QED BY <4>1, <4>2, <5>1
        <4> QED BY <4>3, <4>4, <4>5, <4>6
      <3>4. toAgent \in Seq(BridgeFrames)
            BY DEF PlaceTypes
      <3> HIDE DEF CoreInv, BridgeGoesOn
      <3>5. /\ toAgent' \in Seq(BridgeFrames)
            /\ Len(toAgent) \in Nat /\ Len(frames) \in Nat /\ Len(toAgent') \in Nat
            BY <3>1, <3>3, <3>4, SentQueue
      <3>6. CASE link = "up"
        <4>1. Len(toAgent') = Len(toAgent) + Len(frames)
              BY <3>1, <3>3, <3>4, <3>6, SentQueue
        <4>2. \A i \in 1 .. Len(toAgent) : toAgent'[i] = toAgent[i]
              BY <3>1, <3>3, <3>4, SentQueue
        <4>3. \A i \in 1 .. Len(frames) : toAgent'[Len(toAgent) + i] = frames[i]
          <5>1. \A i \in 1 .. Len(frames) : Sent(toAgent, frames)[Len(toAgent) + i] = frames[i]
                BY <3>3, <3>4, <3>6, SentQueue
          <5> QED BY <3>1, <5>1
        <4>4. ASSUME NEW i \in 1 .. Len(toAgent'), i \notin 1 .. Len(toAgent)
              PROVE  /\ i - Len(toAgent) \in 1 .. Len(frames)
                     /\ i = Len(toAgent) + (i - Len(toAgent))
              BY <3>5, <4>1, <4>4
        <4>5. ASSUME NEW i \in 1 .. Len(toAgent'), i \notin 1 .. Len(toAgent)
              PROVE  toAgent'[i] = frames[i - Len(toAgent)]
              BY <4>3, <4>4, <4>5
        <4> QED BY <3>3, <3>5, <4>2, <4>4, <4>5
      <3>7. CASE link # "up"
            BY <3>1, <3>3, <3>4, <3>5, <3>7, SentQueue
      <3> QED BY <3>6, <3>7
    <2> QED BY <2>1, <2>2
  <1>4. PlaceTypes'
        BY <1>2, <1>3 DEF PlaceTypes, BridgePlaces, Relaying
  <1>5. Numbers'
        BY DEF Numbers, Relaying, Pumps
  <1>6. Phases'
        BY DEF Phases, Relaying, Pumps
  <1>7. AgentQueue'
    <2>1. apc' \notin {"idle", "acked"}
          BY DEF Phases, Relaying, Pumps
    <2>2. ASSUME NEW i \in 1 .. Len(toAgent), toAgent[i].kind \in {"recycle", "final", "open"}
          PROVE  FALSE
          BY <2>2 DEF AgentQueue, Relaying, Pumps
    <2> QED BY <1>3, <2>1, <2>2 DEF AgentQueue, Phases, Relaying, Pumps
  <1>8. BridgeQueue'
    <2>1. ASSUME NEW i \in 1 .. Len(toBridge')
          PROVE  i + d \in 1 .. Len(toBridge) /\ toBridge'[i] = toBridge[i + d]
          BY <1>1, <1>2
    <2> QED BY <2>1 DEF BridgeQueue, Relaying, Pumps
  <1> QED BY <1>4, <1>5, <1>6, <1>7, <1>8

\* An accepted open starts a pump (OpenHandshake.Execute).
LEMMA BridgeStartsKeeps == ASSUME CoreInv, BridgeStarts PROVE CoreInv'
  <1> USE MaxReuseAssumption DEF CoreInv, BridgeStarts
  <1>1. PICK d \in {0, 1} : /\ Len(toBridge') = Len(toBridge) - d
                           /\ \A i \in 1 .. Len(toBridge') : toBridge'[i] = toBridge[i + d]
        BY BridgeTook
  <1>2. /\ toBridge' \in Seq(AgentFrames)
        /\ Len(toBridge) \in Nat /\ Len(toBridge') \in Nat
        BY BridgeTook
  <1>3. /\ toAgent' \in Seq(BridgeFrames)
        /\ Len(toAgent) \in Nat /\ Len(toAgent') \in Nat
        /\ \A i \in 1 .. Len(toAgent') :
              \/ i \in 1 .. Len(toAgent) /\ toAgent'[i] = toAgent[i]
              \/ toAgent'[i] = [kind |-> "data", of |-> traffic]
    <2>1. CASE toAgent' = toAgent
          BY <2>1 DEF PlaceTypes
    <2>2. CASE toAgent' = Sent(toAgent, <<[kind |-> "data", of |-> traffic]>>)
      <3>1. [kind |-> "data", of |-> traffic] \in BridgeFrames
            BY DEF PlaceTypes, Numbers, BridgeFrames, ToAgent
      <3>2. /\ toAgent' \in Seq(BridgeFrames)
            /\ Len(toAgent) \in Nat /\ Len(toAgent') \in Nat
            /\ \A i \in 1 .. Len(toAgent) : toAgent'[i] = toAgent[i]
            /\ \A i \in 1 .. Len(toAgent') :
                  \/ i \in 1 .. Len(toAgent)
                  \/ toAgent'[i] = [kind |-> "data", of |-> traffic]
            BY <2>2, <3>1, AgentSent, Zenon
      <3> QED BY <3>2, Zenon
    <2> QED BY <2>1, <2>2 DEF OfBridge
  <1>4. PlaceTypes'
        BY <1>2, <1>3 DEF PlaceTypes, BridgePlaces
  <1>5. Numbers'
        BY DEF Numbers, Pumps
  <1>6. serving = traffic /\ apc \notin {"idle", "acked", "dial"}
        BY DEF Phases
  <1>7. Phases'
        BY <1>6 DEF Phases, Pumps
  <1>8. AgentQueue'
    <2>1. ASSUME NEW i \in 1 .. Len(toAgent), toAgent[i].kind \in {"recycle", "final", "open"}
          PROVE  FALSE
          BY <1>6, <2>1 DEF AgentQueue, PlaceTypes
    <2> QED BY <1>3, <1>6, <2>1 DEF AgentQueue
  <1>9. BridgeQueue'
    <2>1. ASSUME NEW i \in 1 .. Len(toBridge')
          PROVE  i + d \in 1 .. Len(toBridge) /\ toBridge'[i] = toBridge[i + d]
          BY <1>1, <1>2
    <2> QED BY <2>1 DEF BridgeQueue
  <1> QED BY <1>4, <1>5, <1>7, <1>8, <1>9

\* The Bridge discards a frame it does not wait for.
LEMMA BridgeDiscardsKeeps == ASSUME CoreInv, BridgeDiscards PROVE CoreInv'
  <1> USE DEF CoreInv, BridgeDiscards, places
  <1>1. /\ toBridge' \in Seq(AgentFrames)
        /\ Len(toBridge) \in Nat
        /\ Len(toBridge') = Len(toBridge) - 1
        /\ \A i \in 1 .. Len(toBridge) - 1 : toBridge'[i] = toBridge[i + 1]
        BY TakenQueue DEF PlaceTypes
  <1>2. PlaceTypes'
        BY <1>1 DEF PlaceTypes
  <1>3. Numbers' /\ Phases' /\ AgentQueue'
        BY DEF Numbers, Phases, AgentQueue, Frame
  <1>4. BridgeQueue'
    <2>1. ASSUME NEW i \in 1 .. Len(toBridge')
          PROVE  /\ i + 1 \in 1 .. Len(toBridge) /\ toBridge'[i] = toBridge[i + 1]
                 /\ i + 1 = Len(toBridge) <=> i = Len(toBridge')
      <3> HIDE DEF CoreInv, BridgeDiscards, places
      <3> QED BY <1>1, <2>1
    <2> QED BY <2>1 DEF BridgeQueue
  <1> QED BY <1>2, <1>3, <1>4

\* The tunnel goes back to the Bridge's pool (recycleTunnelReusable).
LEMMA BridgePoolsKeeps == ASSUME CoreInv, BridgePools PROVE CoreInv'
  <1> USE MaxReuseAssumption DEF CoreInv, BridgePools
  <1>1. toBridge' \in Seq(AgentFrames) /\ Len(toBridge) \in Nat \ {0}
        /\ Len(Tail(toBridge)) = Len(toBridge) - 1 /\ Head(toBridge) = toBridge[1]
        BY TakenQueue DEF PlaceTypes
  <1>2. Len(toBridge) = 1 /\ toAgent = <<>> /\ apc \notin Serving
    <2>1. 1 \in 1 .. Len(toBridge) /\ toBridge[1].kind = "recycleAck"
          BY <1>1
    <2> QED BY <2>1 DEF BridgeQueue
  <1>3. toBridge' = <<>>
        BY <1>1, <1>2 DEF PlaceTypes
  <1>4. PlaceTypes'
        BY <1>1 DEF PlaceTypes, BridgePlaces
  <1>5. traffic = recycleSeq + 1 /\ serving = traffic
        BY DEF Numbers, Phases
  <1>6. Numbers'
        BY <1>2, <1>5 DEF Numbers, PlaceTypes
  <1>7. Phases'
        BY <1>2, <1>3, <1>5 DEF Phases, PlaceTypes, Serving
  <1>8. 1 .. Len(toAgent') = {} /\ 1 .. Len(toBridge') = {} /\ toAgent' = <<>>
        BY <1>2, <1>3
  <1>9. AgentQueue' /\ BridgeQueue'
        BY <1>8, Zenon DEF AgentQueue, BridgeQueue
  <1> QED BY <1>4, <1>6, <1>7, <1>9

\* The link breaks.
LEMMA SeverKeeps == ASSUME CoreInv, Sever PROVE CoreInv'
  BY DEF CoreInv, Sever, bridgeVars, agentVars, recycleVars, PlaceTypes, Numbers,
         Phases, AgentQueue, BridgeQueue, Frame

\* The agent's tunnel is idle again (RecycleToIdle).
LEMMA AgentIdlesKeeps == ASSUME CoreInv, AgentIdles PROVE CoreInv'
  BY DEF CoreInv, AgentIdles, PlaceTypes, AgentPlaces, Numbers, Phases, AgentQueue,
         BridgeQueue, Frame, Serving

\* The agent takes up an open (WaitTrafficOpen).
LEMMA AgentStartsKeeps == ASSUME CoreInv, AgentStarts PROVE CoreInv'
  <1> USE MaxReuseAssumption DEF CoreInv, AgentStarts
  <1>1. /\ toAgent' \in Seq(BridgeFrames)
        /\ Head(toAgent) = toAgent[1] /\ Head(toAgent) \in BridgeFrames
        /\ Len(toAgent) \in Nat \ {0}
        /\ Len(toAgent') = Len(toAgent) - 1
        /\ \A i \in 1 .. Len(toAgent) - 1 : toAgent'[i] = toAgent[i + 1]
        BY TakenQueue DEF PlaceTypes
  <1>2. /\ serving' = traffic /\ serving' \in 1 .. MaxReuse
        /\ serving = traffic - 1
        /\ bpc \in {"opening", "late", "closed"}
    <2>1. 1 \in 1 .. Len(toAgent) /\ toAgent[1].kind = "open"
          BY <1>1
    <2>2. serving' = toAgent[1].of /\ serving' \in 1 .. MaxReuse
          BY <1>1 DEF BridgeFrames
    <2> QED BY <2>1, <2>2 DEF AgentQueue
  <1>3. ASSUME NEW i \in 1 .. Len(toAgent')
        PROVE  /\ toAgent'[i].kind \notin {"open", "recycle", "final"}
               /\ toAgent'[i].of = traffic
    <2>1. i + 1 \in 1 .. Len(toAgent) /\ i + 1 # 1 /\ toAgent'[i] = toAgent[i + 1]
          BY <1>1
    <2>2. traffic - 1 # traffic
          BY DEF PlaceTypes
    <2> QED BY <1>2, <2>1, <2>2 DEF AgentQueue
  <1>4. PlaceTypes'
        BY <1>1, <1>2 DEF PlaceTypes, AgentPlaces
  <1>5. Numbers'
        BY <1>2 DEF Numbers
  <1>6. Phases'
        BY <1>2 DEF Phases, Serving
  <1>7. AgentQueue'
        BY <1>2, <1>3 DEF AgentQueue
  <1>8. BridgeQueue'
        BY <1>2 DEF BridgeQueue
  <1> QED BY <1>4, <1>5, <1>6, <1>7, <1>8

\* The Bridge opens a traffic (OpenHandshake.Execute).
LEMMA BridgeOpensKeeps == ASSUME CoreInv, BridgeOpens PROVE CoreInv'
  <1> USE MaxReuseAssumption
      DEF CoreInv, BridgeOpens, BridgeWrites, agentVars
  <1> DEFINE f == [kind |-> "open", of |-> traffic']
  <1>1. /\ toAgent = <<>> /\ toBridge' = <<>> /\ apc' = apc
        /\ apc \notin Serving /\ serving' = serving /\ link' = link
        /\ serving = traffic /\ traffic' = traffic + 1 /\ recycleSeq' = recycleSeq
        /\ traffic = recycleSeq /\ traffic < MaxReuse /\ bpc' = "opening"
        BY DEF Phases, Numbers
  <1>2. f \in BridgeFrames /\ f.kind = "open" /\ f.of = traffic'
        BY <1>1 DEF BridgeFrames, ToAgent, PlaceTypes
  <1>3. toAgent' = IF link = "up" THEN <<f>> ELSE <<>>
        BY <1>1 DEF Sent
  <1> HIDE DEF f
  <1>4. /\ toAgent' \in Seq(BridgeFrames)
        /\ \A i \in 1 .. Len(toAgent') : i = 1 /\ toAgent'[i] = f
    <2>1. CASE link = "up"
      <3>1. toAgent' = <<f>>
            BY <1>3, <2>1
      <3> HIDE DEF CoreInv, BridgeOpens, BridgeFrames
      <3> QED BY <1>2, <3>1
    <2>2. CASE link # "up"
      <3>1. toAgent' = <<>>
            BY <1>3, <2>2
      <3>2. toAgent' \in Seq(BridgeFrames) /\ 1 .. Len(toAgent') = {}
        <4> HIDE DEF CoreInv, BridgeOpens
        <4> QED BY <3>1
      <3> QED BY <3>2, Zenon
    <2> QED BY <2>1, <2>2
  <1>5. PlaceTypes'
        BY <1>1, <1>4 DEF PlaceTypes, BridgePlaces
  <1>6. Numbers'
        BY <1>1 DEF Numbers
  <1>7. toAgent' # <<>> <=> link = "up"
        BY <1>3
  <1>8. Phases'
        BY <1>1, <1>7 DEF Phases, PlaceTypes, AgentPlaces, Serving
  <1>9. AgentQueue'
    <2>1. serving' = traffic' - 1
          BY <1>1 DEF PlaceTypes
    <2>2. toAgent' # <<>> => Head(toAgent') = f
          BY <1>3
    <2> HIDE DEF f, CoreInv, BridgeOpens
    <2> QED BY <1>1, <1>2, <1>4, <2>1, <2>2 DEF AgentQueue, Frame
  <1>10. BridgeQueue'
        BY <1>1 DEF BridgeQueue
  <1> QED BY <1>5, <1>6, <1>8, <1>9, <1>10

\* The open is given up (HandleOpenAckTimeout).
LEMMA OpenTimesOutKeeps == ASSUME CoreInv, OpenTimesOut PROVE CoreInv'
  <1> USE MaxReuseAssumption DEF CoreInv, OpenTimesOut, BridgeWrites, agentVars
  <1> DEFINE f == [kind |-> "reset", of |-> traffic]
  <1>1. f \in BridgeFrames /\ toAgent' = Sent(toAgent, <<f>>)
        BY DEF BridgeFrames, ToAgent, PlaceTypes, Numbers, OfBridge
  <1>2. /\ toAgent' \in Seq(BridgeFrames)
        /\ Len(toAgent) \in Nat /\ Len(toAgent') \in Nat
        /\ link # "up" => toAgent' = toAgent
        /\ link = "up" => Len(toAgent') = Len(toAgent) + 1
        /\ \A i \in 1 .. Len(toAgent) : toAgent'[i] = toAgent[i]
        /\ \A i \in 1 .. Len(toAgent') :
              \/ i \in 1 .. Len(toAgent)
              \/ i = Len(toAgent) + 1 /\ link = "up" /\ toAgent'[i] = f
        BY <1>1, AgentSent
  <1>3. PlaceTypes'
        BY <1>2 DEF PlaceTypes, BridgePlaces
  <1>4. Numbers'
        BY DEF Numbers
  <1>5. Phases'
        BY DEF Phases
  <1>6. ASSUME apc' \in {"idle", "acked"}, toAgent' # <<>> PROVE Frame'.kind = "open"
    <2>1. toAgent # <<>>
          BY <1>2, <1>6 DEF Phases, PlaceTypes
    <2>2. Head(toAgent').kind = Head(toAgent).kind
          BY <1>2, <1>6, <2>1 DEF PlaceTypes
    <2> QED BY <1>6, <2>1, <2>2 DEF AgentQueue, Frame
  <1>7. AgentQueue'
    <2>1. ASSUME NEW i \in 1 .. Len(toAgent), toAgent[i].kind \in {"recycle", "final"}
          PROVE  FALSE
          BY <2>1 DEF AgentQueue
    <2>2. ASSUME NEW i \in 1 .. Len(toAgent'), i \notin 1 .. Len(toAgent)
          PROVE  toAgent'[i].kind = "reset" /\ toAgent'[i].of = traffic
          BY <1>2, <2>2
    <2>3. /\ traffic' = traffic /\ serving' = serving /\ recycleSeq' = recycleSeq
          /\ apc' = apc /\ bpc' = "late"
          OBVIOUS
    <2> HIDE DEF OpenTimesOut
    <2> QED BY <1>2, <1>6, <2>1, <2>2, <2>3 DEF AgentQueue
  <1>8. BridgeQueue'
        BY DEF BridgeQueue
  <1> QED BY <1>3, <1>4, <1>5, <1>7, <1>8

\* The Bridge asks for a recycle (ExecuteTunnelRecycleHandshake).
LEMMA BridgeRecyclesKeeps == ASSUME CoreInv, BridgeRecycles PROVE CoreInv'
  <1> USE MaxReuseAssumption DEF CoreInv, BridgeRecycles, BridgeWrites, agentVars
  <1> DEFINE f == [kind |-> IF IsFinal THEN "final" ELSE "recycle",
                   of |-> recycleSeq + 1]
  <1>1. /\ f \in BridgeFrames /\ f.kind \in {"final", "recycle"}
        /\ f.of = recycleSeq + 1 /\ toAgent' = Sent(toAgent, <<f>>)
        BY DEF BridgeFrames, ToAgent, PlaceTypes
  <1>2. /\ toAgent' \in Seq(BridgeFrames)
        /\ Len(toAgent) \in Nat /\ Len(toAgent') \in Nat
        /\ link # "up" => toAgent' = toAgent
        /\ link = "up" => Len(toAgent') = Len(toAgent) + 1
        /\ \A i \in 1 .. Len(toAgent) : toAgent'[i] = toAgent[i]
        /\ \A i \in 1 .. Len(toAgent') :
              \/ i \in 1 .. Len(toAgent)
              \/ i = Len(toAgent) + 1 /\ link = "up" /\ toAgent'[i] = f
    <2> HIDE DEF CoreInv, f
    <2> QED BY <1>1, AgentSent DEF CoreInv
  <1> HIDE DEF f
  <1>3. PlaceTypes'
        BY <1>2 DEF PlaceTypes, BridgePlaces
  <1>4. Numbers'
        BY DEF Numbers
  <1>5. serving = traffic /\ apc \notin {"idle", "acked", "dial"}
        BY DEF Phases
  <1>6. Phases'
        BY <1>5 DEF Phases
  <1>7. AgentQueue'
    <2>1. ASSUME NEW i \in 1 .. Len(toAgent)
          PROVE  toAgent[i].kind \notin {"recycle", "final", "open"}
          BY DEF AgentQueue
    <2>2. ASSUME NEW i \in 1 .. Len(toAgent'), i \notin 1 .. Len(toAgent)
          PROVE  /\ i = Len(toAgent') /\ toAgent'[i].kind \in {"final", "recycle"}
                 /\ toAgent'[i].of = recycleSeq + 1
          BY <1>1, <1>2, <2>2
    <2> QED BY <1>2, <1>5, <2>1, <2>2 DEF AgentQueue
  <1>8. BridgeQueue'
        BY DEF BridgeQueue
  <1> QED BY <1>3, <1>4, <1>6, <1>7, <1>8

\* The agent acknowledges an open (Opener.Handle).
LEMMA DialOkKeeps == ASSUME CoreInv, DialOk PROVE CoreInv'
  <1> USE MaxReuseAssumption
      DEF CoreInv, DialOk, AgentWrites, OfAgent, bridgeVars
  <1> DEFINE f == [kind |-> "ack", of |-> serving]
  <1>1. serving = traffic /\ serving > 0 /\ bpc \in {"opening", "late", "closed"}
        BY DEF Phases, Numbers, Serving
  <1>2. /\ f \in AgentFrames /\ f.kind = "ack" /\ f.of = serving
        /\ toBridge' = Sent(toBridge, <<f>>)
        BY <1>1 DEF AgentFrames, ToBridge, PlaceTypes
  <1> HIDE DEF f
  <1>3. /\ toBridge' \in Seq(AgentFrames)
        /\ Len(toBridge) \in Nat /\ Len(toBridge') \in Nat
        /\ link # "up" => toBridge' = toBridge
        /\ link = "up" => Len(toBridge') = Len(toBridge) + 1
        /\ \A i \in 1 .. Len(toBridge) : toBridge'[i] = toBridge[i]
        /\ \A i \in 1 .. Len(toBridge') :
              \/ i \in 1 .. Len(toBridge)
              \/ i = Len(toBridge) + 1 /\ link = "up" /\ toBridge'[i] = f
    <2> HIDE DEF CoreInv, DialOk
    <2> QED BY <1>2, BridgeSent DEF CoreInv
  <1>4. PlaceTypes'
        BY <1>3 DEF PlaceTypes, AgentPlaces
  <1>5. Numbers'
        BY <1>1 DEF Numbers
  <1>6. bpc = "opening" => /\ link = "up" => toBridge' # <<>>
                           /\ toBridge' # <<>> => Head(toBridge') = f
    <2>1. ASSUME bpc = "opening" PROVE Len(toBridge) = 0
          BY <2>1 DEF Phases
    <2>2. toBridge' # <<>> => Head(toBridge') = toBridge'[1] /\ 1 \in 1 .. Len(toBridge')
          BY <1>3
    <2> QED BY <1>3, <2>1, <2>2
  <1>7. Phases'
        BY <1>1, <1>2, <1>6 DEF Phases, Serving
  <1>8. AgentQueue'
        BY DEF AgentQueue
  <1>9. BridgeQueue'
    <2>1. ASSUME NEW i \in 1 .. Len(toBridge')
          PROVE  \/ i \in 1 .. Len(toBridge) /\ toBridge'[i] = toBridge[i]
                 \/ toBridge'[i].kind = "ack" /\ toBridge'[i].of = traffic
          BY <1>1, <1>2, <1>3
    <2> QED BY <1>1, <2>1 DEF BridgeQueue
  <1> QED BY <1>4, <1>5, <1>7, <1>8, <1>9

\* The agent closes the tunnel (cleanupTunnelAfterTraffic).
LEMMA AgentEndsKeeps == ASSUME CoreInv, AgentEnds PROVE CoreInv'
  <1> USE MaxReuseAssumption DEF CoreInv, AgentEnds
  <1>1. PICK d \in {0, 1} : /\ Len(toAgent') = Len(toAgent) - d
                           /\ \A i \in 1 .. Len(toAgent') : toAgent'[i] = toAgent[i + d]
        BY AgentTook
  <1>2. /\ toAgent' \in Seq(BridgeFrames)
        /\ Len(toAgent) \in Nat /\ Len(toAgent') \in Nat
        BY AgentTook
  <1>3. \/ toBridge' = toBridge
        \/ \E f \in AgentFrames :
              /\ toBridge' = Sent(toBridge, <<f>>)
              /\ apc \in {"dial", "relay"} /\ f.of = traffic
              /\ f.kind \in {"nak", "reset"} /\ (apc = "dial" => f.kind = "nak")
    <2> DEFINE n == [kind |-> "nak", of |-> serving]
               r == [kind |-> "reset", of |-> serving]
    <2>1. ASSUME apc \in {"dial", "relay"} PROVE serving = traffic /\ serving \in 1 .. MaxReuse
          BY <2>1 DEF Phases, Numbers, PlaceTypes, Serving
    <2>2. CASE apc = "dial" /\ toBridge' = Sent(toBridge, OfAgent("nak"))
      <3>1. n \in AgentFrames /\ n.kind = "nak" /\ n.of = traffic
            BY <2>1, <2>2 DEF AgentFrames, ToBridge
      <3>2. toBridge' = Sent(toBridge, <<n>>)
            BY <2>2 DEF OfAgent
      <3> HIDE DEF n, r
      <3> QED BY <2>2, <3>1, <3>2
    <2>3. CASE apc = "relay" /\ toBridge' = Sent(toBridge, OfAgent("reset"))
      <3>1. r \in AgentFrames /\ r.kind = "reset" /\ r.of = traffic
            BY <2>1, <2>3 DEF AgentFrames, ToBridge
      <3>2. toBridge' = Sent(toBridge, <<r>>)
            BY <2>3 DEF OfAgent
      <3> HIDE DEF n, r
      <3> QED BY <2>3, <3>1, <3>2
    <2> QED BY <2>2, <2>3
  <1>4. /\ toBridge' \in Seq(AgentFrames)
        /\ Len(toBridge) \in Nat /\ Len(toBridge') \in Nat
        /\ \A i \in 1 .. Len(toBridge) : toBridge'[i] = toBridge[i]
        /\ \/ toBridge' = toBridge
           \/ /\ apc \in {"dial", "relay"} /\ link = "up"
              /\ Len(toBridge') = Len(toBridge) + 1
              /\ toBridge'[Len(toBridge) + 1].of = traffic
              /\ toBridge'[Len(toBridge) + 1].kind \in {"nak", "reset"}
              /\ apc = "dial" => toBridge'[Len(toBridge) + 1].kind = "nak"
    <2>1. CASE toBridge' = toBridge
          BY <2>1 DEF PlaceTypes
    <2>2. CASE \E f \in AgentFrames :
                  /\ toBridge' = Sent(toBridge, <<f>>)
                  /\ apc \in {"dial", "relay"} /\ f.of = traffic
                  /\ f.kind \in {"nak", "reset"} /\ (apc = "dial" => f.kind = "nak")
      <3>1. PICK f \in AgentFrames :
                  /\ toBridge' = Sent(toBridge, <<f>>)
                  /\ apc \in {"dial", "relay"} /\ f.of = traffic
                  /\ f.kind \in {"nak", "reset"} /\ (apc = "dial" => f.kind = "nak")
            BY <2>2
      <3>2. PlaceTypes
            OBVIOUS
      <3> HIDE DEF CoreInv, AgentEnds
      <3>3. /\ toBridge' \in Seq(AgentFrames)
            /\ Len(toBridge) \in Nat /\ Len(toBridge') \in Nat
            /\ link # "up" => toBridge' = toBridge
            /\ link = "up" => Len(toBridge') = Len(toBridge) + 1
            /\ \A i \in 1 .. Len(toBridge) : toBridge'[i] = toBridge[i]
            /\ \A i \in 1 .. Len(toBridge') :
                  \/ i \in 1 .. Len(toBridge)
                  \/ i = Len(toBridge) + 1 /\ link = "up" /\ toBridge'[i] = f
            BY <3>1, <3>2, BridgeSent
      <3>4. link = "up" => toBridge'[Len(toBridge) + 1] = f
            BY <3>3
      <3> QED BY <3>1, <3>3, <3>4
    <2> QED BY <1>3, <2>1, <2>2
  <1>5. PlaceTypes'
        BY <1>2, <1>4 DEF PlaceTypes, AgentPlaces
  <1>6. Numbers'
        BY DEF Numbers, Serving
  <1>7. Phases'
    <2>1. bpc = "idle" => toAgent' = <<>> /\ toBridge' = <<>>
      <3>1. ASSUME bpc = "idle" PROVE toAgent = <<>> /\ toBridge' = toBridge /\ toBridge = <<>>
            BY <1>4, <3>1 DEF Phases, Serving
      <3> QED BY <3>1
    <2>2. bpc = "opening" /\ toBridge' # <<>> =>
             serving = traffic /\ Head(toBridge').kind \in {"ack", "nak"}
      <3>1. SUFFICES ASSUME bpc = "opening", toBridge' # <<>>
                     PROVE  serving = traffic /\ Head(toBridge').kind \in {"ack", "nak"}
            OBVIOUS
      <3>2. CASE toBridge = <<>>
        <4>1. apc = "dial"
              BY <1>4, <3>1, <3>2 DEF Phases
        <4> QED BY <1>4, <3>1, <3>2, <4>1 DEF Phases, Serving
      <3>3. CASE toBridge # <<>>
        <4>1. Head(toBridge') = Head(toBridge)
              BY <1>4, <3>1, <3>3
        <4> QED BY <3>1, <3>3, <4>1 DEF Phases
      <3> QED BY <3>2, <3>3
    <2> QED BY <2>1, <2>2 DEF Phases, Serving
  <1>8. AgentQueue'
    <2>1. ASSUME NEW i \in 1 .. Len(toAgent')
          PROVE  /\ i + d \in 1 .. Len(toAgent) /\ toAgent'[i] = toAgent[i + d]
                 /\ i + d = 1 => i = 1
                 /\ i + d = Len(toAgent) => i = Len(toAgent')
          BY <1>1, <1>2
    <2>2. /\ apc' = "closed" /\ bpc' = bpc /\ traffic' = traffic
          /\ serving' = serving /\ recycleSeq' = recycleSeq
          OBVIOUS
    <2>3. AgentQueue
          OBVIOUS
    <2> HIDE DEF AgentEnds, CoreInv
    <2>4. ASSUME NEW i \in 1 .. Len(toAgent')
          PROVE  /\ toAgent'[i].kind = "open" =>
                       i = 1 /\ serving = traffic - 1 /\ bpc \in {"opening", "late", "closed"}
                 /\ toAgent'[i].kind = "data" => serving = traffic
                 /\ IF toAgent'[i].kind \in {"recycle", "final"}
                      THEN /\ i = Len(toAgent') /\ toAgent'[i].of = recycleSeq + 1
                           /\ serving = traffic /\ bpc \in {"recycling", "closed"}
                      ELSE toAgent'[i].of = traffic
          BY <2>1, <2>3 DEF AgentQueue
    <2> QED BY <2>2, <2>4 DEF AgentQueue
  <1>9. BridgeQueue'
    <2>1. ASSUME NEW i \in 1 .. Len(toBridge')
          PROVE  \/ i \in 1 .. Len(toBridge) /\ toBridge'[i] = toBridge[i]
                 \/ toBridge'[i].kind \in {"nak", "reset"} /\ toBridge'[i].of = traffic
          BY <1>4
    <2>2. ASSUME NEW i \in 1 .. Len(toBridge),
                 toBridge[i].kind \in {"recycleAck", "reject"}, bpc = "recycling"
          PROVE  /\ i = Len(toBridge) /\ toAgent = <<>> /\ toAgent' = <<>>
                 /\ toBridge' = toBridge
      <3>1. i = Len(toBridge) /\ toAgent = <<>> /\ apc \notin Serving
            BY <2>2 DEF BridgeQueue
      <3> QED BY <1>4, <3>1 DEF Serving
    <2> QED BY <2>1, <2>2 DEF BridgeQueue, Serving
  <1> QED BY <1>5, <1>6, <1>7, <1>8, <1>9

\* The agent reads or writes a frame and goes on (Relay, handleTunnelRecyclePhase).
LEMMA AgentGoesOnKeeps == ASSUME CoreInv, AgentGoesOn PROVE CoreInv'
  <1> USE MaxReuseAssumption DEF CoreInv, AgentGoesOn
  <1>1. PICK d \in {0, 1} : /\ Len(toAgent') = Len(toAgent) - d
                           /\ \A i \in 1 .. Len(toAgent') : toAgent'[i] = toAgent[i + d]
        BY AgentTook
  <1>2. /\ toAgent' \in Seq(BridgeFrames)
        /\ Len(toAgent) \in Nat /\ Len(toAgent') \in Nat
        BY AgentTook
  <1>3. serving = traffic /\ serving \in 1 .. MaxReuse
        BY DEF Phases, Numbers, PlaceTypes, Serving
  <1>4. /\ toBridge' \in Seq(AgentFrames)
        /\ Len(toBridge) \in Nat /\ Len(toBridge') \in Nat
        /\ \A i \in 1 .. Len(toBridge) : toBridge'[i] = toBridge[i]
        /\ \/ toBridge' = toBridge
           \/ /\ link = "up"
              /\ Len(toBridge') = Len(toBridge) + 1
              /\ toBridge'[Len(toBridge) + 1].of = traffic
              /\ toBridge'[Len(toBridge) + 1].kind \in {"data", "close", "closeAck"}
    <2>1. CASE toBridge' = toBridge
          BY <2>1 DEF PlaceTypes
    <2>2. CASE \E kind \in {"data", "close", "closeAck"} :
                  toBridge' = Sent(toBridge, OfAgent(kind))
      <3>1. PICK kind \in {"data", "close", "closeAck"} :
                  toBridge' = Sent(toBridge, OfAgent(kind))
            BY <2>2
      <3> DEFINE f == [kind |-> kind, of |-> serving]
      <3>2. /\ f \in AgentFrames /\ f.kind = kind /\ f.of = traffic
            /\ toBridge' = Sent(toBridge, <<f>>)
            BY <1>3, <3>1 DEF AgentFrames, ToBridge, OfAgent
      <3>3. PlaceTypes
            OBVIOUS
      <3> HIDE DEF CoreInv, AgentGoesOn, f
      <3>4. /\ toBridge' \in Seq(AgentFrames)
            /\ Len(toBridge) \in Nat /\ Len(toBridge') \in Nat
            /\ link # "up" => toBridge' = toBridge
            /\ link = "up" => Len(toBridge') = Len(toBridge) + 1
            /\ \A i \in 1 .. Len(toBridge) : toBridge'[i] = toBridge[i]
            /\ \A i \in 1 .. Len(toBridge') :
                  \/ i \in 1 .. Len(toBridge)
                  \/ i = Len(toBridge) + 1 /\ link = "up" /\ toBridge'[i] = f
            BY <3>2, <3>3, BridgeSent
      <3>5. link = "up" => toBridge'[Len(toBridge) + 1] = f
            BY <3>4
      <3>6. link \in {"up", "down"}
            BY <3>3 DEF PlaceTypes
      <3> QED BY <3>2, <3>4, <3>5, <3>6
    <2> QED BY <2>1, <2>2
  <1>5. PlaceTypes'
        BY <1>2, <1>4 DEF PlaceTypes, AgentPlaces
  <1>6. Numbers'
        BY DEF Numbers, Serving
  <1>7. Phases'
    <2>1. bpc # "idle" /\ apc' \in Serving
          BY DEF Phases, Serving
    <2>2. bpc = "opening" /\ toBridge' # <<>> => Head(toBridge').kind \in {"ack", "nak"}
      <3>1. SUFFICES ASSUME bpc = "opening", toBridge' # <<>>
                     PROVE  Head(toBridge').kind \in {"ack", "nak"}
            OBVIOUS
      <3>2. toBridge # <<>>
            BY <1>4, <3>1 DEF Phases
      <3>3. Head(toBridge') = Head(toBridge)
            BY <1>4, <3>1, <3>2
      <3> QED BY <3>1, <3>2, <3>3 DEF Phases
    <2>3. bpc = "opening" /\ link = "up" => toBridge' # <<>>
          BY <1>4 DEF Phases
    <2> QED BY <1>3, <2>1, <2>2, <2>3 DEF Phases, Serving
  <1>8. AgentQueue'
    <2>1. ASSUME NEW i \in 1 .. Len(toAgent')
          PROVE  /\ i + d \in 1 .. Len(toAgent) /\ toAgent'[i] = toAgent[i + d]
                 /\ i + d = 1 => i = 1
                 /\ i + d = Len(toAgent) => i = Len(toAgent')
          BY <1>1, <1>2
    <2>2. /\ apc \in {"relay", "recycle"} /\ apc' \in {"relay", "recycle"}
          /\ bpc' = bpc /\ traffic' = traffic /\ serving' = serving
          /\ recycleSeq' = recycleSeq
          OBVIOUS
    <2>3. AgentQueue
          OBVIOUS
    <2> HIDE DEF AgentGoesOn, CoreInv
    <2>4. ASSUME NEW i \in 1 .. Len(toAgent')
          PROVE  /\ toAgent'[i].kind = "open" =>
                       i = 1 /\ serving = traffic - 1 /\ bpc \in {"opening", "late", "closed"}
                 /\ toAgent'[i].kind = "data" => serving = traffic
                 /\ IF toAgent'[i].kind \in {"recycle", "final"}
                      THEN /\ i = Len(toAgent') /\ toAgent'[i].of = recycleSeq + 1
                           /\ serving = traffic /\ bpc \in {"recycling", "closed"}
                      ELSE toAgent'[i].of = traffic
          BY <2>1, <2>3 DEF AgentQueue
    <2> QED BY <2>2, <2>4 DEF AgentQueue
  <1>9. BridgeQueue'
    <2>1. ASSUME NEW i \in 1 .. Len(toBridge')
          PROVE  \/ i \in 1 .. Len(toBridge) /\ toBridge'[i] = toBridge[i]
                 \/ /\ toBridge'[i].kind \in {"data", "close", "closeAck"}
                    /\ toBridge'[i].of = traffic
          BY <1>4
    <2>2. ASSUME NEW i \in 1 .. Len(toBridge),
                 toBridge[i].kind \in {"recycleAck", "reject"}
          PROVE  bpc # "recycling"
          BY <2>2 DEF BridgeQueue, Serving
    <2> QED BY <2>1, <2>2 DEF BridgeQueue
  <1> QED BY <1>5, <1>6, <1>7, <1>8, <1>9

\* The agent answers a recycle (handleTunnelRecyclePhase).
LEMMA AgentAnswersKeeps == ASSUME CoreInv, AgentAnswers PROVE CoreInv'
  <1> USE MaxReuseAssumption DEF CoreInv, AgentAnswers
  <1>1. /\ toAgent' \in Seq(BridgeFrames)
        /\ Head(toAgent) = toAgent[1] /\ Head(toAgent) \in BridgeFrames
        /\ Len(toAgent) \in Nat \ {0}
        /\ Len(toAgent') = Len(toAgent) - 1
        BY TakenQueue DEF PlaceTypes
  <1>2. /\ Len(toAgent) = 1 /\ serving = traffic
        /\ bpc \in {"recycling", "closed"}
    <2>1. 1 \in 1 .. Len(toAgent) /\ toAgent[1].kind \in {"recycle", "final"}
          BY <1>1
    <2> QED BY <2>1 DEF AgentQueue
  <1>3. toAgent' = <<>>
        BY <1>1, <1>2
  <1>4. PICK kind \in {"recycleAck", "reject"} :
              toBridge' = Sent(toBridge, <<[kind |-> kind, of |-> Head(toAgent).of]>>)
        OBVIOUS
  <1> DEFINE f == [kind |-> kind, of |-> Head(toAgent).of]
  <1>5. /\ f \in AgentFrames /\ f.kind \in {"recycleAck", "reject"}
        /\ toBridge' = Sent(toBridge, <<f>>)
        BY <1>1, <1>4 DEF AgentFrames, BridgeFrames, ToBridge
  <1> HIDE DEF f
  <1>6. /\ toBridge' \in Seq(AgentFrames)
        /\ Len(toBridge) \in Nat /\ Len(toBridge') \in Nat
        /\ link # "up" => toBridge' = toBridge
        /\ link = "up" => Len(toBridge') = Len(toBridge) + 1
        /\ \A i \in 1 .. Len(toBridge) : toBridge'[i] = toBridge[i]
        /\ \A i \in 1 .. Len(toBridge') :
              \/ i \in 1 .. Len(toBridge)
              \/ i = Len(toBridge) + 1 /\ link = "up" /\ toBridge'[i] = f
    <2> HIDE DEF CoreInv, AgentAnswers
    <2> QED BY <1>5, BridgeSent DEF CoreInv
  <1>7. PlaceTypes'
        BY <1>1, <1>6 DEF PlaceTypes, AgentPlaces
  <1>8. Numbers'
        BY DEF Numbers, Serving
  <1>9. Phases'
        BY <1>2 DEF Phases, Serving
  <1>10. AgentQueue'
        BY <1>3 DEF AgentQueue
  <1>11. BridgeQueue'
    <2>1. ASSUME NEW i \in 1 .. Len(toBridge),
                 toBridge[i].kind \in {"recycleAck", "reject"}
          PROVE  bpc = "closed"
          BY <1>2, <2>1 DEF BridgeQueue, Serving
    <2>2. ASSUME NEW i \in 1 .. Len(toBridge')
          PROVE  \/ i \in 1 .. Len(toBridge) /\ toBridge'[i] = toBridge[i]
                 \/ i = Len(toBridge') /\ toBridge'[i].kind \in {"recycleAck", "reject"}
          BY <1>5, <1>6
    <2>3. apc' \notin Serving /\ toAgent' = <<>> /\ bpc' = bpc
          BY <1>3 DEF Serving
    <2>4. traffic' = traffic
          OBVIOUS
    <2> HIDE DEF AgentAnswers
    <2> QED BY <1>2, <2>1, <2>2, <2>3, <2>4 DEF BridgeQueue
  <1> QED BY <1>7, <1>8, <1>9, <1>10, <1>11

\* Every step keeps the invariant of the places and the queues.
LEMMA CoreStep == ASSUME CoreInv, Effect PROVE CoreInv'
  BY QuietKeeps, BridgeEndsKeeps, BridgeGoesOnKeeps, BridgeStartsKeeps,
     BridgeDiscardsKeeps, BridgePoolsKeeps, AgentEndsKeeps, AgentGoesOnKeeps,
     AgentStartsKeeps, AgentAnswersKeeps, AgentIdlesKeeps, BridgeOpensKeeps,
     OpenTimesOutKeeps, BridgeRecyclesKeeps, SeverKeeps, DialOkKeeps, Zenon
     DEF Effect, OtherEffect

(***************************************************************************)
(* The theorems.                                                           *)
(***************************************************************************)
LEMMA InvInit == Init => Inv
  <1> SUFFICES ASSUME Init PROVE Inv
      OBVIOUS
  <1>1. TypeInv
        BY TypeInit
  <1>2. Phases /\ AgentQueue /\ BridgeQueue
        BY MaxReuseAssumption DEF Init, Phases, AgentQueue, BridgeQueue, Serving
  <1> QED BY <1>1, <1>2 DEF Inv

\* Given the types, the invariant is the part of it that the effects decide.
LEMMA InvCore == ASSUME TypeOK PROVE Inv <=> CoreInv
  BY Zenon DEF Inv, TypeInv, CoreInv, PlaceTypes, TypeOK, BridgeFrames, AgentFrames

\* The invariant is inductive ...
LEMMA InvStep == Inv /\ [Next]_vars => Inv'
  <1> SUFFICES ASSUME Inv, [Next]_vars PROVE Inv'
      OBVIOUS
  <1>1. TypeOK /\ CoreInv
        BY InvCore DEF Inv, TypeInv
  <1>2. CoreInv'
        BY <1>1, Effects, CoreStep
  <1>3. TypeOK'
    <2>1. PlaceTypes'
          BY <1>2 DEF CoreInv
    <2> QED BY <1>1, <2>1, MarksStep, PrivateStep, Zenon
            DEF TypeOK, PlaceTypes, BridgeFrames, AgentFrames
  <1> QED BY <1>2, <1>3, Zenon DEF Inv, TypeInv, CoreInv

\* ... and so holds in every reachable state.
LEMMA Invariant == Spec => []Inv
  BY InvInit, InvStep, PTL DEF Spec

\* Every variable keeps its type: no traffic number and no recycle number
\* passes the dispatcher's maxReuseCount (dispatcher.go, recycleTunnelReusable).
THEOREM TypeCorrect == Spec => []TypeOK
  <1>1. Inv => TypeOK
        BY DEF Inv, TypeInv
  <1> QED BY <1>1, Invariant, PTL

\* The data frames of a reused tunnel, which name no traffic, never reach the
\* reader of another one (the pumps of ingress_http_server.go and
\* ingress_grpc_server.go, Relay of relay.go).
THEOREM NeverMixed == Spec => []NoMixing
  <1>1. Inv => NoMixing
    <2> SUFFICES ASSUME Inv PROVE NoMixing
        OBVIOUS
    <2>1. /\ DOMAIN toAgent = 1 .. Len(toAgent)
          /\ DOMAIN toBridge = 1 .. Len(toBridge)
          BY DEF Inv, TypeInv, TypeOK
    <2>2. ASSUME NEW i \in 1 .. Len(toBridge), toBridge[i].kind = "data"
          PROVE  toBridge[i].of = traffic
          BY <2>2 DEF Inv, BridgeQueue
    <2>3. ASSUME NEW i \in 1 .. Len(toAgent), toAgent[i].kind = "data"
          PROVE  toAgent[i].of = serving
          BY <2>3 DEF Inv, AgentQueue
    <2> QED BY <2>1, <2>2, <2>3 DEF NoMixing, Elements
  <1> QED BY <1>1, Invariant, PTL

\* The handshakes of the two sides make the tunnel serve one traffic after
\* the other, each at most once (Dispatch of dispatcher.go, the agent's
\* runTrafficAcceptorWorker): TunnelTraffic implements SerialTunnel.
THEOREM ServesSerially == Spec => SerialSpec
  <1> USE DEF Serial!vars
  <1>1. Init => Serial!Init
        BY DEF Init, Serial!Init
  <1>2. Inv /\ [Next]_vars => [Serial!Next]_(Serial!vars)
    <2> SUFFICES ASSUME Inv, [Next]_vars PROVE [Serial!Next]_(Serial!vars)
        OBVIOUS
    <2>1. TypeOK /\ CoreInv /\ Effect
          BY InvCore, Effects DEF Inv, TypeInv
    <2>2. /\ traffic \in Nat /\ serving \in Nat
          /\ Numbers /\ Phases /\ AgentQueue
          BY <2>1 DEF TypeOK, CoreInv
    <2>3. CASE \/ Quiet \/ BridgeEnds \/ BridgeGoesOn \/ BridgeStarts
               \/ BridgeDiscards \/ BridgePools
          BY <2>3 DEF Quiet, BridgeEnds, BridgeGoesOn, BridgeStarts, BridgeDiscards,
                      BridgePools, places
    <2>4. CASE OpenTimesOut \/ BridgeRecycles \/ Sever
          BY <2>4 DEF OpenTimesOut, BridgeRecycles, Sever, BridgeWrites, agentVars,
                      bridgeVars
    <2>5. CASE AgentIdles \/ AgentAnswers
          BY <2>5 DEF AgentIdles, AgentAnswers
    <2>6. CASE DialOk
          BY <2>6 DEF DialOk, bridgeVars
    <2>7. CASE BridgeOpens
      <3>1. serving = traffic /\ apc \notin Serving /\ traffic < MaxReuse
            BY <2>2, <2>7 DEF BridgeOpens, Phases, Numbers
      <3>2. apc' = apc /\ serving' = serving /\ traffic' = traffic + 1
            BY <2>7 DEF BridgeOpens, agentVars
      <3> QED BY <3>1, <3>2 DEF Serial!Next, Serial!Open, Serving
    <2>8. CASE AgentStarts
      <3>1. serving = traffic - 1 /\ Head(toAgent).of = traffic
        <4>1. 1 \in 1 .. Len(toAgent) /\ Head(toAgent) = toAgent[1]
              BY <2>1, <2>8, TakenQueue DEF AgentStarts, TypeOK
        <4> QED BY <2>2, <2>8, <4>1 DEF AgentStarts, AgentQueue
      <3> QED BY <2>2, <2>8, <3>1 DEF AgentStarts, Serial!Next, Serial!Serve
    <2>9. CASE AgentEnds \/ AgentGoesOn
      <3>1. CASE apc \in {"dial", "relay"} /\ apc' \notin {"dial", "relay"}
            BY <2>2, <2>9, <3>1
               DEF AgentEnds, AgentGoesOn, Serial!Next, Serial!End
      <3>2. CASE apc \notin {"dial", "relay"} \/ apc' \in {"dial", "relay"}
            BY <2>9, <3>2 DEF AgentEnds, AgentGoesOn
      <3> QED BY <3>1, <3>2
    <2> QED BY <2>1, <2>3, <2>4, <2>5, <2>6, <2>7, <2>8, <2>9 DEF Effect, OtherEffect
  <1> QED BY <1>1, <1>2, Invariant, PTL DEF Spec, SerialSpec, Serial!Spec

\* Only the agent's answer to a recycle and its return to the pool change the
\* recycle numbers it goes by.
LEMMA SeqsStep ==
    ASSUME [Next]_vars, ~RecycleAnswers, ~RecycleToIdle
    PROVE  lastRecycleSeq' = lastRecycleSeq /\ ackedSeq' = ackedSeq
  <1> USE DEF bridgeVars, agentVars, recycleVars
  <1>1. CASE UNCHANGED vars \/ Over
        BY <1>1, Zenon DEF vars, Over
  <1>2. CASE BridgeStep
        BY <1>2, Zenon
           DEF BridgeStep, BridgeReads, OpenAcked, OpenRefused, ResponseEnds,
               PeerClosed, PumpClosed, PeerReset, CloseAcked, BridgeRecycled,
               BridgeSkips, BridgeGivesUp, BridgeRecycles, BridgeFails
  <1>3. CASE AgentStep
        BY <1>3, Zenon
           DEF AgentStep, AgentOpens, DialOk, DialFails, RelayEnds,
               RecycleReadsClose, RecycleReadsOther, AgentFails
  <1>4. CASE ReaderStep \/ RelayStops
        BY <1>4, Zenon
           DEF ReaderStep, RelayReadsClose, RelayReadsReset, RelayReadsOther,
               RelayAcksClose, ReaderStops, RelayStops
  <1>5. CASE Environment
        BY <1>5, Zenon
           DEF Environment, BridgeOpens, OpenTimesOut, ClientGone, BridgeTimesOut,
               Sever, ServiceSends, ServiceEnds, ServiceFails, AgentTimesOut
  <1> QED BY <1>1, <1>2, <1>3, <1>4, <1>5 DEF Next

\* Every step keeps the two sides agreed.
LEMMA AgreedStep == Inv /\ Agreed /\ [Next]_vars => Agreed'
  <1> SUFFICES ASSUME Inv, Agreed, [Next]_vars PROVE Agreed'
      OBVIOUS
  <1>1. /\ TypeOK /\ CoreInv
        /\ Phases /\ BridgeQueue /\ AgentQueue
        /\ toBridge \in Seq(AgentFrames) /\ toAgent \in Seq(BridgeFrames)
        BY InvCore DEF Inv, TypeInv, CoreInv, PlaceTypes
  <1>2. CASE RecycleAnswers
    <2>1. bpc' \in {"recycling", "closed"} /\ bpc' = bpc
          BY <1>1, <1>2, TakenQueue
             DEF RecycleAnswers, AgentTakes, Frame, bridgeVars, AgentQueue
    <2>2. SUFFICES ASSUME bpc = "recycling", link' = "up",
                          NEW i \in 1 .. Len(toBridge'), toBridge'[i].kind = "recycleAck"
                   PROVE  apc' = "acked" /\ ackedSeq' = toBridge'[i].of
          BY <2>1 DEF Agreed
    <2>3. MayRecycle /\ Frame.kind = "recycle" /\ apc' = "acked" /\ ackedSeq' = Frame.of
          BY <1>2, <2>2, Zenon DEF RecycleAnswers, AgentCloses
    <2> DEFINE f == [kind |-> "recycleAck", of |-> Frame.of]
    <2>4. f \in AgentFrames /\ f.of = Frame.of /\ toBridge' = Sent(toBridge, <<f>>)
      <3>1. Frame.of \in 1 .. MaxReuse
        <4>1. toAgent # <<>>
              BY <1>2 DEF RecycleAnswers, AgentTakes
        <4>2. Head(toAgent) \in BridgeFrames
              BY <1>1, <4>1
        <4> QED BY <4>2 DEF BridgeFrames, Frame
      <3>2. toBridge' = Sent(toBridge, <<[kind |-> "recycleAck", of |-> Frame.of]>>)
            BY <1>2, <2>3, Zenon DEF RecycleAnswers
      <3> QED BY <3>1, <3>2 DEF AgentFrames, ToBridge
    <2> HIDE DEF f
    <2>5. \A j \in 1 .. Len(toBridge') :
              \/ j \in 1 .. Len(toBridge) /\ toBridge'[j] = toBridge[j]
              \/ toBridge'[j] = f
          BY <1>1, <2>4, BridgeSent DEF CoreInv
    <2>6. ASSUME NEW j \in 1 .. Len(toBridge) PROVE toBridge[j].kind # "recycleAck"
          BY <1>1, <1>2, <2>2 DEF RecycleAnswers, BridgeQueue, Serving
    <2> QED BY <2>2, <2>3, <2>4, <2>5, <2>6
  <1>3. CASE RecycleToIdle
        BY <1>3 DEF RecycleToIdle, Agreed, wire, bridgeVars
  <1>4. CASE ~RecycleAnswers /\ ~RecycleToIdle
    <2>1. OtherEffect /\ lastRecycleSeq' = lastRecycleSeq /\ ackedSeq' = ackedSeq
          BY <1>1, <1>4, OtherEffects, SeqsStep
    <2>2. CASE Quiet \/ Sever
          BY <2>1, <2>2 DEF Quiet, Sever, places, bridgeVars, agentVars, Agreed
    <2>3. CASE BridgeEnds \/ AgentEnds
          BY <2>3 DEF BridgeEnds, AgentEnds, Agreed
    <2>4. CASE BridgeGoesOn \/ BridgeStarts \/ BridgeOpens \/ OpenTimesOut
          BY <2>4 DEF BridgeGoesOn, BridgeStarts, BridgeOpens, OpenTimesOut,
                      BridgeWrites, Relaying, Pumps, Agreed
    <2>5. CASE BridgeDiscards
      <3>1. /\ Len(toBridge) \in Nat
            /\ Len(toBridge') = Len(toBridge) - 1
            /\ \A i \in 1 .. Len(toBridge) - 1 : toBridge'[i] = toBridge[i + 1]
            BY <1>1, <2>5, TakenQueue DEF BridgeDiscards
      <3>2. ASSUME NEW i \in 1 .. Len(toBridge')
            PROVE  i + 1 \in 1 .. Len(toBridge) /\ toBridge'[i] = toBridge[i + 1]
            BY <3>1
      <3> QED BY <2>1, <2>5, <3>2 DEF BridgeDiscards, places, Agreed
    <2>6. CASE BridgePools
      <3>1. 1 \in 1 .. Len(toBridge) /\ Head(toBridge) = toBridge[1]
            BY <1>1, <2>6, TakenQueue DEF BridgePools
      <3> QED BY <2>1, <2>6, <3>1 DEF BridgePools, Agreed
    <2>7. CASE AgentGoesOn \/ DialOk
      <3>1. apc \in Serving /\ bpc' = bpc
            BY <2>7 DEF AgentGoesOn, DialOk, Serving, bridgeVars
      <3>2. bpc # "idle"
            BY <1>1, <3>1 DEF Phases
      <3>3. ASSUME NEW i \in 1 .. Len(toBridge'), bpc = "recycling"
            PROVE  toBridge'[i].kind # "recycleAck"
        <4>1. AgentGoesOn
              BY <1>1, <2>7, <3>3 DEF DialOk, Phases
        <4>2. ASSUME NEW j \in 1 .. Len(toBridge) PROVE toBridge[j].kind # "recycleAck"
              BY <1>1, <3>1, <3>3 DEF BridgeQueue
        <4>3. CASE toBridge' = toBridge
              BY <4>2, <4>3
        <4>4. CASE \E kind \in {"data", "close", "closeAck"} :
                      toBridge' = Sent(toBridge, OfAgent(kind))
          <5>1. PICK kind \in {"data", "close", "closeAck"} :
                      toBridge' = Sent(toBridge, OfAgent(kind))
                BY <4>4
          <5> DEFINE f == [kind |-> kind, of |-> serving]
          <5>2. f \in AgentFrames /\ f.kind = kind /\ toBridge' = Sent(toBridge, <<f>>)
                BY <1>1, <3>1, <5>1
                   DEF AgentFrames, ToBridge, OfAgent, CoreInv, PlaceTypes, Numbers
          <5> HIDE DEF f
          <5>3. \/ i \in 1 .. Len(toBridge) /\ toBridge'[i] = toBridge[i]
                \/ toBridge'[i] = f
                BY <1>1, <3>3, <5>2, BridgeSent DEF CoreInv
          <5> QED BY <4>2, <5>2, <5>3
        <4> QED BY <4>1, <4>3, <4>4 DEF AgentGoesOn
      <3> QED BY <3>1, <3>2, <3>3 DEF Agreed
    <2>8. CASE AgentStarts
      <3>1. 1 \in 1 .. Len(toAgent) /\ toAgent[1].kind = "open"
            BY <1>1, <2>8, TakenQueue DEF AgentStarts
      <3>2. bpc \in {"opening", "late", "closed"}
            BY <1>1, <3>1 DEF AgentQueue
      <3> QED BY <2>8, <3>2 DEF AgentStarts, Agreed
    <2>9. CASE BridgeRecycles
      <3>1. bpc = "relayed" /\ bpc' = "recycling" /\ toBridge' = toBridge
            BY <2>9 DEF BridgeRecycles, BridgeWrites
      <3>2. ASSUME NEW i \in 1 .. Len(toBridge) PROVE toBridge[i].kind # "recycleAck"
            BY <1>1, <3>1 DEF BridgeQueue
      <3> QED BY <3>1, <3>2 DEF Agreed
    <2> QED BY <2>1, <2>2, <2>3, <2>4, <2>5, <2>6, <2>7, <2>8, <2>9 DEF OtherEffect
  <1> QED BY <1>2, <1>3, <1>4

\* A tunnel is back in the Bridge's pool only for a recycle that the agent
\* agreed to (recycleTunnelReusable of dispatcher.go, handleTunnelRecyclePhase
\* of data_plane_runtime.go).
THEOREM RecyclesAgree == Spec => []RecycleAgreed
  <1>1. Init => Agreed
        BY DEF Init, Agreed
  <1>2. Agreed => RecycleAgreed
        BY DEF Agreed, RecycleAgreed
  <1> QED BY <1>1, <1>2, AgreedStep, Invariant, PTL DEF Spec

(***************************************************************************)
(* Nobody is sent what it has to refuse.                                   *)
(***************************************************************************)
Holds(queue, kinds) == \E i \in 1 .. Len(queue) : queue[i].kind \in kinds

\* A recycle is on its way to the agent.
Asks == Holds(toAgent, {"recycle", "final"})

\* The agent has seen the close of the traffic through, or will when it reads the
\* acknowledgement that is on its way, which only its recycle phase heeds.
Evidence ==
    \/ observed
    \/ apc \notin {"dial", "relay"} /\ Holds(toAgent, {"closeAck"})

\* The marks of the close: the Bridge's is fresh until it reads the agent's close; the
\* agent's relay has observed no close that it did not mark first.
Marks ==
    /\ bpc \in {"idle", "opening"} \cup Relaying => ~bridgeAcked
    /\ apc \in {"idle", "dial", "relay"} /\ observed => agentAcked
    /\ reader = "closing" => apc = "relay" /\ agentAcked

\* What the agent has written of the close tells how far it is.
Told ==
    bpc \in {"opening"} \cup Relaying =>
        /\ Holds(toBridge, {"closeAck"}) => observed
        /\ Holds(toBridge, {"close"}) => apc \notin {"dial", "relay"}

\* The Bridge asks for a recycle only with evidence, and for the traffic's own.
Evident ==
    /\ (bpc = "relayed" /\ link = "up") \/ Asks => Evidence
    /\ Asks => traffic = recycleSeq + 1

\* The recycle that comes next is a new one for the agent.
Newer ==
    /\ apc \in Serving => lastRecycleSeq < serving
    /\ apc = "idle" => lastRecycleSeq <= serving
    /\ apc = "acked" => ackedSeq <= serving

Seen == Marks /\ Told /\ Evident /\ Newer /\ ~Holds(toBridge, {"reject"})

\* What a queue holds after its head was taken.
LEMMA TakenHolds ==
    ASSUME NEW S, NEW q \in Seq(S), q # <<>>, NEW kinds
    PROVE  /\ Holds(Tail(q), kinds) => Holds(q, kinds)
           /\ Holds(q, kinds) /\ Head(q).kind \notin kinds => Holds(Tail(q), kinds)
           /\ Head(q).kind \in kinds => Holds(q, kinds)
  <1>1. /\ Head(q) = q[1] /\ Len(q) \in Nat \ {0}
        /\ Len(Tail(q)) = Len(q) - 1
        /\ \A i \in 1 .. Len(q) - 1 : Tail(q)[i] = q[i + 1]
        BY TakenQueue
  <1>2. ASSUME NEW i \in 1 .. Len(Tail(q)), Tail(q)[i].kind \in kinds
        PROVE  Holds(q, kinds)
    <2>1. i + 1 \in 1 .. Len(q) /\ q[i + 1].kind \in kinds
          BY <1>1, <1>2
    <2> QED BY <2>1 DEF Holds
  <1>3. ASSUME NEW i \in 1 .. Len(q), q[i].kind \in kinds, Head(q).kind \notin kinds
        PROVE  Holds(Tail(q), kinds)
    <2>1. i - 1 \in 1 .. Len(Tail(q)) /\ Tail(q)[i - 1] = q[i]
          BY <1>1, <1>3
    <2> QED BY <1>3, <2>1 DEF Holds
  <1> QED BY <1>1, <1>2, <1>3 DEF Holds

\* What a queue holds after a write.
LEMMA SentHolds ==
    ASSUME NEW S, NEW q \in Seq(S), NEW frames \in Seq(S), NEW kinds
    PROVE  /\ Holds(q, kinds) => Holds(Sent(q, frames), kinds)
           /\ link = "up" /\ Holds(frames, kinds) => Holds(Sent(q, frames), kinds)
           /\ Holds(Sent(q, frames), kinds) =>
                  Holds(q, kinds) \/ (link = "up" /\ Holds(frames, kinds))
  <1>1. /\ Len(q) \in Nat /\ Len(frames) \in Nat
        /\ link = "up" => /\ Len(Sent(q, frames)) = Len(q) + Len(frames)
                          /\ \A i \in 1 .. Len(frames) :
                                 Sent(q, frames)[Len(q) + i] = frames[i]
        /\ link # "up" => Sent(q, frames) = q
        /\ \A i \in 1 .. Len(q) : Sent(q, frames)[i] = q[i]
        BY DEF Sent
  <1>2. CASE link # "up"
        BY <1>1, <1>2
  <1>3. CASE link = "up"
    <2>1. ASSUME NEW i \in 1 .. Len(q), q[i].kind \in kinds
          PROVE  Holds(Sent(q, frames), kinds)
      <3>1. i \in 1 .. Len(Sent(q, frames)) /\ Sent(q, frames)[i].kind \in kinds
            BY <1>1, <1>3, <2>1
      <3> QED BY <3>1 DEF Holds
    <2>2. ASSUME NEW i \in 1 .. Len(frames), frames[i].kind \in kinds
          PROVE  Holds(Sent(q, frames), kinds)
      <3>1. /\ Len(q) + i \in 1 .. Len(Sent(q, frames))
            /\ Sent(q, frames)[Len(q) + i].kind \in kinds
            BY <1>1, <1>3, <2>2
      <3> QED BY <3>1 DEF Holds
    <2>3. ASSUME NEW i \in 1 .. Len(Sent(q, frames)), Sent(q, frames)[i].kind \in kinds
          PROVE  Holds(q, kinds) \/ Holds(frames, kinds)
      <3>1. CASE i <= Len(q)
        <4>1. i \in 1 .. Len(q) /\ q[i].kind \in kinds
              BY <1>1, <1>3, <2>3, <3>1
        <4> QED BY <4>1 DEF Holds
      <3>2. CASE i > Len(q)
        <4>1. i - Len(q) \in 1 .. Len(frames) /\ frames[i - Len(q)].kind \in kinds
          <5> DEFINE j == i - Len(q)
          <5>1. j \in 1 .. Len(frames) /\ i = Len(q) + j
                BY <1>1, <1>3, <2>3, <3>2
          <5> QED BY <1>1, <1>3, <2>3, <5>1
        <4> QED BY <4>1 DEF Holds
      <3> QED BY <1>1, <1>3, <3>1, <3>2
    <2> QED BY <1>3, <2>1, <2>2, <2>3 DEF Holds
  <1> QED BY <1>2, <1>3

\* Every step keeps the marks.
LEMMA MarksKept == ASSUME TypeOK, Phases, Marks, [Next]_vars PROVE Marks'
  <1> USE DEF TypeOK, Phases, Marks, Relaying, Pumps, Serving, bridgeVars, agentVars, recycleVars,
            relayVars, wire, BridgeCloses, BridgeWrites, BridgeWritesClose, AgentCloses, RelayOver
  <1>1. CASE OpenAcked
        BY <1>1 DEF OpenAcked
  <1>2. CASE OpenRefused
        BY <1>2 DEF OpenRefused
  <1>3. CASE ResponseEnds
        BY <1>3 DEF ResponseEnds
  <1>4. CASE PeerClosed
        BY <1>4 DEF PeerClosed
  <1>5. CASE PumpClosed
        BY <1>5 DEF PumpClosed
  <1>6. CASE PeerReset
        BY <1>6 DEF PeerReset
  <1>7. CASE CloseAcked
        BY <1>7 DEF CloseAcked
  <1>8. CASE BridgeRecycled
        BY <1>8 DEF BridgeRecycled
  <1>9. CASE BridgeSkips
        BY <1>9 DEF BridgeSkips
  <1>10. CASE BridgeGivesUp
        BY <1>10 DEF BridgeGivesUp
  <1>11. CASE BridgeRecycles
        BY <1>11 DEF BridgeRecycles
  <1>12. CASE BridgeFails
        BY <1>12 DEF BridgeFails
  <1>13. CASE AgentOpens
        BY <1>13 DEF AgentOpens
  <1>14. CASE DialOk
        BY <1>14 DEF DialOk
  <1>15. CASE DialFails
        BY <1>15 DEF DialFails
  <1>16. CASE RelayEnds
        BY <1>16 DEF RelayEnds
  <1>17. CASE RecycleReadsClose
        BY <1>17 DEF RecycleReadsClose
  <1>18. CASE RecycleAnswers
        BY <1>18 DEF RecycleAnswers
  <1>19. CASE RecycleReadsOther
        BY <1>19 DEF RecycleReadsOther
  <1>20. CASE RecycleToIdle
        BY <1>20 DEF RecycleToIdle
  <1>21. CASE AgentFails
        BY <1>21 DEF AgentFails
  <1>22. CASE RelayReadsClose
        BY <1>22 DEF RelayReadsClose, RelayReads
  <1>23. CASE RelayReadsReset
        BY <1>23 DEF RelayReadsReset, RelayReads
  <1>24. CASE RelayReadsOther
        BY <1>24 DEF RelayReadsOther, RelayReads
  <1>25. CASE RelayAcksClose
        BY <1>25 DEF RelayAcksClose
  <1>26. CASE ReaderStops
        BY <1>26 DEF ReaderStops
  <1>27. CASE RelayStops
        BY <1>27 DEF RelayStops
  <1>28. CASE BridgeOpens
        BY <1>28 DEF BridgeOpens
  <1>29. CASE OpenTimesOut
        BY <1>29 DEF OpenTimesOut
  <1>30. CASE ClientGone
        BY <1>30 DEF ClientGone
  <1>31. CASE BridgeTimesOut
        BY <1>31 DEF BridgeTimesOut
  <1>32. CASE Sever
        BY <1>32 DEF Sever
  <1>33. CASE ServiceSends
        BY <1>33 DEF ServiceSends
  <1>34. CASE ServiceEnds
        BY <1>34 DEF ServiceEnds
  <1>35. CASE ServiceFails
        BY <1>35 DEF ServiceFails
  <1>36. CASE AgentTimesOut
        BY <1>36 DEF AgentTimesOut
  <1>37. CASE UNCHANGED vars \/ Over
        BY <1>37 DEF vars, Over
  <1> QED BY <1>1, <1>2, <1>3, <1>4, <1>5, <1>6, <1>7, <1>8, <1>9, <1>10, <1>11,
          <1>12, <1>13, <1>14, <1>15, <1>16, <1>17, <1>18, <1>19, <1>20, <1>21, <1>22,
          <1>23, <1>24, <1>25, <1>26, <1>27, <1>28, <1>29, <1>30, <1>31, <1>32, <1>33,
          <1>34, <1>35, <1>36, <1>37 DEF Next, BridgeStep, BridgeReads, AgentStep,
          ReaderStep, Environment

\* What the agent has observed it forgets only when the tunnel is idle again.
LEMMA ObservedStays ==
    ASSUME TypeOK, Marks, [Next]_vars, ~RecycleToIdle
    PROVE  observed => observed'
  <1> USE DEF TypeOK, Marks, bridgeVars, agentVars, recycleVars
  <1>1. CASE OpenAcked
        BY <1>1 DEF OpenAcked
  <1>2. CASE OpenRefused
        BY <1>2 DEF OpenRefused
  <1>3. CASE ResponseEnds
        BY <1>3 DEF ResponseEnds
  <1>4. CASE PeerClosed
        BY <1>4 DEF PeerClosed
  <1>5. CASE PumpClosed
        BY <1>5 DEF PumpClosed
  <1>6. CASE PeerReset
        BY <1>6 DEF PeerReset
  <1>7. CASE CloseAcked
        BY <1>7 DEF CloseAcked
  <1>8. CASE BridgeRecycled
        BY <1>8 DEF BridgeRecycled
  <1>9. CASE BridgeSkips
        BY <1>9 DEF BridgeSkips
  <1>10. CASE BridgeGivesUp
        BY <1>10 DEF BridgeGivesUp
  <1>11. CASE BridgeRecycles
        BY <1>11 DEF BridgeRecycles
  <1>12. CASE BridgeFails
        BY <1>12 DEF BridgeFails
  <1>13. CASE AgentOpens
        BY <1>13 DEF AgentOpens
  <1>14. CASE DialOk
        BY <1>14 DEF DialOk
  <1>15. CASE DialFails
        BY <1>15 DEF DialFails
  <1>16. CASE RelayEnds
        BY <1>16 DEF RelayEnds
  <1>17. CASE RecycleReadsClose
        BY <1>17 DEF RecycleReadsClose
  <1>18. CASE RecycleAnswers
        BY <1>18 DEF RecycleAnswers
  <1>19. CASE RecycleReadsOther
        BY <1>19 DEF RecycleReadsOther
  <1>20. CASE AgentFails
        BY <1>20 DEF AgentFails
  <1>21. CASE RelayReadsClose
        BY <1>21 DEF RelayReadsClose, RelayReads
  <1>22. CASE RelayReadsReset
        BY <1>22 DEF RelayReadsReset, RelayReads
  <1>23. CASE RelayReadsOther
        BY <1>23 DEF RelayReadsOther, RelayReads
  <1>24. CASE RelayAcksClose
        BY <1>24 DEF RelayAcksClose
  <1>25. CASE ReaderStops
        BY <1>25 DEF ReaderStops
  <1>26. CASE RelayStops
        BY <1>26 DEF RelayStops
  <1>27. CASE BridgeOpens
        BY <1>27 DEF BridgeOpens
  <1>28. CASE OpenTimesOut
        BY <1>28 DEF OpenTimesOut
  <1>29. CASE ClientGone
        BY <1>29 DEF ClientGone
  <1>30. CASE BridgeTimesOut
        BY <1>30 DEF BridgeTimesOut
  <1>31. CASE Sever
        BY <1>31 DEF Sever
  <1>32. CASE ServiceSends
        BY <1>32 DEF ServiceSends
  <1>33. CASE ServiceEnds
        BY <1>33 DEF ServiceEnds
  <1>34. CASE ServiceFails
        BY <1>34 DEF ServiceFails
  <1>35. CASE AgentTimesOut
        BY <1>35 DEF AgentTimesOut
  <1>36. CASE UNCHANGED vars \/ Over
        BY <1>36 DEF vars, Over
  <1> QED BY <1>1, <1>2, <1>3, <1>4, <1>5, <1>6, <1>7, <1>8, <1>9, <1>10, <1>11,
          <1>12, <1>13, <1>14, <1>15, <1>16, <1>17, <1>18, <1>19, <1>20, <1>21, <1>22,
          <1>23, <1>24, <1>25, <1>26, <1>27, <1>28, <1>29, <1>30, <1>31, <1>32, <1>33,
          <1>34, <1>35, <1>36 DEF Next, BridgeStep, BridgeReads, AgentStep,
          ReaderStep, Environment

\* The Bridge is done with a traffic when it has read an acknowledgement of its close,
\* or the agent's own close, which it acknowledges.
LEMMA BridgeDone ==
    ASSUME TypeOK, Marks, [Next]_vars, bpc' = "relayed", bpc # "relayed"
    PROVE  /\ bpc \in Relaying /\ toBridge # <<>>
           /\ \/ Head(toBridge).kind = "closeAck" /\ toAgent' = toAgent
              \/ Head(toBridge).kind = "close" /\ toAgent' = Sent(toAgent, OfBridge("closeAck"))
  <1> USE DEF TypeOK, Marks, Relaying, Pumps, BridgeTakes, bridgeVars, agentVars, BridgeCloses, BridgeWrites,
            BridgeWritesClose
  <1>1. CASE OpenAcked
        BY <1>1 DEF OpenAcked
  <1>2. CASE OpenRefused
        BY <1>2 DEF OpenRefused
  <1>3. CASE ResponseEnds
        BY <1>3 DEF ResponseEnds
  <1>4. CASE PeerClosed
        BY <1>4 DEF PeerClosed
  <1>5. CASE PumpClosed
        BY <1>5 DEF PumpClosed
  <1>6. CASE PeerReset
        BY <1>6 DEF PeerReset
  <1>7. CASE CloseAcked
        BY <1>7 DEF CloseAcked
  <1>8. CASE BridgeRecycled
        BY <1>8 DEF BridgeRecycled
  <1>9. CASE BridgeSkips
        BY <1>9 DEF BridgeSkips
  <1>10. CASE BridgeGivesUp
        BY <1>10 DEF BridgeGivesUp
  <1>11. CASE BridgeRecycles
        BY <1>11 DEF BridgeRecycles
  <1>12. CASE BridgeFails
        BY <1>12 DEF BridgeFails
  <1>13. CASE AgentOpens
        BY <1>13 DEF AgentOpens
  <1>14. CASE DialOk
        BY <1>14 DEF DialOk
  <1>15. CASE DialFails
        BY <1>15 DEF DialFails
  <1>16. CASE RelayEnds
        BY <1>16 DEF RelayEnds
  <1>17. CASE RecycleReadsClose
        BY <1>17 DEF RecycleReadsClose
  <1>18. CASE RecycleAnswers
        BY <1>18 DEF RecycleAnswers
  <1>19. CASE RecycleReadsOther
        BY <1>19 DEF RecycleReadsOther
  <1>20. CASE RecycleToIdle
        BY <1>20 DEF RecycleToIdle
  <1>21. CASE AgentFails
        BY <1>21 DEF AgentFails
  <1>22. CASE RelayReadsClose
        BY <1>22 DEF RelayReadsClose, RelayReads
  <1>23. CASE RelayReadsReset
        BY <1>23 DEF RelayReadsReset, RelayReads
  <1>24. CASE RelayReadsOther
        BY <1>24 DEF RelayReadsOther, RelayReads
  <1>25. CASE RelayAcksClose
        BY <1>25 DEF RelayAcksClose
  <1>26. CASE ReaderStops
        BY <1>26 DEF ReaderStops
  <1>27. CASE RelayStops
        BY <1>27 DEF RelayStops
  <1>28. CASE BridgeOpens
        BY <1>28 DEF BridgeOpens
  <1>29. CASE OpenTimesOut
        BY <1>29 DEF OpenTimesOut
  <1>30. CASE ClientGone
        BY <1>30 DEF ClientGone
  <1>31. CASE BridgeTimesOut
        BY <1>31 DEF BridgeTimesOut
  <1>32. CASE Sever
        BY <1>32 DEF Sever
  <1>33. CASE ServiceSends
        BY <1>33 DEF ServiceSends
  <1>34. CASE ServiceEnds
        BY <1>34 DEF ServiceEnds
  <1>35. CASE ServiceFails
        BY <1>35 DEF ServiceFails
  <1>36. CASE AgentTimesOut
        BY <1>36 DEF AgentTimesOut
  <1>37. CASE UNCHANGED vars \/ Over
        BY <1>37 DEF vars, Over
  <1> QED BY <1>1, <1>2, <1>3, <1>4, <1>5, <1>6, <1>7, <1>8, <1>9, <1>10, <1>11,
          <1>12, <1>13, <1>14, <1>15, <1>16, <1>17, <1>18, <1>19, <1>20, <1>21, <1>22,
          <1>23, <1>24, <1>25, <1>26, <1>27, <1>28, <1>29, <1>30, <1>31, <1>32, <1>33,
          <1>34, <1>35, <1>36, <1>37 DEF Next, BridgeStep, BridgeReads, AgentStep,
          ReaderStep, Environment

\* What a step of the agent or the Bridge does to what is on its way to the Bridge.
LEMMA AgentTells ==
    ASSUME TypeOK, [Next]_vars, ~RecycleAnswers
    PROVE  \/ toBridge' = toBridge
           \/ toBridge # <<>> /\ toBridge' = Tail(toBridge)
           \/ \E kind \in {"ack", "nak", "data", "reset"} :
                  toBridge' = Sent(toBridge, OfAgent(kind)) /\ apc \in {"dial", "relay"}
           \/ toBridge' = Sent(toBridge, OfAgent("close")) /\ apc = "relay" /\ apc' = "recycle"
           \/ /\ toBridge' = Sent(toBridge, OfAgent("closeAck"))
              /\ apc \in {"relay", "recycle"} /\ observed'
  <1> USE DEF BridgeTakes, bridgeVars, agentVars, wire, BridgeCloses, BridgeWrites, BridgeWritesClose,
            AgentWrites, AgentCloses, MaySend
  <1>1. CASE OpenAcked
        BY <1>1 DEF OpenAcked
  <1>2. CASE OpenRefused
        BY <1>2 DEF OpenRefused
  <1>3. CASE ResponseEnds
        BY <1>3 DEF ResponseEnds
  <1>4. CASE PeerClosed
        BY <1>4 DEF PeerClosed
  <1>5. CASE PumpClosed
        BY <1>5 DEF PumpClosed
  <1>6. CASE PeerReset
        BY <1>6 DEF PeerReset
  <1>7. CASE CloseAcked
        BY <1>7 DEF CloseAcked
  <1>8. CASE BridgeRecycled
        BY <1>8 DEF BridgeRecycled
  <1>9. CASE BridgeSkips
        BY <1>9 DEF BridgeSkips
  <1>10. CASE BridgeGivesUp
        BY <1>10 DEF BridgeGivesUp
  <1>11. CASE BridgeRecycles
        BY <1>11 DEF BridgeRecycles
  <1>12. CASE BridgeFails
        BY <1>12 DEF BridgeFails
  <1>13. CASE AgentOpens
        BY <1>13 DEF AgentOpens
  <1>14. CASE DialOk
        BY <1>14 DEF DialOk
  <1>15. CASE DialFails
        BY <1>15 DEF DialFails
  <1>16. CASE RelayEnds
        BY <1>16 DEF RelayEnds
  <1>17. CASE RecycleReadsClose
    <2>1. Sent(toBridge, <<>>) = toBridge
          BY DEF Sent, TypeOK
    <2> QED BY <1>17, <2>1 DEF RecycleReadsClose
  <1>18. CASE RecycleReadsOther
        BY <1>18 DEF RecycleReadsOther
  <1>19. CASE RecycleToIdle
        BY <1>19 DEF RecycleToIdle
  <1>20. CASE AgentFails
        BY <1>20 DEF AgentFails
  <1>21. CASE RelayReadsClose
        BY <1>21 DEF RelayReadsClose, RelayReads
  <1>22. CASE RelayReadsReset
        BY <1>22 DEF RelayReadsReset, RelayReads
  <1>23. CASE RelayReadsOther
        BY <1>23 DEF RelayReadsOther, RelayReads
  <1>24. CASE RelayAcksClose
        BY <1>24 DEF RelayAcksClose
  <1>25. CASE ReaderStops
        BY <1>25 DEF ReaderStops
  <1>26. CASE RelayStops
        BY <1>26 DEF RelayStops
  <1>27. CASE BridgeOpens
        BY <1>27 DEF BridgeOpens
  <1>28. CASE OpenTimesOut
        BY <1>28 DEF OpenTimesOut
  <1>29. CASE ClientGone
        BY <1>29 DEF ClientGone
  <1>30. CASE BridgeTimesOut
        BY <1>30 DEF BridgeTimesOut
  <1>31. CASE Sever
        BY <1>31 DEF Sever
  <1>32. CASE ServiceSends
        BY <1>32 DEF ServiceSends
  <1>33. CASE ServiceEnds
        BY <1>33 DEF ServiceEnds
  <1>34. CASE ServiceFails
        BY <1>34 DEF ServiceFails
  <1>35. CASE AgentTimesOut
        BY <1>35 DEF AgentTimesOut
  <1>36. CASE UNCHANGED vars \/ Over
        BY <1>36 DEF vars, Over
  <1> QED BY <1>1, <1>2, <1>3, <1>4, <1>5, <1>6, <1>7, <1>8, <1>9, <1>10, <1>11,
          <1>12, <1>13, <1>14, <1>15, <1>16, <1>17, <1>18, <1>19, <1>20, <1>21, <1>22,
          <1>23, <1>24, <1>25, <1>26, <1>27, <1>28, <1>29, <1>30, <1>31, <1>32, <1>33,
          <1>34, <1>35, <1>36 DEF Next, BridgeStep, BridgeReads, AgentStep,
          ReaderStep, Environment

\* What the agent takes, it heeds: an acknowledgement it reads in its recycle phase is
\* observed.
LEMMA AgentHeeds ==
    ASSUME TypeOK, [Next]_vars, ~RecycleAnswers, bpc' = bpc, toAgent' # toAgent,
           apc = "recycle" /\ Head(toAgent).kind = "closeAck" => Head(toAgent).of = serving
    PROVE  /\ toAgent # <<>> /\ toAgent' = Tail(toAgent)
           /\ apc \in {"idle", "relay"} \/ Head(toAgent).kind # "closeAck" \/ observed'
  <1> USE DEF TypeOK, Pumps, bridgeVars, agentVars, wire, BridgeCloses, BridgeWrites, BridgeWritesClose,
            AgentTakes, Frame, ClosesServed
  <1>1. CASE OpenAcked
        BY <1>1 DEF OpenAcked
  <1>2. CASE OpenRefused
        BY <1>2 DEF OpenRefused
  <1>3. CASE ResponseEnds
        BY <1>3 DEF ResponseEnds
  <1>4. CASE PeerClosed
        BY <1>4 DEF PeerClosed
  <1>5. CASE PumpClosed
        BY <1>5 DEF PumpClosed
  <1>6. CASE PeerReset
        BY <1>6 DEF PeerReset
  <1>7. CASE CloseAcked
        BY <1>7 DEF CloseAcked
  <1>8. CASE BridgeRecycled
        BY <1>8 DEF BridgeRecycled
  <1>9. CASE BridgeSkips
        BY <1>9 DEF BridgeSkips
  <1>10. CASE BridgeGivesUp
        BY <1>10 DEF BridgeGivesUp
  <1>11. CASE BridgeRecycles
        BY <1>11 DEF BridgeRecycles
  <1>12. CASE BridgeFails
        BY <1>12 DEF BridgeFails
  <1>13. CASE AgentOpens
        BY <1>13 DEF AgentOpens
  <1>14. CASE DialOk
        BY <1>14 DEF DialOk
  <1>15. CASE DialFails
        BY <1>15 DEF DialFails
  <1>16. CASE RelayEnds
        BY <1>16 DEF RelayEnds
  <1>17. CASE RecycleReadsClose
        BY <1>17 DEF RecycleReadsClose
  <1>18. CASE RecycleReadsOther
        BY <1>18 DEF RecycleReadsOther
  <1>19. CASE RecycleToIdle
        BY <1>19 DEF RecycleToIdle
  <1>20. CASE AgentFails
        BY <1>20 DEF AgentFails
  <1>21. CASE RelayReadsClose
        BY <1>21 DEF RelayReadsClose, RelayReads
  <1>22. CASE RelayReadsReset
        BY <1>22 DEF RelayReadsReset, RelayReads
  <1>23. CASE RelayReadsOther
        BY <1>23 DEF RelayReadsOther, RelayReads
  <1>24. CASE RelayAcksClose
        BY <1>24 DEF RelayAcksClose
  <1>25. CASE ReaderStops
        BY <1>25 DEF ReaderStops
  <1>26. CASE RelayStops
        BY <1>26 DEF RelayStops
  <1>27. CASE BridgeOpens
        BY <1>27 DEF BridgeOpens
  <1>28. CASE OpenTimesOut
        BY <1>28 DEF OpenTimesOut
  <1>29. CASE ClientGone
        BY <1>29 DEF ClientGone
  <1>30. CASE BridgeTimesOut
        BY <1>30 DEF BridgeTimesOut
  <1>31. CASE Sever
        BY <1>31 DEF Sever
  <1>32. CASE ServiceSends
        BY <1>32 DEF ServiceSends
  <1>33. CASE ServiceEnds
        BY <1>33 DEF ServiceEnds
  <1>34. CASE ServiceFails
        BY <1>34 DEF ServiceFails
  <1>35. CASE AgentTimesOut
        BY <1>35 DEF AgentTimesOut
  <1>36. CASE UNCHANGED vars \/ Over
        BY <1>36 DEF vars, Over
  <1> QED BY <1>1, <1>2, <1>3, <1>4, <1>5, <1>6, <1>7, <1>8, <1>9, <1>10, <1>11,
          <1>12, <1>13, <1>14, <1>15, <1>16, <1>17, <1>18, <1>19, <1>20, <1>21, <1>22,
          <1>23, <1>24, <1>25, <1>26, <1>27, <1>28, <1>29, <1>30, <1>31, <1>32, <1>33,
          <1>34, <1>35, <1>36 DEF Next, BridgeStep, BridgeReads, AgentStep,
          ReaderStep, Environment

\* What the queue to the Bridge holds after a frame of the agent.
LEMMA AgentFrameHolds ==
    ASSUME CoreInv, apc \in Serving, NEW kind \in ToBridge, NEW kinds
    PROVE  /\ Holds(toBridge, kinds) => Holds(Sent(toBridge, OfAgent(kind)), kinds)
           /\ link = "up" /\ kind \in kinds => Holds(Sent(toBridge, OfAgent(kind)), kinds)
           /\ Holds(Sent(toBridge, OfAgent(kind)), kinds) =>
                  Holds(toBridge, kinds) \/ kind \in kinds
  <1> DEFINE frames == OfAgent(kind)
  <1>1. frames \in Seq(AgentFrames) /\ Len(frames) = 1 /\ frames[1].kind = kind
    <2>1. serving \in 1 .. MaxReuse
          BY MaxReuseAssumption DEF CoreInv, PlaceTypes, Numbers
    <2> QED BY <2>1 DEF OfAgent, AgentFrames
  <1>2. Holds(frames, kinds) <=> kind \in kinds
        BY <1>1 DEF Holds
  <1>3. toBridge \in Seq(AgentFrames)
        BY DEF CoreInv, PlaceTypes
  <1> HIDE DEF frames
  <1>4. /\ Holds(toBridge, kinds) => Holds(Sent(toBridge, frames), kinds)
        /\ link = "up" /\ Holds(frames, kinds) => Holds(Sent(toBridge, frames), kinds)
        /\ Holds(Sent(toBridge, frames), kinds) =>
               Holds(toBridge, kinds) \/ (link = "up" /\ Holds(frames, kinds))
        BY <1>1, <1>3, SentHolds
  <1> QED BY <1>2, <1>4 DEF frames

\* What the queue to the agent holds after a frame of the Bridge.
LEMMA BridgeFrameHolds ==
    ASSUME CoreInv, traffic \in 1 .. MaxReuse, NEW kind \in ToAgent, NEW kinds
    PROVE  /\ Holds(toAgent, kinds) => Holds(Sent(toAgent, OfBridge(kind)), kinds)
           /\ link = "up" /\ kind \in kinds => Holds(Sent(toAgent, OfBridge(kind)), kinds)
           /\ Holds(Sent(toAgent, OfBridge(kind)), kinds) =>
                  Holds(toAgent, kinds) \/ kind \in kinds
  <1> DEFINE frames == OfBridge(kind)
  <1>1. frames \in Seq(BridgeFrames) /\ Len(frames) = 1 /\ frames[1].kind = kind
        BY DEF OfBridge, BridgeFrames
  <1>2. Holds(frames, kinds) <=> kind \in kinds
        BY <1>1 DEF Holds
  <1>3. toAgent \in Seq(BridgeFrames)
        BY DEF CoreInv, PlaceTypes
  <1> HIDE DEF frames
  <1>4. /\ Holds(toAgent, kinds) => Holds(Sent(toAgent, frames), kinds)
        /\ link = "up" /\ Holds(frames, kinds) => Holds(Sent(toAgent, frames), kinds)
        /\ Holds(Sent(toAgent, frames), kinds) =>
               Holds(toAgent, kinds) \/ (link = "up" /\ Holds(frames, kinds))
        BY <1>1, <1>3, SentHolds
  <1> QED BY <1>2, <1>4 DEF frames

\* What the Bridge writes of a close asks for no recycle.
LEMMA ClosingHolds ==
    ASSUME CoreInv, traffic \in 1 .. MaxReuse, NEW frames \in Closing
    PROVE  /\ Holds(toAgent, {"closeAck"}) => Holds(Sent(toAgent, frames), {"closeAck"})
           /\ Holds(Sent(toAgent, frames), {"recycle", "final"}) =>
                  Holds(toAgent, {"recycle", "final"})
  <1>1. toAgent \in Seq(BridgeFrames)
        BY DEF CoreInv, PlaceTypes
  <1>2. /\ OfBridge("close") \in Seq(BridgeFrames) /\ Len(OfBridge("close")) = 1
        /\ OfBridge("closeAck") \in Seq(BridgeFrames) /\ Len(OfBridge("closeAck")) = 1
        /\ OfBridge("close")[1].kind = "close" /\ OfBridge("closeAck")[1].kind = "closeAck"
        BY DEF OfBridge, BridgeFrames, ToAgent
  <1>3. /\ frames \in Seq(BridgeFrames)
        /\ \A i \in 1 .. Len(frames) : frames[i].kind \in {"close", "closeAck"}
    <2>1. CASE frames = OfBridge("close") \/ frames = OfBridge("closeAck")
          BY <1>2, <2>1
    <2>2. CASE frames = OfBridge("closeAck") \o OfBridge("close")
      <3>1. /\ frames \in Seq(BridgeFrames) /\ Len(frames) = 2
            /\ frames[1] = OfBridge("closeAck")[1] /\ frames[2] = OfBridge("close")[1]
            BY <1>2, <2>2, TwoFrames
      <3> QED BY <1>2, <3>1
    <2> QED BY <2>1, <2>2 DEF Closing
  <1>4. ~Holds(frames, {"recycle", "final"})
        BY <1>3 DEF Holds
  <1> QED BY <1>1, <1>3, <1>4, SentHolds

\* Nothing is left of a queue of one frame.
LEMMA LastTaken ==
    ASSUME NEW S, NEW q \in Seq(S), Len(q) = 1, NEW kinds
    PROVE  ~Holds(Tail(q), kinds)
  <1>1. Len(Tail(q)) = 0
        BY TakenQueue
  <1>2. ASSUME NEW r, Len(r) = 0 PROVE ~Holds(r, kinds)
        BY <1>2 DEF Holds
  <1> QED BY <1>1, <1>2, Zenon

\* The agent's answer to a recycle is an agreement: it has the evidence, and the recycle
\* is new.
LEMMA AnswerAgrees ==
    ASSUME Inv, CoreInv, Seen, RecycleAnswers
    PROVE  /\ Frame.of = serving /\ MayRecycle
           /\ ~Holds(Tail(toAgent), {"recycle", "final"})
           /\ bpc \in {"recycling", "closed"}
  <1>1. /\ apc = "recycle" /\ toAgent # <<>> /\ Frame.kind \in {"recycle", "final"}
        /\ toAgent \in Seq(BridgeFrames)
        BY DEF RecycleAnswers, AgentTakes, CoreInv, PlaceTypes
  <1>2. /\ Frame = toAgent[1] /\ Len(toAgent) \in Nat \ {0} /\ Len(Tail(toAgent)) = Len(toAgent) - 1
        BY <1>1, TakenQueue DEF Frame
  <1>3. 1 \in 1 .. Len(toAgent) /\ toAgent[1].kind \in {"recycle", "final"}
        BY <1>1, <1>2
  <1>4. /\ 1 = Len(toAgent) /\ Frame.of = recycleSeq + 1 /\ serving = traffic
        /\ bpc \in {"recycling", "closed"}
        BY <1>2, <1>3 DEF CoreInv, AgentQueue
  <1>5. Asks
        BY <1>3 DEF Asks, Holds
  <1>6. traffic = recycleSeq + 1 /\ Evidence
        BY <1>5 DEF Seen, Evident
  <1>7. ~Holds(toAgent, {"closeAck"})
    <2>0. Len(toAgent) = 1
          BY <1>4
    <2>1. ASSUME NEW i \in 1 .. Len(toAgent) PROVE toAgent[i].kind \notin {"closeAck"}
      <3>1. i = 1
            BY <2>0
      <3> QED BY <1>3, <3>1
    <2> QED BY <2>1 DEF Holds
  <1>8. observed
        BY <1>6, <1>7 DEF Evidence
  <1>9. lastRecycleSeq < serving
        BY <1>1 DEF Seen, Newer, Serving
  <1>10. ~Holds(Tail(toAgent), {"recycle", "final"})
    <2>1. Len(toAgent) = 1
          BY <1>4
    <2> QED BY <1>1, <2>1, LastTaken
  <1>11. MayRecycle
    <2>1. lastRecycleSeq \in Nat /\ serving \in Nat
          BY MaxReuseAssumption DEF Inv, TypeInv, TypeOK
    <2> QED BY <1>4, <1>6, <1>8, <1>9, <2>1 DEF MayRecycle
  <1> QED BY <1>4, <1>6, <1>10, <1>11

\* Every step keeps the next recycle new.
LEMMA NewerKept == ASSUME Inv, CoreInv, Seen, [Next]_vars PROVE Newer'
  <1>1. TypeOK /\ Newer /\ Phases /\ AgentQueue
        BY DEF Inv, TypeInv, Seen
  <1>2. CASE RecycleAnswers
    <2>1. Frame.of = serving /\ MayRecycle
          BY <1>2, AnswerAgrees
    <2>2. serving' = serving /\ serving \in Nat
          BY <1>1, <1>2, MaxReuseAssumption DEF RecycleAnswers, TypeOK
    <2>3. (apc' = "acked" /\ ackedSeq' = Frame.of) \/ apc' = "closed"
          BY <1>2, <2>1, Zenon DEF RecycleAnswers, AgentCloses
    <2> QED BY <2>1, <2>2, <2>3 DEF Newer, Serving
  <1>3. CASE RecycleToIdle
        BY <1>1, <1>3 DEF RecycleToIdle, Newer, Serving
  <1>4. CASE ~RecycleAnswers /\ ~RecycleToIdle
    <2>1. OtherEffect /\ lastRecycleSeq' = lastRecycleSeq /\ ackedSeq' = ackedSeq
          BY <1>1, <1>4, OtherEffects, SeqsStep
    <2>2. CASE AgentStarts
      <3>1. 1 \in 1 .. Len(toAgent) /\ Head(toAgent) = toAgent[1]
            BY <2>2, TakenQueue DEF AgentStarts, CoreInv, PlaceTypes
      <3>2. serving = traffic - 1 /\ serving' = traffic
            BY <1>1, <2>2, <3>1 DEF AgentStarts, AgentQueue
      <3>3. lastRecycleSeq \in Nat /\ serving \in Nat /\ traffic \in Nat
            BY <1>1, MaxReuseAssumption DEF TypeOK
      <3> QED BY <1>1, <2>1, <2>2, <3>2, <3>3 DEF AgentStarts, Newer, Serving
    <2>3. CASE AgentEnds \/ AgentGoesOn \/ DialOk
          BY <1>1, <2>1, <2>3 DEF AgentEnds, AgentGoesOn, DialOk, Newer, Serving
    <2>4. ASSUME ~AgentStarts, ~AgentEnds, ~AgentGoesOn, ~DialOk
          PROVE  apc' = apc /\ serving' = serving
          BY <2>1, <2>4
             DEF OtherEffect, Quiet, places, BridgeEnds, BridgeGoesOn, BridgeStarts,
                 BridgeDiscards, BridgePools, BridgeOpens, OpenTimesOut, BridgeRecycles,
                 Sever, agentVars
    <2>5. CASE apc' = apc /\ serving' = serving
          BY <1>1, <2>1, <2>5 DEF Newer
    <2> QED BY <2>2, <2>3, <2>4, <2>5
  <1> QED BY <1>2, <1>3, <1>4

\* No step refuses a recycle.
LEMMA NeverRejects == ASSUME Inv, CoreInv, Seen, [Next]_vars PROVE ~Holds(toBridge', {"reject"})
  <1>1. TypeOK /\ ~Holds(toBridge, {"reject"}) /\ toBridge \in Seq(AgentFrames)
        BY DEF Inv, TypeInv, Seen, CoreInv, PlaceTypes
  <1>2. CASE RecycleAnswers
    <2> DEFINE frames == <<[kind |-> "recycleAck", of |-> Frame.of]>>
    <2>1. MayRecycle /\ Frame.of = serving /\ apc = "recycle"
          BY <1>2, AnswerAgrees DEF RecycleAnswers
    <2>2. toBridge' = Sent(toBridge, frames)
          BY <1>2, <2>1, Zenon DEF RecycleAnswers
    <2>3. frames \in Seq(AgentFrames) /\ ~Holds(frames, {"reject"})
      <3>1. Frame.of \in 1 .. MaxReuse
            BY <2>1, MaxReuseAssumption DEF CoreInv, PlaceTypes, Numbers, Serving
      <3> QED BY <3>1 DEF AgentFrames, ToBridge, Holds
    <2> HIDE DEF frames
    <2> QED BY <1>1, <2>2, <2>3, SentHolds
  <1>3. CASE ~RecycleAnswers
    <2>1. CASE toBridge' = toBridge
          BY <1>1, <2>1
    <2>2. CASE toBridge # <<>> /\ toBridge' = Tail(toBridge)
          BY <1>1, <2>2, TakenHolds
    <2>3. ASSUME NEW kind \in {"ack", "nak", "data", "reset", "close", "closeAck"},
                 toBridge' = Sent(toBridge, OfAgent(kind)), apc \in Serving
          PROVE  ~Holds(toBridge', {"reject"})
      <3>1. kind \in ToBridge /\ kind \notin {"reject"}
            BY <2>3 DEF ToBridge
      <3> QED BY <1>1, <2>3, <3>1, AgentFrameHolds
    <2> QED BY <1>1, <1>3, <2>1, <2>2, <2>3, AgentTells DEF Serving
  <1> QED BY <1>2, <1>3

\* Every step keeps what the agent's frames tell.
LEMMA ToldKept == ASSUME Inv, CoreInv, Seen, [Next]_vars PROVE Told'
  <1>1. /\ TypeOK /\ Told /\ Phases /\ Marks
        /\ toBridge \in Seq(AgentFrames)
        BY DEF Inv, TypeInv, Seen, CoreInv, PlaceTypes
  <1>2. CASE RecycleAnswers
    <2>1. bpc' \in {"recycling", "closed"}
          BY <1>2, AnswerAgrees DEF RecycleAnswers, bridgeVars
    <2> QED BY <2>1 DEF Told, Relaying, Pumps
  <1>3. CASE RecycleToIdle
    <2>1. apc = "acked" /\ bpc' = bpc /\ toBridge' = toBridge
          BY <1>3 DEF RecycleToIdle, bridgeVars, wire
    <2>2. bpc \in {"opening"} \cup Relaying => toBridge' = <<>>
          BY <1>1, <2>1 DEF Phases, Relaying, Pumps
    <2> QED BY <2>1, <2>2 DEF Told, Holds
  <1>4. CASE ~RecycleAnswers /\ ~RecycleToIdle
    <2>1. OtherEffect /\ (observed => observed')
          BY <1>1, <1>4, OtherEffects, ObservedStays
    <2>2. CASE BridgeGoesOn \/ BridgeStarts
      <3>1. /\ bpc \in {"opening"} \cup Relaying /\ apc' = apc
            /\ toBridge' = toBridge \/ (toBridge # <<>> /\ toBridge' = Tail(toBridge))
            BY <2>2 DEF BridgeGoesOn, BridgeStarts
      <3>2. \A kinds : Holds(toBridge', kinds) => Holds(toBridge, kinds)
            BY <1>1, <3>1, TakenHolds
      <3> QED BY <1>1, <2>1, <3>1, <3>2 DEF Told
    <2>3. CASE BridgeOpens
      <3>1. toBridge' = <<>>
            BY <1>1, <2>3 DEF BridgeOpens, Phases
      <3> QED BY <3>1 DEF Told, Holds
    <2>4. CASE BridgeEnds \/ BridgeDiscards \/ BridgePools \/ OpenTimesOut \/ BridgeRecycles
      <3>1. bpc' \in {"closed", "recycling", "idle", "late"}
            BY <2>4 DEF BridgeEnds, BridgeDiscards, places, BridgePools, OpenTimesOut,
                        BridgeRecycles, BridgeWrites
      <3> QED BY <3>1 DEF Told, Relaying, Pumps
    <2>5. ASSUME Quiet \/ Sever \/ AgentEnds \/ AgentGoesOn \/ AgentStarts \/ DialOk,
                 bpc' \in {"opening"} \cup Relaying
          PROVE  /\ Holds(toBridge', {"closeAck"}) => observed'
                 /\ Holds(toBridge', {"close"}) => apc' \notin {"dial", "relay"}
      <3>1. /\ bpc' = bpc
            /\ apc' \in {"dial", "relay"} => apc \in {"dial", "relay"} \/ AgentStarts
            BY <2>5 DEF Quiet, places, Sever, AgentEnds, AgentGoesOn, AgentStarts, DialOk,
                        bridgeVars, agentVars
      <3>2. CASE AgentStarts
        <4>1. toBridge' = <<>>
              BY <1>1, <2>5, <3>1, <3>2 DEF AgentStarts, Phases, Relaying, Pumps
        <4> QED BY <4>1 DEF Holds
      <3>3. CASE ~AgentStarts
        <4>1. /\ Holds(toBridge, {"closeAck"}) => observed'
              /\ Holds(toBridge, {"close"}) => apc' \notin {"dial", "relay"}
              BY <1>1, <2>1, <2>5, <3>1, <3>3 DEF Told
        <4>2. CASE toBridge' = toBridge
              BY <4>1, <4>2
        <4>3. CASE toBridge # <<>> /\ toBridge' = Tail(toBridge)
              BY <1>1, <4>1, <4>3, TakenHolds
        <4>4. ASSUME NEW kind \in {"ack", "nak", "data", "reset"},
                     toBridge' = Sent(toBridge, OfAgent(kind)), apc \in Serving
              PROVE  /\ Holds(toBridge', {"closeAck"}) => Holds(toBridge, {"closeAck"})
                     /\ Holds(toBridge', {"close"}) => Holds(toBridge, {"close"})
          <5>1. kind \in ToBridge /\ kind \notin {"closeAck"} /\ kind \notin {"close"}
                BY <4>4 DEF ToBridge
          <5> QED BY <4>4, <5>1, AgentFrameHolds
        <4>5. CASE toBridge' = Sent(toBridge, OfAgent("close")) /\ apc = "relay"
                   /\ apc' = "recycle"
          <5>1. "close" \in ToBridge /\ "close" \notin {"closeAck"} /\ apc \in Serving
                BY <4>5 DEF ToBridge, Serving
          <5>2. Holds(toBridge', {"closeAck"}) => Holds(toBridge, {"closeAck"})
                BY <4>5, <5>1, AgentFrameHolds
          <5> QED BY <4>1, <4>5, <5>2
        <4>6. CASE /\ toBridge' = Sent(toBridge, OfAgent("closeAck"))
                   /\ apc \in {"relay", "recycle"} /\ observed'
          <5>1. "closeAck" \in ToBridge /\ "closeAck" \notin {"close"} /\ apc \in Serving
                BY <4>6 DEF ToBridge, Serving
          <5>2. Holds(toBridge', {"close"}) => Holds(toBridge, {"close"})
                BY <4>6, <5>1, AgentFrameHolds
          <5> QED BY <4>1, <4>6, <5>2
        <4> QED BY <1>1, <1>4, <4>1, <4>2, <4>3, <4>4, <4>5, <4>6, AgentTells DEF Serving
      <3> QED BY <3>2, <3>3
    <2>6. CASE Quiet \/ Sever \/ AgentEnds \/ AgentGoesOn \/ AgentStarts \/ DialOk
          BY <2>5, <2>6 DEF Told
    <2> QED BY <2>1, <2>2, <2>3, <2>4, <2>6 DEF OtherEffect
  <1> QED BY <1>2, <1>3, <1>4

\* While the agent waits for an open, no recycle is on its way to it.
LEMMA NoneAsked == ASSUME CoreInv, apc \in {"idle", "acked"} PROVE ~Asks
  <1> SUFFICES ASSUME NEW i \in 1 .. Len(toAgent), toAgent[i].kind \in {"recycle", "final"}
               PROVE  FALSE
      BY DEF Asks, Holds
  <1>1. toAgent \in Seq(BridgeFrames) /\ toAgent # <<>>
        BY DEF CoreInv, PlaceTypes
  <1>2. 1 \in 1 .. Len(toAgent) /\ Frame = toAgent[1]
        BY <1>1, TakenQueue DEF Frame
  <1>3. serving = traffic - 1
        BY <1>1, <1>2 DEF CoreInv, AgentQueue
  <1>4. serving = traffic
        BY DEF CoreInv, AgentQueue
  <1> QED BY <1>3, <1>4 DEF CoreInv, PlaceTypes

\* What the agent takes from its queue leaves the evidence for a recycle.
LEMMA EvidenceStays ==
    ASSUME Inv, CoreInv, Seen, [Next]_vars, ~RecycleAnswers, ~RecycleToIdle,
           AgentEnds \/ AgentGoesOn, Evidence, apc # "idle"
    PROVE  Evidence'
  <1>1. TypeOK /\ Marks /\ toAgent \in Seq(BridgeFrames)
        BY DEF Inv, TypeInv, Seen, CoreInv, PlaceTypes
  <1>2. observed => observed'
        BY <1>1, ObservedStays
  <1>3. bpc' = bpc /\ (apc' \in {"dial", "relay"} => apc \in {"dial", "relay"})
        BY DEF AgentEnds, AgentGoesOn
  <1>4. SUFFICES ASSUME ~observed', apc \notin {"dial", "relay"}, Holds(toAgent, {"closeAck"})
                 PROVE  Holds(toAgent', {"closeAck"})
        BY <1>2, <1>3 DEF Evidence
  <1>5. CASE toAgent' = toAgent
        BY <1>4, <1>5
  <1>6. CASE toAgent' # toAgent
    <2>1. apc = "recycle" /\ Head(toAgent).kind = "closeAck" => Head(toAgent).of = serving
      <3> SUFFICES ASSUME apc = "recycle", Head(toAgent).kind = "closeAck"
                   PROVE  Head(toAgent).of = serving
          OBVIOUS
      <3>1. toAgent # <<>>
            BY <1>6 DEF AgentEnds, AgentGoesOn
      <3>2. 1 \in 1 .. Len(toAgent) /\ Head(toAgent) = toAgent[1]
            BY <1>1, <3>1, TakenQueue
      <3>3. Head(toAgent).of = traffic
            BY <3>2 DEF CoreInv, AgentQueue
      <3> QED BY <3>3 DEF CoreInv, Phases, Serving
    <2>2. /\ toAgent # <<>> /\ toAgent' = Tail(toAgent)
          /\ apc \in {"idle", "relay"} \/ Head(toAgent).kind # "closeAck" \/ observed'
          BY <1>1, <1>3, <1>6, <2>1, AgentHeeds
    <2> QED BY <1>1, <1>4, <2>2, TakenHolds
  <1> QED BY <1>5, <1>6

\* Every step keeps the evidence for the recycle that the Bridge asks for, or is about to.
LEMMA EvidentKept == ASSUME Inv, CoreInv, CoreInv', Seen, [Next]_vars PROVE Evident'
  <1>1. /\ TypeOK /\ Told /\ Evident /\ Phases /\ Marks /\ Numbers
        /\ toAgent \in Seq(BridgeFrames) /\ toBridge \in Seq(AgentFrames)
        BY DEF Inv, TypeInv, Seen, CoreInv, PlaceTypes
  <1>2. CASE RecycleAnswers
    <2>1. /\ toAgent' = Tail(toAgent) /\ bpc' \in {"recycling", "closed"}
          /\ ~Holds(Tail(toAgent), {"recycle", "final"})
          BY <1>2, AnswerAgrees DEF RecycleAnswers, AgentTakes, bridgeVars
    <2>2. ~Asks'
          BY <2>1 DEF Asks
    <2> QED BY <2>1, <2>2 DEF Evident
  <1>3. CASE RecycleToIdle
    <2>1. apc = "acked" /\ toAgent' = toAgent /\ bpc' = bpc
          BY <1>3 DEF RecycleToIdle, wire, bridgeVars
    <2>2. ~Asks /\ bpc # "relayed"
          BY <1>1, <2>1, NoneAsked DEF Phases
    <2> QED BY <2>1, <2>2 DEF Evident, Asks
  <1>4. CASE ~RecycleAnswers /\ ~RecycleToIdle
    <2>1. OtherEffect /\ (observed => observed')
          BY <1>1, <1>4, OtherEffects, ObservedStays
    <2>2. CASE Quiet \/ Sever \/ BridgeDiscards
      <3>1. /\ toAgent' = toAgent /\ apc' = apc /\ bpc' = bpc /\ traffic' = traffic
            /\ recycleSeq' = recycleSeq /\ (link' = "up" => link = "up")
            BY <2>2 DEF Quiet, Sever, BridgeDiscards, places, bridgeVars, agentVars
      <3> QED BY <1>1, <2>1, <3>1 DEF Evident, Evidence, Asks
    <2>3. ASSUME Asks' => Asks, bpc' # "relayed", apc' = apc,
                 Holds(toAgent, {"closeAck"}) => Holds(toAgent', {"closeAck"}),
                 traffic' = traffic, recycleSeq' = recycleSeq
          PROVE  Evident'
          BY <1>1, <2>1, <2>3 DEF Evident, Evidence
    <2>4. bpc \notin {"idle", "closed"} => traffic \in 1 .. MaxReuse
          BY <1>1, MaxReuseAssumption DEF Numbers, TypeOK
    <2>5. ASSUME NEW kind \in {"data", "reset", "closeAck"}, bpc \notin {"idle", "closed"},
                 toAgent' = Sent(toAgent, OfBridge(kind))
          PROVE  /\ Asks' => Asks
                 /\ Holds(toAgent, {"closeAck"}) => Holds(toAgent', {"closeAck"})
      <3>1. kind \in ToAgent /\ kind \notin {"recycle", "final"}
            BY <2>5 DEF ToAgent
      <3> QED BY <2>4, <2>5, <3>1, BridgeFrameHolds DEF Asks
    <2>6. CASE BridgeEnds
      <3>1. /\ bpc' = "closed" /\ apc' = apc /\ traffic' = traffic /\ recycleSeq' = recycleSeq
            /\ \/ toAgent' = toAgent
               \/ /\ bpc \notin {"idle", "closed"}
                  /\ toAgent' = Sent(toAgent, OfBridge("closeAck"))
            BY <2>6 DEF BridgeEnds, Relaying, Pumps
      <3>2. /\ Asks' => Asks
            /\ Holds(toAgent, {"closeAck"}) => Holds(toAgent', {"closeAck"})
            BY <2>5, <3>1 DEF Asks
      <3> QED BY <2>3, <3>1, <3>2
    <2>7. CASE BridgeStarts
      <3>1. /\ bpc' # "relayed" /\ apc' = apc /\ traffic' = traffic /\ recycleSeq' = recycleSeq
            /\ bpc \notin {"idle", "closed"}
            /\ toAgent' = toAgent \/ toAgent' = Sent(toAgent, OfBridge("data"))
            BY <2>7 DEF BridgeStarts, Pumps
      <3>2. /\ Asks' => Asks
            /\ Holds(toAgent, {"closeAck"}) => Holds(toAgent', {"closeAck"})
            BY <2>5, <3>1 DEF Asks
      <3> QED BY <2>3, <3>1, <3>2
    <2>8. CASE OpenTimesOut
      <3>1. /\ bpc' # "relayed" /\ apc' = apc /\ traffic' = traffic /\ recycleSeq' = recycleSeq
            /\ bpc \notin {"idle", "closed"}
            /\ toAgent' = Sent(toAgent, OfBridge("reset"))
            BY <2>8 DEF OpenTimesOut, BridgeWrites, agentVars
      <3>2. /\ Asks' => Asks
            /\ Holds(toAgent, {"closeAck"}) => Holds(toAgent', {"closeAck"})
            BY <2>5, <3>1
      <3> QED BY <2>3, <3>1, <3>2
    <2>9. CASE BridgeGoesOn
      <3>1. /\ bpc \in Relaying /\ apc' = apc /\ link' = link /\ traffic' = traffic
            /\ recycleSeq' = recycleSeq /\ traffic \in 1 .. MaxReuse /\ bpc # "relayed"
            BY <2>4, <2>9 DEF BridgeGoesOn, Relaying, Pumps
      <3>2. /\ Asks' => Asks
            /\ Holds(toAgent, {"closeAck"}) => Holds(toAgent', {"closeAck"})
        <4>1. CASE toAgent' = toAgent
              BY <4>1 DEF Asks
        <4>2. ASSUME NEW frames \in Closing, toAgent' = Sent(toAgent, frames)
              PROVE  /\ Asks' => Asks
                     /\ Holds(toAgent, {"closeAck"}) => Holds(toAgent', {"closeAck"})
              BY <3>1, <4>2, ClosingHolds DEF Asks
        <4> QED BY <2>9, <4>1, <4>2 DEF BridgeGoesOn
      <3>3. CASE bpc' # "relayed"
            BY <2>3, <3>1, <3>2, <3>3
      <3>4. CASE bpc' = "relayed" /\ link # "up"
            BY <1>1, <2>1, <3>1, <3>2, <3>4 DEF Evident, Evidence
      <3>5. CASE bpc' = "relayed" /\ link = "up"
        <4>1. /\ toBridge # <<>>
              /\ \/ Head(toBridge).kind = "closeAck"
                 \/ /\ Head(toBridge).kind = "close"
                    /\ toAgent' = Sent(toAgent, OfBridge("closeAck"))
              BY <1>1, <3>1, <3>5, BridgeDone
        <4>2. CASE Head(toBridge).kind = "closeAck"
          <5>1. Holds(toBridge, {"closeAck"})
                BY <1>1, <4>1, <4>2, TakenHolds
          <5>2. observed'
                BY <1>1, <2>1, <3>1, <5>1 DEF Told
          <5> QED BY <1>1, <3>1, <3>2, <5>2 DEF Evident, Evidence
        <4>3. CASE /\ Head(toBridge).kind = "close"
                   /\ toAgent' = Sent(toAgent, OfBridge("closeAck"))
          <5>1. Holds(toBridge, {"close"})
                BY <1>1, <4>1, <4>3, TakenHolds
          <5>2. apc' \notin {"dial", "relay"}
                BY <1>1, <3>1, <5>1 DEF Told
          <5>3. Holds(toAgent', {"closeAck"})
            <6>1. "closeAck" \in ToAgent /\ "closeAck" \in {"closeAck"}
                  BY DEF ToAgent
            <6> QED BY <3>1, <3>5, <4>3, <6>1, BridgeFrameHolds
          <5> QED BY <1>1, <3>1, <3>2, <5>2, <5>3 DEF Evident, Evidence
        <4> QED BY <4>1, <4>2, <4>3
      <3> QED BY <3>3, <3>4, <3>5
    <2>10. CASE BridgePools \/ BridgeOpens
      <3>1. ~Asks' /\ bpc' # "relayed"
        <4>1. CASE BridgePools
          <5>1. bpc' = "idle"
                BY <4>1 DEF BridgePools
          <5>2. toAgent' = <<>>
                BY <5>1 DEF CoreInv, Phases
          <5> QED BY <5>1, <5>2 DEF Asks, Holds
        <4>2. CASE BridgeOpens
          <5>1. /\ toAgent = <<>> /\ bpc' = "opening"
                /\ toAgent' = Sent(toAgent, <<[kind |-> "open", of |-> traffic']>>)
                BY <1>1, <4>2 DEF BridgeOpens, BridgeWrites, Phases
          <5>2. toAgent' \in {<<>>, <<[kind |-> "open", of |-> traffic']>>}
                BY <5>1 DEF Sent
          <5> QED BY <5>1, <5>2 DEF Asks, Holds
        <4> QED BY <2>10, <4>1, <4>2
      <3> QED BY <3>1 DEF Evident
    <2>11. CASE BridgeRecycles
      <3> DEFINE kind == IF IsFinal THEN "final" ELSE "recycle"
                 f == [kind |-> kind, of |-> recycleSeq + 1]
      <3>1. /\ bpc = "relayed" /\ bpc' = "recycling" /\ apc' = apc
            /\ traffic' = traffic /\ recycleSeq' = recycleSeq /\ traffic = recycleSeq + 1
            BY <1>1, <2>11 DEF BridgeRecycles, BridgeWrites, agentVars, Numbers
      <3>2. toAgent' = Sent(toAgent, <<f>>)
            BY <2>11, Zenon DEF BridgeRecycles, BridgeWrites
      <3>3. <<f>> \in Seq(BridgeFrames)
            BY <1>1, MaxReuseAssumption DEF TypeOK, BridgeFrames, ToAgent
      <3> HIDE DEF f
      <3>4. Holds(toAgent, {"closeAck"}) => Holds(toAgent', {"closeAck"})
            BY <1>1, <3>2, <3>3, SentHolds
      <3>5. link # "up" => toAgent' = toAgent
            BY <3>2 DEF Sent
      <3>6. Asks' => Evidence
            BY <1>1, <3>1, <3>5 DEF Evident, Asks
      <3> QED BY <2>1, <3>1, <3>4, <3>6 DEF Evident, Evidence
    <2>12. CASE DialOk
      <3>1. /\ apc = "dial" /\ toAgent' = toAgent /\ bpc' = bpc /\ link' = link
            /\ traffic' = traffic /\ recycleSeq' = recycleSeq
            BY <2>12 DEF DialOk, bridgeVars
      <3> QED BY <1>1, <2>1, <3>1 DEF Evident, Evidence, Asks
    <2>13. CASE AgentStarts
      <3>1. ~Asks /\ bpc # "relayed" /\ bpc' = bpc
            BY <1>1, <2>13, NoneAsked DEF AgentStarts, Phases
      <3>2. ~Asks'
            BY <1>1, <2>13, <3>1, TakenHolds DEF AgentStarts, Asks
      <3> QED BY <3>1, <3>2 DEF Evident
    <2>14. CASE AgentEnds \/ AgentGoesOn
      <3>1. /\ bpc' = bpc /\ traffic' = traffic /\ recycleSeq' = recycleSeq
            /\ link' = "up" => link = "up"
            /\ toAgent' = toAgent \/ (toAgent # <<>> /\ toAgent' = Tail(toAgent))
            BY <2>14 DEF AgentEnds, AgentGoesOn
      <3>2. Asks' => Asks
            BY <1>1, <3>1, TakenHolds DEF Asks
      <3>3. (bpc = "relayed" /\ link = "up") \/ Asks => apc # "idle"
            BY <1>1, NoneAsked DEF Phases
      <3>4. (bpc' = "relayed" /\ link' = "up") \/ Asks' => Evidence'
            BY <1>1, <1>4, <2>14, <3>1, <3>2, <3>3, EvidenceStays DEF Evident
      <3> QED BY <1>1, <3>1, <3>2, <3>4 DEF Evident
    <2> QED BY <2>1, <2>2, <2>6, <2>7, <2>8, <2>9, <2>10, <2>11, <2>12, <2>13, <2>14
            DEF OtherEffect
  <1> QED BY <1>2, <1>3, <1>4

\* The invariant of the close handshake is inductive, with that of the queues.
LEMMA SeenStep == Inv /\ Seen /\ [Next]_vars => Seen'
  <1> SUFFICES ASSUME Inv, Seen, [Next]_vars PROVE Seen'
      OBVIOUS
  <1>1. TypeOK /\ Phases /\ Marks /\ CoreInv
        BY InvCore DEF Inv, TypeInv, Seen
  <1>2. CoreInv'
        BY <1>1, Effects, CoreStep
  <1>3. Marks'
        BY <1>1, MarksKept
  <1>4. Told' /\ Evident' /\ Newer' /\ ~Holds(toBridge', {"reject"})
        BY <1>1, <1>2, ToldKept, EvidentKept, NewerKept, NeverRejects
  <1> QED BY <1>3, <1>4 DEF Seen

\* Neither side is ever sent what it has to refuse: the agent's first frame is an open
\* (WaitTrafficOpen of acceptor.go), the Bridge's an answer to its open (Execute of
\* open_handshake.go), and a recycle is asked for only when the agent has seen the close
\* through (handleTunnelRecyclePhase of data_plane_runtime.go).
THEOREM NeverRefusedHolds == Spec => []NeverRefused
  <1>1. Init => Seen
        BY DEF Init, Seen, Marks, Told, Evident, Newer, Holds, Asks, Serving, Relaying, Pumps
  <1>2. Inv /\ Seen => NeverRefused
    <2> SUFFICES ASSUME Inv, Seen PROVE NeverRefused
        OBVIOUS
    <2>1. /\ toAgent \in Seq(BridgeFrames) /\ toBridge \in Seq(AgentFrames)
          /\ Phases /\ AgentQueue /\ BridgeQueue
          BY InvCore DEF Inv, TypeInv, CoreInv, PlaceTypes
    <2>2. apc = "idle" /\ toAgent # <<>> => Frame.kind = "open"
          BY <2>1 DEF AgentQueue
    <2>3. ASSUME bpc = "opening", toBridge # <<>>
          PROVE  Head(toBridge).kind \in {"ack", "nak"} /\ Head(toBridge).of = traffic
      <3>1. 1 \in 1 .. Len(toBridge) /\ Head(toBridge) = toBridge[1]
            BY <2>1, <2>3, TakenQueue
      <3> QED BY <2>1, <2>3, <3>1 DEF Phases, BridgeQueue
    <2>4. \A f \in Elements(toBridge) : f.kind # "reject"
      <3>1. DOMAIN toBridge = 1 .. Len(toBridge)
            BY <2>1
      <3>2. ASSUME NEW i \in 1 .. Len(toBridge) PROVE toBridge[i].kind # "reject"
            BY <3>2 DEF Seen, Holds
      <3> QED BY <3>1, <3>2 DEF Elements
    <2> QED BY <2>2, <2>3, <2>4 DEF NeverRefused
  <1> QED BY <1>1, <1>2, SeenStep, Invariant, PTL DEF Spec

=============================================================================
