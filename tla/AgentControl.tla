---------------------------- MODULE AgentControl ----------------------------
(***************************************************************************)
(* The agent's control loop: it connects to the Bridge, shakes hands,      *)
(* publishes what the catalogue has, stays until the session is lost, and  *)
(* starts again after a backoff; it is told to drain or to reconnect by    *)
(* users of the local API, through a short queue of commands.              *)
(*                                                                         *)
(* The loop is one goroutine; a step of it ends where another goroutine    *)
(* can tell the difference: at the queue, at the tunnel manager, and at    *)
(* the network.  What is published, and under which session, is in         *)
(* AgentPublish, with the state and the readiness that gate it.            *)
(***************************************************************************)
EXTENDS Naturals, Sequences

CONSTANTS Drainers,     \* goroutines of the local API that ask for a drain ...
          Reconnecters, \* ... and for a reconnect
          Capacity,     \* of bridgeCommandChan
          MissLimit,    \* bridgeHeartbeatMissThreshold
          FrameBuffer   \* capacity of readFrameChan

VARIABLES
    pc,        \* where the loop is
    desired,   \* bridgeDesiredUp
    manager,   \* the session state the tunnel manager was last told
    commands,  \* bridgeCommandChan
    caller,    \* caller -> where it is in its request
    last,      \* what was asked for last, "either" if requests of both kinds overlapped
    awaiting,  \* awaitingPong
    missed,    \* missedPongCount
    frames,    \* readFrameChan
    link,      \* the channel's connection: "none", "up", "deaf" or "broken"
    owed       \* the Bridge has a ping to answer

loopVars    == <<pc, desired>>
commandVars == <<commands, caller, last>>
peerVars    == <<awaiting, missed, frames, link, owed>>
vars == <<loopVars, manager, commandVars, peerVars>>

-----------------------------------------------------------------------------
(* Commands *)

Commands == {"reconnect", "drain"}
Callers  == Drainers \cup Reconnecters
Asked(c) == IF c \in Drainers THEN "drain" ELSE "reconnect"

\* requestBridgeReconnect and requestBridgeDrain: what is wanted is written
\* under bridgeMu, the command is queued after that.
Request(c) ==
    /\ caller[c] = "idle"
    /\ desired' = (c \in Reconnecters)
    /\ caller' = [caller EXCEPT ![c] = IF c \in Drainers THEN "notify" ELSE "try"]
    /\ last' = IF \A d \in Callers : caller[d] = "idle" \/ (Asked(d) = Asked(c) /\ last = Asked(c))
               THEN Asked(c) ELSE "either"
    /\ UNCHANGED <<pc, manager, commands, peerVars>>

\* A drain tells the tunnel manager at once, before the loop has heard of it.
NotifyDraining(c) ==
    /\ caller[c] = "notify"
    /\ manager' = "DRAINING"
    /\ caller' = [caller EXCEPT ![c] = "try"]
    /\ UNCHANGED <<loopVars, commands, last, peerVars>>

\* enqueueBridgeCommand: into the queue if there is room; else the oldest
\* command is dropped, and after a second attempt this one is.
Enqueue(c) ==
    /\ caller[c] \in {"try", "retry"}
    /\ \/ /\ Len(commands) < Capacity
          /\ commands' = Append(commands, Asked(c))
          /\ caller' = [caller EXCEPT ![c] = "idle"]
       \/ /\ Len(commands) = Capacity /\ caller[c] = "try"
          /\ caller' = [caller EXCEPT ![c] = "drop"]
          /\ UNCHANGED commands
       \/ /\ Len(commands) = Capacity /\ caller[c] = "retry"
          /\ caller' = [caller EXCEPT ![c] = "idle"]
          /\ UNCHANGED commands
    /\ UNCHANGED <<loopVars, manager, last, peerVars>>

DropOldest(c) ==
    /\ caller[c] = "drop"
    /\ commands' = IF commands = <<>> THEN commands ELSE Tail(commands)
    /\ caller' = [caller EXCEPT ![c] = "retry"]
    /\ UNCHANGED <<loopVars, manager, last, peerVars>>

\* The loop receives cmd.
Receive(cmd) ==
    /\ commands # <<>> /\ Head(commands) = cmd
    /\ commands' = Tail(commands)
    /\ UNCHANGED <<caller, last>>

-----------------------------------------------------------------------------
(* Connecting *)

\* closeCurrentControlChannel; what was read from the channel, and what its
\* heartbeat was waiting for, went with it.
ClosedChannel ==
    /\ link' = "none" /\ frames' = <<>> /\ owed' = FALSE
    /\ awaiting' = FALSE /\ missed' = 0

\* The top of the loop.
Top ==
    /\ pc = "top"
    /\ pc' = IF desired THEN "connect" ELSE "parked"
    /\ UNCHANGED <<desired, manager, commandVars, peerVars>>

\* waitUntilReconnectCommand: a drain is acknowledged and the wait goes on.
Parked ==
    /\ pc = "parked"
    /\ \/ /\ Receive("reconnect")
          /\ desired' = TRUE /\ pc' = "connect"
       \/ Receive("drain") /\ desired' = FALSE /\ UNCHANGED pc
    /\ UNCHANGED <<manager, peerVars>>

\* connectBridgeControl closes what is left of the last channel and dials.
Connect ==
    /\ pc = "connect"
    /\ pc' = "dialing"
    /\ ClosedChannel
    /\ UNCHANGED <<desired, manager, commandVars>>

\* setBridgeConnected: the channel is wanted from here, whoever asked what
\* meanwhile.
Dialed ==
    /\ pc = "dialing"
    /\ link' = "up" /\ desired' = TRUE /\ pc' = "handshake"
    /\ UNCHANGED <<manager, commandVars, awaiting, missed, frames, owed>>

DialFails ==
    /\ pc = "dialing"
    /\ pc' = "window"
    /\ UNCHANGED <<desired, manager, commandVars, peerVars>>

\* performControlHandshake and syncServiceControlState succeed ...
HandshakeDone ==
    /\ pc = "handshake" /\ link = "up"
    /\ pc' = "sync"
    /\ UNCHANGED <<desired, manager, commandVars, peerVars>>

\* ... and the session becomes ready.
SyncDone ==
    /\ pc = "sync" /\ link = "up"
    /\ pc' = "announce"
    /\ UNCHANGED <<desired, manager, commandVars, peerVars>>

\* Either may fail: by the link, a timeout or a refusal.
StageFails ==
    /\ pc \in {"handshake", "sync"}
    /\ pc' = "losing"
    /\ UNCHANGED <<desired, manager, commandVars, peerVars>>

\* The tunnel manager hears that the session is active.
Announce ==
    /\ pc = "announce"
    /\ manager' = "ACTIVE" /\ pc' = "first_ping"
    /\ UNCHANGED <<desired, commandVars, peerVars>>

\* The channel is closed, the tunnel manager told and the retry planned.
NotifyLost ==
    /\ pc = "losing"
    /\ manager' = "STALE" /\ pc' = "window"
    /\ ClosedChannel
    /\ UNCHANGED <<desired, commandVars>>

\* waitRetryWindow: the timer or a command.
RetryWindow ==
    /\ pc = "window"
    /\ \/ pc' = "top" /\ UNCHANGED <<desired, commandVars>>
       \/ Receive("reconnect") /\ desired' = TRUE /\ pc' = "top"
       \/ Receive("drain") /\ pc' = "draining" /\ UNCHANGED desired
    /\ UNCHANGED <<manager, peerVars>>

\* A drain that reaches a loop with a session or a retry: the channel is
\* closed, the tunnel manager told, the state closed.
NotifyDrain ==
    /\ pc = "draining"
    /\ manager' = "DRAINING" /\ pc' = "drained"
    /\ ClosedChannel
    /\ UNCHANGED <<desired, commandVars>>

\* (A mutant: the session is closed and still wanted.)
DrainedWanted ==
    /\ pc = "drained"
    /\ pc' = "top"
    /\ UNCHANGED <<desired, manager, commandVars, peerVars>>

\* setBridgeDrained.
Drained ==
    /\ pc = "drained"
    /\ desired' = FALSE /\ pc' = "top"
    /\ UNCHANGED <<manager, commandVars, peerVars>>

-----------------------------------------------------------------------------
(* waitForActiveExit *)

\* sendControlHeartbeatPing.
Ping == link # "broken" /\ awaiting' = TRUE /\ owed' = TRUE

FirstPing ==
    /\ pc = "first_ping"
    /\ missed' = 0 /\ Ping /\ pc' = "active"
    /\ UNCHANGED <<desired, manager, commandVars, frames, link>>

\* The write can fail on any channel.
PingFails ==
    /\ pc \in {"first_ping", "active"}
    /\ pc' = "losing"
    /\ UNCHANGED <<desired, manager, commandVars, peerVars>>

\* (A mutant: only the writes of the pings are looked at.)
TickWithoutCount ==
    /\ pc = "active"
    /\ Ping
    /\ UNCHANGED <<pc, missed, desired, manager, commandVars, frames, link>>

\* The heartbeat ticker: a pong still missing is counted, too many end the
\* session, and otherwise the next ping is sent.
Tick ==
    /\ pc = "active"
    /\ \/ /\ awaiting /\ missed + 1 >= MissLimit
          /\ pc' = "losing" /\ UNCHANGED <<missed, awaiting, owed>>
       \/ /\ ~(awaiting /\ missed + 1 >= MissLimit)
          /\ missed' = IF awaiting THEN missed + 1 ELSE missed
          /\ Ping /\ UNCHANGED pc
    /\ UNCHANGED <<desired, manager, commandVars, frames, link>>

\* One frame: a ping is answered, a pong ends the wait for it, a message is
\* handled; handling may fail, and ends the session then.
HandleFrame ==
    /\ pc = "active" /\ frames # <<>>
    /\ frames' = Tail(frames)
    /\ \/ Head(frames) = "pong" /\ awaiting' = FALSE /\ missed' = 0 /\ UNCHANGED pc
       \/ Head(frames) = "message" /\ UNCHANGED <<pc, awaiting, missed>>
       \/ Head(frames) = "ping" /\ link # "broken" /\ UNCHANGED <<pc, awaiting, missed>>
       \/ Head(frames) # "pong" /\ pc' = "losing" /\ UNCHANGED <<awaiting, missed>>
    /\ UNCHANGED <<desired, manager, commandVars, link, owed>>

HandleCommand ==
    /\ pc = "active"
    /\ \/ Receive("drain") /\ pc' = "draining" /\ UNCHANGED peerVars
       \/ Receive("reconnect") /\ pc' = "top" /\ ClosedChannel
    /\ UNCHANGED <<desired, manager>>

\* The reader's error.
ReadFails ==
    /\ pc = "active" /\ link = "broken"
    /\ pc' = "losing"
    /\ UNCHANGED <<desired, manager, commandVars, peerVars>>

-----------------------------------------------------------------------------
(* The Bridge and the network *)

\* readControlFrames passes on what the Bridge sends while there is room.
Delivered(f) == Len(frames) < FrameBuffer /\ frames' = Append(frames, f)

BridgeAnswers ==
    /\ pc = "active" /\ link = "up" /\ owed
    /\ Delivered("pong") /\ owed' = FALSE
    /\ UNCHANGED <<loopVars, manager, commandVars, awaiting, missed, link>>

BridgeSends ==
    /\ pc = "active" /\ link \in {"up", "deaf"}
    /\ \E f \in {"ping", "message"} : Delivered(f)
    /\ UNCHANGED <<loopVars, manager, commandVars, awaiting, missed, link, owed>>

\* The Bridge stops answering pings, or the connection is lost.
LinkFails ==
    /\ link = "up"
    /\ link' \in {"deaf", "broken"}
    /\ UNCHANGED <<loopVars, manager, commandVars, awaiting, missed, frames, owed>>

-----------------------------------------------------------------------------
Init ==
    /\ pc = "top" /\ desired = TRUE
    /\ manager = "NONE"
    /\ commands = <<>> /\ last = "none"
    /\ caller = [c \in Callers |-> "idle"]
    /\ awaiting = FALSE /\ missed = 0
    /\ frames = <<>> /\ link = "none" /\ owed = FALSE

Loop ==
    \/ Top \/ Parked \/ Connect \/ Dialed \/ DialFails \/ HandshakeDone \/ SyncDone
    \/ StageFails \/ Announce \/ NotifyLost
    \/ RetryWindow \/ NotifyDrain \/ Drained
    \/ FirstPing \/ PingFails \/ Tick \/ HandleFrame \/ HandleCommand \/ ReadFails

\* A command is received.
Hear == Loop /\ commands' # commands

CallerGoesOn(c) == NotifyDraining(c) \/ Enqueue(c) \/ DropOldest(c)

Next ==
    \/ Loop
    \/ \E c \in Callers : Request(c) \/ CallerGoesOn(c)
    \/ BridgeAnswers \/ BridgeSends \/ LinkFails

Spec == Init /\ [][Next]_vars

\* The loop goes on; a command in the queue is chosen in the end wherever the
\* loop listens for one; the heartbeat ticks while a session stands; a dial,
\* a handshake and a first synchronisation that are tried for ever succeed at
\* times; a caller that has begun finishes.
Fairness ==
    /\ WF_vars(Loop)
    /\ SF_vars(Hear)
    /\ WF_vars(Tick)
    /\ SF_vars(Dialed) /\ SF_vars(HandshakeDone) /\ SF_vars(SyncDone)
    /\ \A c \in Callers : WF_vars(CallerGoesOn(c))

FairSpec == Spec /\ Fairness

-----------------------------------------------------------------------------
(* Properties *)

TypeOK ==
    /\ pc \in {"top", "parked", "connect", "dialing", "handshake", "sync", "announce", "first_ping",
              "active", "losing", "window", "draining", "drained"}
    /\ desired \in BOOLEAN
    /\ manager \in {"NONE", "ACTIVE", "STALE", "DRAINING"}
    /\ commands \in Seq(Commands) /\ Len(commands) <= Capacity
    /\ last \in Commands \cup {"none", "either"}
    /\ caller \in [Callers -> {"idle", "notify", "try", "drop", "retry"}]
    /\ awaiting \in BOOLEAN /\ missed \in 0..MissLimit /\ owed \in BOOLEAN
    /\ frames \in Seq({"ping", "pong", "message"}) /\ Len(frames) <= FrameBuffer
    /\ link \in {"none", "up", "deaf", "broken"}

Asking   == \E c \in Callers : caller[c] # "idle"
Settled  == pc = "parked" /\ commands = <<>>
HasReady == desired /\ pc \in {"announce", "first_ping", "active"}

\* What the user asked for last is what the loop comes to, whatever was in the
\* queue, was dropped from it, or was being dialed at the time: after a drain it
\* parks, after a reconnect it has a session again.  Requests of both kinds that
\* overlap may end either way.
LastCommandWins ==
    []<>(\/ Asking
         \/ (last = "drain" => Settled) /\ (last = "reconnect" => HasReady))

\* A session whose Bridge has stopped answering pings is given up, however much
\* else that Bridge still sends.
DeafIsNoticed == []<>~(pc = "active" /\ link = "deaf")
=============================================================================
