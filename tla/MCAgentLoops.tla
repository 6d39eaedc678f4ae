------------------------------ MODULE MCAgentLoops ------------------------------
\* Small instances of two loops of the agent with their peers: the worker that serves the
\* traffics of a tunnel, and the control loop. They share no state: a behaviour is one
\* of one of them, whose name `part` holds.
EXTENDS TunnelTraffic

CONSTANTS Drainers, Reconnecters, Capacity, MissLimit, FrameBuffer

VARIABLES
    part,
    pc, desired, manager, commands, caller, last, awaiting, missed, frames, channel, owed

controlVars == <<pc, desired, manager, commands, caller, last, awaiting, missed, frames,
                 channel, owed>>

Control == INSTANCE AgentControl WITH link <- channel

\* The part that does not run has nothing to do: an idle tunnel, a parked loop.
MCInit ==
    /\ part \in {"traffic", "control"}
    /\ Init /\ (part # "traffic" => polling)
    /\ IF part = "control"
         THEN Control!Init
         ELSE /\ pc = "parked" /\ desired = FALSE /\ manager = "DRAINING"
              /\ commands = <<>> /\ caller = [c \in Control!Callers |-> "idle"] /\ last = "none"
              /\ awaiting = FALSE /\ missed = 0 /\ frames = <<>>
              /\ channel = "none" /\ owed = FALSE

MCNext ==
    \/ part = "traffic" /\ Next /\ UNCHANGED <<part, controlVars>>
    \/ part = "control" /\ Control!Next /\ UNCHANGED <<part, vars>>

MCSpec ==
    /\ MCInit /\ [][MCNext]_<<part, vars, controlVars>>
    /\ Fairness /\ Control!Fairness

-----------------------------------------------------------------------------
\* The properties of the two parts, stated in their modules.

\* The handshakes that close a traffic come to an end, and the end of the service's side
\* ends it.
TrafficEnds == ClosingEnds /\ EofEndsTraffic

\* The loop comes to what the user asked for last.
LastCommandWins == Control!LastCommandWins

\* A Bridge that has stopped answering is given up.
DeafIsNoticed == Control!DeafIsNoticed
=============================================================================
