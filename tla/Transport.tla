------------------------------- MODULE Transport -------------------------------
\* The two parts of the LTFP transport side by side: the tunnel pool of a session, and
\* one direction of its control channel. They share no state: a behaviour is one of one
\* of them, whose name `part` holds.
EXTENDS TransportPool

CONSTANTS Writes, Fragments, Priority, Bindings, Expiring, MaxInFlight    \* of ControlChannel

ASSUME ChannelAssumption ==
    /\ NoTunnel \notin Writes
    /\ Fragments \in [Writes -> Nat \ {0}]
    /\ Priority \in [Writes -> {"high", "normal", "low"}]
    /\ Bindings \subseteq {"tcp", "quic", "grpc"}
    /\ Expiring \subseteq Writes
    /\ MaxInFlight \in Nat \ {0}

VARIABLES
    part,
    binding, writer, ended, op, entered, queue, ready, loop, current, mutex,
    channel, conn, wire, put, reader, parts, delivered      \* ControlChannel

channelVars == <<binding, writer, ended, op, entered, queue, ready, loop, current, mutex,
                 channel, conn, wire, put, reader, parts, delivered>>

Channel == INSTANCE ControlChannel WITH None <- NoTunnel

-----------------------------------------------------------------------------
\* The part that does not run stays as it starts.
TransportInit ==
    /\ part \in {"pool", "channel"}
    /\ Init /\ Channel!Init

TransportNext ==
    \/ part = "pool"    /\ Next         /\ UNCHANGED <<part, channelVars>>
    \/ part = "channel" /\ Channel!Next /\ UNCHANGED <<part, vars>>

allVars == <<part, vars, channelVars>>

TransportSpec == TransportInit /\ [][TransportNext]_allVars

-----------------------------------------------------------------------------
\* The properties of the channel, stated in its module.

\* Messages of one priority arrive once and in the order they were queued, and
\* nothing follows a frame that was cut short.
InOrder == Channel!InOrder

\* No caller of a write waits for nothing.
NoLostWrite == Channel!NoLostWrite
=============================================================================
