------------------------------ MODULE MCBridgeLoops ------------------------------
\* Small instances of two parts of the Bridge whose properties say that something ends:
\* the session of a channel, among drains, heartbeats and the sweeper, and the
\* goroutines of a connection. They share no state: a behaviour is one of one of them,
\* whose name `part` holds.
EXTENDS BridgeSessions

CONSTANTS c1, Modes

VARIABLES
    part,
    binding, mode, at, cancelled, stopped, conn, queue      \* ControlIntake

intakeVars == <<binding, mode, at, cancelled, stopped, conn, queue>>

OfC1 == [s \in Sessions |-> c1]

Intake == INSTANCE ControlIntake WITH
    Bindings <- {"tcp", "grpc", "quic"}, MaxStreams <- 3, IncomingQueue <- 1, PendingQueue <- 1

\* The part that does not run has nothing to do: no channel is open, no connection is there.
MCInit ==
    /\ part \in {"session", "intake"}
    /\ Init
    /\ IF part = "intake"
         THEN Intake!Init
         ELSE /\ binding = "tcp" /\ mode = "optional"
              /\ at = [g \in Intake!Goroutines |-> "none"]
              /\ cancelled = FALSE /\ stopped = FALSE
              /\ conn = Intake!NoConnection
              /\ queue = [control |-> 0, incoming |-> 0, pending |-> 0]

MCNext ==
    \/ part = "session" /\ Next /\ UNCHANGED <<part, intakeVars>>
    \/ part = "intake"  /\ Intake!Next /\ UNCHANGED <<part, vars>>

MCSpec ==
    /\ MCInit /\ [][MCNext]_<<part, vars, intakeVars>>
    /\ Fairness /\ Intake!Fairness

-----------------------------------------------------------------------------
\* The goroutines of a connection end, and those of a server that stops: stated in
\* ControlIntake.
IntakeEnds == Intake!IntakeEnds
=============================================================================
