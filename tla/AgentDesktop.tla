------------------------------ MODULE AgentDesktop ------------------------------
\* The two parts of the desktop host: the supervision of the agent's process, in which a
\* call is one step, and the local connection that the calls go over. They share no state
\* here: a behaviour is one of one of them, whose name `part` holds.
EXTENDS AgentHost

CONSTANTS Clients, Known, MaxCalls, Buffer      \* of LocalRpc

ASSUME RpcAssumption ==
    /\ None \notin Clients
    /\ Known \subseteq Clients
    /\ MaxCalls \in Nat /\ Buffer \in Nat

VARIABLES
    part,
    client, up, down, hungup, backlog, serving, trust, handling, writing    \* LocalRpc

rpcVars == <<client, up, down, hungup, backlog, serving, trust, handling, writing>>

Rpc == INSTANCE LocalRpc

\* The host as it is when its process has ended.
Over ==
    /\ supervisor = [desired |-> "stopped", connection |-> "disconnected",
                     expecting |-> FALSE, pending |-> FALSE, retry |-> "none",
                     child |-> None, client |-> None]
    /\ process = [p \in Procs |-> "none"] /\ endpoint = None /\ behind = {}
    /\ at = [t \in Threads |-> "idle"]
    /\ mine = [t \in Threads |-> None] /\ held = [t \in Threads |-> None]
    /\ command = "none" /\ shutdown = TRUE /\ exited = TRUE
    /\ left = [commands |-> 0, faults |-> 0]
    /\ raced = FALSE /\ refused = FALSE

\* The part that does not run is not open, or over.
DesktopInit ==
    /\ part \in {"host", "rpc"}
    /\ Rpc!Init
    /\ IF part = "host" THEN Init ELSE Over

DesktopNext ==
    \/ part = "host" /\ Next     /\ UNCHANGED <<part, rpcVars>>
    \/ part = "rpc"  /\ Rpc!Next /\ UNCHANGED <<part, vars>>

DesktopSpec == DesktopInit /\ [][DesktopNext]_<<part, vars, rpcVars>>

FairDesktopSpec == DesktopSpec /\ Fairness

-----------------------------------------------------------------------------
\* A client is up with the agent it calls, and is given the answers to its own calls.
InStep == Rpc!InStep
=============================================================================
