------------------------------ MODULE MCTransport ------------------------------
\* Small instances of the two parts of Transport.
EXTENDS Transport, TLC

\* A large message that may be given up, a large one more urgent than it, and a small
\* one that is not.
MCFragments == [w1 |-> 2, w2 |-> 2, w3 |-> 1]
MCPriority  == [w1 |-> "low", w2 |-> "high", w3 |-> "low"]

\* A refilled TCP pool with sends and a sweep; the acceptor side of all three.
SomeSides ==
    {[role |-> "agent", kind |-> "tcp", callers |-> 1, sends |-> 1, sweeps |-> 1],
     [role |-> "server", kind |-> "tcp", callers |-> 2, sends |-> 0, sweeps |-> 0],
     [role |-> "server", kind |-> "quic", callers |-> 1, sends |-> 1, sweeps |-> 0],
     [role |-> "server", kind |-> "grpc", callers |-> 1, sends |-> 1, sweeps |-> 0]}

\* Users and workers are interchangeable; tunnels too, none is named.
Interchangeable == Permutations(Tunnels) \cup Permutations(Users) \cup Permutations(Workers)

-----------------------------------------------------------------------------
\* The parts that do not run start in one way.
MCInit ==
    /\ TransportInit
    /\ part # "pool" => side = CHOOSE s \in Sides : TRUE
    /\ part # "channel" => binding = CHOOSE b \in Bindings : TRUE

MCSpec == MCInit /\ [][TransportNext]_allVars
=============================================================================
