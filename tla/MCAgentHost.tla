------------------------------ MODULE MCAgentHost ------------------------------
\* A small instance of AgentDesktop: five process identifiers, and two clients that are
\* started with the agent's secret beside one with that of another.
EXTENDS AgentDesktop

MCClients == {"c1", "c2", "stranger"}
MCKnown   == {"c1", "c2"}
=============================================================================
