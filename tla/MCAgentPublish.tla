---- MODULE MCAgentPublish ----
(* A service registered twice, with different contents; two services        *)
(* registered at a time; one registered and removed; one that an earlier    *)
(* process of the agent had published.                                      *)
EXTENDS AgentPublish
CONSTANTS a1, a2, b1, r1
MCSubject == [u \in Users |-> IF u = b1 THEN 2 ELSE 1]
Nothing == [s \in Services |-> 0]
MCScenarios == {[calls |-> {a1, a2}, left |-> Nothing],
                [calls |-> {a1, b1}, left |-> Nothing],
                [calls |-> {a1, r1}, left |-> Nothing],
                [calls |-> {a1},     left |-> [s \in Services |-> IF s = 1 THEN 2 ELSE 0]]}
====
