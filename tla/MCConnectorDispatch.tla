------------------------ MODULE MCConnectorDispatch ------------------------
(***************************************************************************)
(* A small instance of ConnectorDispatch: two connectors, of which the     *)
(* second is asked by d2.                                                  *)
(***************************************************************************)
EXTENDS ConnectorDispatch

CONSTANTS c1, c2, s1, d2

\* c1 has session s1, c2 any other; d2 dispatches to c2, the others to c1.
S1OnC1 == [s \in Sessions |-> IF s = s1 THEN c1 ELSE c2]
D2ToC2 == [d \in Dispatches |-> IF d = d2 THEN c2 ELSE c1]
=============================================================================
