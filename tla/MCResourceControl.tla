------------------------- MODULE MCResourceControl -------------------------
(***************************************************************************)
(* Small instances of ResourceControl: two connectors that publish the     *)
(* same service, the first under two instance_ids, and the second assigns  *)
(* a route to another service by the same entrance.                        *)
(***************************************************************************)
EXTENDS ResourceControl, TLC

CONSTANTS a1, a2, s1, s2, n1, n2, i1, i2, i3, r1

Each     == [s \in Sessions |-> IF s = s1 THEN a1 ELSE a2]
Own      == [i \in Instances |-> IF i = i2 THEN {a2} ELSE {a1}]
Exposed  == [n \in Names |-> [match |-> "m", priority |-> 0]]
ToName   == [r \in RouteIDs |-> [match |-> "m", priority |-> 0, name |-> n2]]

Mixed    == [s \in Sessions |-> IF s = s1 THEN {"publish", "unpublish", "health"}
                               ELSE {"publish", "assign"}]
Bounds   == [a \in Connectors |-> IF a = a1 THEN 2 ELSE 1]
=============================================================================
