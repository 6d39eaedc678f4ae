-------------------------- MODULE MCBridgeSessions --------------------------
(***************************************************************************)
(* Small instances of BridgeSessions: every session is of one connector,   *)
(* since sessions of different connectors share nothing here.              *)
(***************************************************************************)
EXTENDS BridgeSessions, TLC

CONSTANT c1

OfC1 == [s \in Sessions |-> c1]

SameSessions == Permutations(Sessions)
=============================================================================
