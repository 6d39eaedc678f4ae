---------------------------- MODULE SerialTunnel ----------------------------
(***************************************************************************)
(* What a tunnel promises to the traffics that share it: they use it one   *)
(* after the other.  A traffic is opened only when the agent is done with  *)
(* the one before it, it is served at most once, and no more than MaxReuse *)
(* traffics are opened.  The traffics of a tunnel are numbered from 1.     *)
(***************************************************************************)
EXTENDS Naturals

CONSTANT MaxReuse       \* how many traffics one tunnel may carry

VARIABLES opened,       \* the last traffic the Bridge opened
          served,       \* the last traffic the agent began to serve
          ended         \* the last traffic the agent is done with

vars == <<opened, served, ended>>

Init == opened = 0 /\ served = 0 /\ ended = 0

\* The next traffic is opened.
Open == /\ ended = opened
        /\ opened < MaxReuse
        /\ opened' = opened + 1
        /\ UNCHANGED <<served, ended>>

\* The agent takes up the traffic that is open.
Serve == /\ served < opened
         /\ served' = opened
         /\ UNCHANGED <<opened, ended>>

\* The agent is done with the traffic it serves.
End == /\ ended < served
       /\ ended' = served
       /\ UNCHANGED <<opened, served>>

Next == Open \/ Serve \/ End

Spec == Init /\ [][Next]_vars
=============================================================================
