---------------------------- MODULE TunnelLease ----------------------------
(***************************************************************************)
(* What the Bridge promises its requests about tunnels, without registry,  *)
(* queue, watcher or session: a tunnel is offered once, lent to one        *)
(* request at a time, lent again only after that request gave it back, and *)
(* at most MaxReuse times in all; once retired it never comes back.        *)
(***************************************************************************)
EXTENDS Naturals

CONSTANTS
    Tunnels,
    Dispatches,
    MaxReuse

VARIABLES
    idle,   \* tunnels on offer
    lent,   \* the tunnels each request has
    gone,   \* tunnels retired
    rounds  \* how often each was given back

vars == <<idle, lent, gone, rounds>>

IsLent(t) == \E d \in Dispatches : t \in lent[d]

Init ==
    /\ idle   = {}
    /\ lent   = [d \in Dispatches |-> {}]
    /\ gone   = {}
    /\ rounds = [t \in Tunnels |-> 0]

Offer(t) ==
    /\ t \notin idle \cup gone /\ ~IsLent(t)
    /\ idle' = idle \cup {t}
    /\ UNCHANGED <<lent, gone, rounds>>

Lend(t, d) ==
    /\ t \in idle /\ ~IsLent(t) /\ lent[d] = {}
    /\ idle' = idle \ {t}
    /\ lent' = [lent EXCEPT ![d] = {t}]
    /\ UNCHANGED <<gone, rounds>>

GiveBack(t, d) ==
    /\ lent[d] = {t}
    /\ rounds[t] + 1 < MaxReuse
    /\ idle'   = idle \cup {t}
    /\ lent'   = [lent EXCEPT ![d] = {}]
    /\ rounds' = [rounds EXCEPT ![t] = @ + 1]
    /\ UNCHANGED gone

\* Several tunnels may go at once: a purge takes all those of a session.
Retire(ts) ==
    /\ \A t \in ts : t \in idle \/ IsLent(t)
    /\ idle' = idle \ ts
    /\ lent' = [d \in Dispatches |-> lent[d] \ ts]
    /\ gone' = gone \cup ts
    /\ UNCHANGED rounds

Next ==
    \/ \E t \in Tunnels : Offer(t)
    \/ \E t \in Tunnels, d \in Dispatches : Lend(t, d) \/ GiveBack(t, d)
    \/ \E ts \in SUBSET Tunnels : Retire(ts)

Spec == Init /\ [][Next]_vars
=============================================================================
