-------------------------- MODULE AgentTunnelPool --------------------------
(***************************************************************************)
(* The agent's pool of data-plane tunnels: the registry, the manager that  *)
(* keeps it filled and trimmed, the TTL reaper, the producer, and the      *)
(* traffic workers that serve one tunnel each                              *)
(* (agent-core/runtime/agent/tunnel/*.go, app/data_plane_runtime.go).      *)
(*                                                                         *)
(* Three locks matter.  Every registry method holds the registry's mutex:  *)
(* one atomic step.  pendingTargetIdle and suspendRefill are read and      *)
(* written under stateMutex: one atomic step each time.  reconcileMutex is *)
(* held through a whole ReconcileNow or HandleSessionState, which call the *)
(* registry many times: these are the jobs below, and at most one runs.    *)
(* Workers, the acceptor loop and refill requests take no part in it and   *)
(* interleave with every step of a job.                                    *)
(*                                                                         *)
(* Opening and reserved records live only inside one registry call here    *)
(* (TryAddOpenedAsIdle, ActivateIdleByID), and nothing in the agent calls  *)
(* AcquireIdle or MarkActive.  MarkBrokenAndRemove is only the fallback of *)
(* a failed close; whatever makes the close fail (the record is closing,   *)
(* closed or gone) makes it fail too, so it never changes anything.        *)
(* Tunnel IDs are fresh in the code; a name is used again here only once   *)
(* nothing mentions it.                                                    *)
(***************************************************************************)
EXTENDS Integers, Sequences, FiniteSets

CONSTANTS
    Tunnels,            \* tunnel IDs
    MinIdle, MaxIdle,   \* ManagerConfig
    NoTunnel            \* model value: no tunnel

\* ManagerConfig.NormalizeAndValidate.
ASSUME ConfigAssumption ==
    /\ MinIdle \in Nat
    /\ MaxIdle \in Nat \ {0}
    /\ MinIdle <= MaxIdle

ASSUME TunnelsAssumption == IsFiniteSet(Tunnels) /\ NoTunnel \notin Tunnels

VARIABLES
    tstate,     \* state of the record of each tunnel; "none": no record
    idleOrder,  \* Registry.idleOrder
    conn,       \* the connection of each tunnel; "lost": only the peer is gone
    opened,     \* tunnels the producer has opened and not handed over yet
    pending,    \* Manager.pendingTargetIdle
    suspend,    \* Manager.suspendRefill
    job,        \* what the holder of reconcileMutex is doing
    step,       \* where it is in closing the victim
    todo,       \* tunnels its loop still has to look at
    victim,     \* the tunnel it is closing
    count,      \* an idle count it keeps: the excess, the target, the jobs left
    worker,     \* where the traffic worker of each tunnel is; "none": no mark
    seen        \* the acceptor loop's snapshot: idle tunnels to visit

poolVars == <<tstate, idleOrder>>
wantVars == <<pending, suspend>>
jobVars  == <<job, step, todo, victim, count>>
vars == <<tstate, idleOrder, conn, opened, pending, suspend, job,
          step, todo, victim, count, worker, seen>>

Jobs == {"free", "sweep", "trimList", "trim", "target", "measure",
         "produce", "clear", "drainList", "drain"}
Steps == {"pick", "look", "mark", "shut", "retire"}
WorkerSteps == {"none", "wait", "consume", "handle", "cleanup", "shut", "retire", "refill"}

Idle == {t \in Tunnels : tstate[t] = "idle"}
IdleCount == Cardinality(Idle)

TypeOK ==
    /\ tstate  \in [Tunnels -> {"none", "idle", "active", "closing"}]
    /\ conn    \in [Tunnels -> {"up", "lost", "closed"}]
    /\ opened  \in SUBSET Tunnels
    /\ pending \in 0..MaxIdle
    /\ suspend \in BOOLEAN
    /\ job     \in Jobs
    /\ step    \in Steps
    /\ todo    \in SUBSET Tunnels
    /\ victim  \in Tunnels \cup {NoTunnel}
    /\ count   \in Nat
    /\ worker  \in [Tunnels -> WorkerSteps]
    /\ seen    \in SUBSET Tunnels

\* The manager is built with a startup target, and Start reconciles at once.
Init ==
    /\ tstate = [t \in Tunnels |-> "none"] /\ idleOrder = <<>>
    /\ conn = [t \in Tunnels |-> "closed"] /\ opened = {}
    /\ pending = MinIdle /\ suspend = FALSE
    /\ job = "free" /\ step = "pick" /\ todo = {} /\ victim = NoTunnel /\ count = 0
    /\ worker = [t \in Tunnels |-> "none"] /\ seen = {}

(***************************************************************************)
(* The registry.                                                           *)
(***************************************************************************)
\* removeIdleOrderLocked.
Unqueued(t) == SelectSeq(idleOrder, LAMBDA u : u # t)

\* A record leaves idle (or another state it may be closed from) for target.
LeaveIdle(t, target) ==
    /\ tstate'    = [tstate EXCEPT ![t] = target]
    /\ idleOrder' = Unqueued(t)

EnterIdle(t) ==
    /\ tstate'    = [tstate EXCEPT ![t] = "idle"]
    /\ idleOrder' = Append(idleOrder, t)

\* (A mutant: a record can be closed twice.)
CanMarkClosingAgain(t) == tstate[t] \in {"idle", "active", "closing"}

\* isValidTransition to closing: an active record may be closed too.
CanMarkClosing(t) == tstate[t] \in {"idle", "active"}

MarkClosing(t) == CanMarkClosing(t) /\ LeaveIdle(t, "closing")

\* MarkClosed and RemoveClosedOnly.  Between the two the record is closed, and
\* every other call refuses it as it refuses a closing one: one step.
Retire(t) ==
    /\ tstate'    = [tstate EXCEPT ![t] = "none"]
    /\ idleOrder' = Unqueued(t)

\* RuntimeTunnel.Close.
CloseConn(t) == conn' = [conn EXCEPT ![t] = "closed"]

(***************************************************************************)
(* Refill requests: RequestRefill(target), from a worker, a close or the   *)
(* Bridge.                                                                 *)
(***************************************************************************)
Larger(a, b)  == IF a > b THEN a ELSE b
Smaller(a, b) == IF a < b THEN a ELSE b
Clamp(n) == Smaller(Larger(n, MinIdle), MaxIdle)

RequestRefill(n) ==
    IF ~suspend /\ Clamp(n) > pending
      THEN /\ pending' = Clamp(n)
           /\ UNCHANGED suspend
      ELSE UNCHANGED wantVars

\* RefillHandler.Handle: a request for more idle tunnels than there are.
Handle(n) == n > IdleCount /\ RequestRefill(n)

\* handleTunnelRefillRequestEnvelope: the Bridge's message has it handled, unless it
\* cannot be read or is of another session; nothing else comes of it.
BridgeRequest(n) ==
    /\ Handle(n)
    /\ UNCHANGED <<poolVars, conn, opened, jobVars, worker, seen>>

(***************************************************************************)
(* ReconcileNow.                                                           *)
(***************************************************************************)
\* The ticker may start a reconcile at any time; the signal of a refill request
\* only makes it sooner.  The sweep starts with the expired idle
\* tunnels, which depend on the clock: any of them may be.
Reconcile ==
    /\ job = "free"
    /\ \E expired \in SUBSET Idle : todo' = expired
    /\ job' = "sweep"
    /\ UNCHANGED <<poolVars, conn, opened, wantVars, step, victim,
                   count, worker, seen>>

\* The loops over snapshots: the sweep, the trim and the drain of a session.
Pick(t) ==
    /\ step = "pick" /\ t \in todo
    /\ job \in {"sweep", "trim", "drain"}
    /\ victim' = t
    /\ todo' = todo \ {t}
    /\ step' = IF job = "sweep" THEN "look" ELSE "mark"
    /\ UNCHANGED <<poolVars, conn, opened, wantVars, job, count, worker, seen>>

\* The reaper looks at the record again before it marks it.
Look ==
    /\ step = "look"
    /\ IF tstate[victim] = "idle"
         THEN step' = "mark" /\ UNCHANGED victim
         ELSE step' = "pick" /\ victim' = NoTunnel
    /\ UNCHANGED <<poolVars, conn, opened, wantVars, job, todo, count, worker, seen>>

\* A refused close ends the whole reconcile when it is the trim's.
Mark ==
    /\ step = "mark"
    /\ IF CanMarkClosing(victim)
         THEN /\ MarkClosing(victim)
              /\ step' = "shut"
              /\ UNCHANGED <<job, todo, victim>>
         ELSE /\ step' = "pick" /\ victim' = NoTunnel
              /\ IF job = "trim" THEN job' = "free" /\ todo' = {}
                                 ELSE UNCHANGED <<job, todo>>
              /\ UNCHANGED poolVars
    /\ UNCHANGED <<conn, opened, wantVars, count, worker, seen>>

Shut ==
    /\ step = "shut"
    /\ CloseConn(victim)
    /\ step' = "retire"
    /\ UNCHANGED <<poolVars, opened, wantVars, job, todo, victim, count, worker, seen>>

\* An error of Close ends the trim too, after the record is removed.
RetireVictim ==
    /\ step = "retire"
    /\ Retire(victim)
    /\ step' = "pick" /\ victim' = NoTunnel
    /\ \/ UNCHANGED <<job, todo>>
       \/ job = "trim" /\ job' = "free" /\ todo' = {}
    /\ UNCHANGED <<conn, opened, wantVars, count, worker, seen>>

\* A loop is over.
LoopOver(loop) == job = loop /\ step = "pick" /\ todo = {}

EndDrain ==
    /\ LoopOver("drain")
    /\ job' = "free"
    /\ UNCHANGED <<poolVars, conn, opened, wantVars, step, todo, victim, count, worker, seen>>

\* trimExcessIdle: how many are too many.
Excess ==
    /\ LoopOver("sweep")
    /\ IF IdleCount > MaxIdle
         THEN job' = "trimList" /\ count' = IdleCount - MaxIdle
         ELSE job' = "target" /\ UNCHANGED count
    /\ UNCHANGED <<poolVars, conn, opened, wantVars, step, todo, victim, worker, seen>>

\* IdleIDs(count): the first of the order.
TrimList ==
    /\ job = "trimList"
    /\ todo' = {idleOrder[k] : k \in 1..Smaller(count, Len(idleOrder))} \cap Idle
    /\ job' = "trim" /\ count' = 0
    /\ UNCHANGED <<poolVars, conn, opened, wantVars, step, victim, worker, seen>>

\* (A mutant: without a request there is no target.)
TargetIdleAsked == IF suspend THEN 0 ELSE pending

\* computeTargetIdle.
TargetIdle == IF suspend THEN 0 ELSE Clamp(pending)

ComputeTarget ==
    /\ job = "target" \/ LoopOver("trim")
    /\ count' = TargetIdle
    /\ job' = "measure"
    /\ UNCHANGED <<poolVars, conn, opened, wantVars, step, todo, victim, worker, seen>>

Measure ==
    /\ job = "measure"
    /\ IF IdleCount >= count
         THEN job' = "clear" /\ count' = IdleCount
         ELSE job' = "produce" /\ count' = count - IdleCount
    /\ UNCHANGED <<poolVars, conn, opened, wantVars, step, todo, victim, worker, seen>>

\* Producer.OpenBatch: count jobs, each opens a tunnel or fails.
Unused(t) ==
    /\ conn[t] = "closed" /\ tstate[t] = "none" /\ worker[t] = "none"
    /\ t \notin todo \cup seen /\ t # victim

Open(t) ==
    /\ job = "produce" /\ count > 0 /\ Unused(t)
    /\ conn' = [conn EXCEPT ![t] = "up"]
    /\ opened' = opened \cup {t}
    /\ count' = count - 1
    /\ UNCHANGED <<poolVars, wantVars, job, step, todo, victim, worker, seen>>

OpenFails ==
    /\ job = "produce" /\ count > 0
    /\ count' = count - 1
    /\ UNCHANGED <<poolVars, conn, opened, wantVars, job, step, todo, victim, worker, seen>>

\* TryAddOpenedAsIdle, and Close for a tunnel there is no room for.
HandOver(t) ==
    /\ t \in opened
    /\ opened' = opened \ {t}
    /\ IF IdleCount < MaxIdle
         THEN EnterIdle(t) /\ UNCHANGED conn
         ELSE CloseConn(t) /\ UNCHANGED poolVars
    /\ UNCHANGED <<wantVars, jobVars, worker, seen>>

EndBatch ==
    /\ job = "produce" /\ count = 0 /\ opened = {}
    /\ count' = IdleCount
    /\ job' = "clear"
    /\ UNCHANGED <<poolVars, conn, opened, wantVars, step, todo, victim, worker, seen>>

\* clearPendingIfSatisfied, with the count of an earlier step.
ClearPending ==
    /\ job = "clear"
    /\ pending' = IF count >= pending THEN 0 ELSE pending
    /\ count' = 0
    /\ job' = "free"
    /\ UNCHANGED <<poolVars, conn, opened, suspend, step, todo, victim,
                   worker, seen>>

(***************************************************************************)
(* HandleSessionState.                                                     *)
(***************************************************************************)
\* DRAINING or STALE.
SessionDown ==
    /\ job = "free"
    /\ suspend' = TRUE /\ pending' = 0
    /\ job' = "drainList"
    /\ UNCHANGED <<poolVars, conn, opened, step, todo, victim, count, worker, seen>>

\* (A mutant: the drain lists the idle tunnels only.)
DrainListIdle ==
    /\ job = "drainList"
    /\ todo' = Idle
    /\ job' = "drain"
    /\ UNCHANGED <<poolVars, conn, opened, wantVars, step, victim, count, worker, seen>>

\* recycleAllSessionTunnelsWithoutRefill: the closing ones are left to whoever
\* is closing them.
DrainList ==
    /\ job = "drainList"
    /\ todo' = {t \in Tunnels : tstate[t] \in {"idle", "active"}}
    /\ job' = "drain"
    /\ UNCHANGED <<poolVars, conn, opened, wantVars, step, victim, count, worker, seen>>

SessionActive ==
    /\ job = "free"
    /\ suspend' = FALSE
    /\ pending' = Larger(pending, MinIdle)
    /\ UNCHANGED <<poolVars, conn, opened, jobVars, worker, seen>>

(***************************************************************************)
(* The acceptor loop and the traffic workers.                              *)
(***************************************************************************)
\* reconcileTrafficAcceptorWorkers: List, then a worker for each idle tunnel
\* that has none.
ListIdle ==
    /\ seen = {} /\ Idle # {}
    /\ seen' = Idle
    /\ UNCHANGED <<poolVars, conn, opened, wantVars, jobVars, worker>>

StartWorker(t) ==
    /\ t \in seen
    /\ seen' = seen \ {t}
    /\ worker' = IF worker[t] = "none" THEN [worker EXCEPT ![t] = "wait"] ELSE worker
    /\ UNCHANGED <<poolVars, conn, opened, wantVars, jobVars>>

At(t, s, next) ==
    /\ worker[t] = s
    /\ worker' = [worker EXCEPT ![t] = next]

\* WaitTrafficOpen returns an error.
ReadFails(t) ==
    /\ At(t, "wait", "cleanup")
    /\ UNCHANGED <<poolVars, conn, opened, wantVars, jobVars, seen>>

CanActivate(t) == tstate[t] = "idle"

\* WaitTrafficOpen returns an open, and ActivateIdle makes its registry call, when
\* the tunnel may have been closed meanwhile.  (The peer may be lost meanwhile too:
\* only the reads of this worker see it, so that loss comes later here.)
Activate(t) ==
    /\ conn[t] # "lost"
    /\ \/ /\ CanActivate(t)
          /\ At(t, "wait", "consume")
          /\ LeaveIdle(t, "active")
       \/ /\ tstate[t] = "none"
          /\ At(t, "wait", "none")
          /\ UNCHANGED poolVars
       \/ /\ tstate[t] # "none" /\ ~CanActivate(t)
          /\ At(t, "wait", "cleanup")
          /\ UNCHANGED poolVars
    /\ UNCHANGED <<conn, opened, wantVars, jobVars, seen>>

Consume(t) ==
    /\ At(t, "consume", "handle")
    /\ RequestRefill(MinIdle)
    /\ UNCHANGED <<poolVars, conn, opened, jobVars, seen>>

\* (A mutant: the worker of a failed traffic just ends.)
TrafficFailsExit(t) ==
    /\ At(t, "handle", "none")
    /\ UNCHANGED <<poolVars, conn, opened, wantVars, jobVars, seen>>

\* Opener.Handle or the recycle phase fails, or the recycle is final.
TrafficFails(t) ==
    /\ At(t, "handle", "cleanup")
    /\ UNCHANGED <<poolVars, conn, opened, wantVars, jobVars, seen>>

\* Opener.Handle, the recycle phase up to an accepted RecycleAck, and
\* RecycleToIdle, which does not look at MaxIdle.
RecycleToIdle(t) ==
    /\ IF tstate[t] = "active"
         THEN EnterIdle(t) /\ At(t, "handle", "wait")
         ELSE UNCHANGED poolVars /\ At(t, "handle", "cleanup")
    /\ UNCHANGED <<conn, opened, wantVars, jobVars, seen>>

\* (A mutant: a worker whose close is refused reads on.)
CleanupReadsOn(t) ==
    /\ IF CanMarkClosing(t)
         THEN MarkClosing(t) /\ At(t, "cleanup", "shut")
         ELSE UNCHANGED poolVars /\ At(t, "cleanup", "wait")
    /\ UNCHANGED <<conn, opened, wantVars, jobVars, seen>>

\* cleanupTunnelAfterTraffic: close and remove the record, unless somebody else
\* is doing it.
Cleanup(t) ==
    /\ IF CanMarkClosing(t)
         THEN MarkClosing(t) /\ At(t, "cleanup", "shut")
         ELSE UNCHANGED poolVars /\ At(t, "cleanup", "none")
    /\ UNCHANGED <<conn, opened, wantVars, jobVars, seen>>

CleanupShut(t) ==
    /\ At(t, "shut", "retire")
    /\ CloseConn(t)
    /\ UNCHANGED <<poolVars, opened, wantVars, jobVars, seen>>

CleanupRetire(t) ==
    /\ At(t, "retire", "refill")
    /\ Retire(t)
    /\ UNCHANGED <<conn, opened, wantVars, jobVars, seen>>

CleanupRefill(t) ==
    /\ At(t, "refill", "none")
    /\ RequestRefill(MinIdle)
    /\ UNCHANGED <<poolVars, conn, opened, jobVars, seen>>

\* The Bridge, or the network, drops a connection.
PeerLost(t) ==
    /\ conn[t] = "up"
    /\ conn' = [conn EXCEPT ![t] = "lost"]
    /\ UNCHANGED <<poolVars, opened, wantVars, jobVars, worker, seen>>

-----------------------------------------------------------------------------
Loop == Look \/ Mark \/ Shut \/ RetireVictim \/ EndDrain \/ \E t \in Tunnels : Pick(t)

Refilling == Excess \/ TrimList \/ ComputeTarget \/ Measure \/ EndBatch \/ ClearPending

WorkerStep(t) ==
    \/ Consume(t) \/ RecycleToIdle(t) \/ TrafficFails(t)
    \/ Cleanup(t) \/ CleanupShut(t) \/ CleanupRetire(t) \/ CleanupRefill(t)

Next ==
    \/ Reconcile \/ Loop \/ Refilling \/ OpenFails
    \/ SessionDown \/ DrainList \/ SessionActive
    \/ ListIdle
    \/ \E n \in 1..MaxIdle : BridgeRequest(n)
    \/ \E t \in Tunnels :
         \/ Open(t) \/ HandOver(t) \/ StartWorker(t) \/ WorkerStep(t)
         \/ ReadFails(t) \/ Activate(t)
         \/ PeerLost(t)

Spec == Init /\ [][Next]_vars

(***************************************************************************)
(* Fairness.  The manager's loop has a ticker, the acceptor loop another;  *)
(* whoever holds reconcileMutex goes on, and the mutex is fair to waiters, *)
(* so that session changes cannot keep a reconcile out for ever.  A read   *)
(* on a dead connection returns with an error, but the Bridge may never    *)
(* send an open on a good one.  A traffic ends at some time: an instance   *)
(* has only so many tunnel names.  Opening a tunnel succeeds if it is      *)
(* tried again and again: the Bridge can be reached.                       *)
(***************************************************************************)
Job == Loop \/ Refilling \/ DrainList \/ OpenFails \/ \E t \in Tunnels : HandOver(t)
Acceptor == ListIdle \/ \E t \in Tunnels : StartWorker(t)

FairSpec ==
    /\ Spec
    /\ SF_vars(Reconcile) /\ WF_vars(Job) /\ WF_vars(Acceptor)
    /\ SF_vars(\E t \in Tunnels : Open(t))
    /\ \A t \in Tunnels : WF_vars(WorkerStep(t) \/ (conn[t] # "up" /\ ReadFails(t)))

-----------------------------------------------------------------------------
(***************************************************************************)
(* Safety.                                                                 *)
(***************************************************************************)
\* An active tunnel has its worker on it, past the open and not yet past the
\* recycle: nobody else activates, recycles or forgets it.
ActiveIsServed ==
    \A t \in Tunnels :
        tstate[t] = "active" => worker[t] \in {"consume", "handle", "cleanup"}

\* A connection is always somebody's: the producer's, a record's, or that of
\* whoever is closing the record; none is left open behind a removed record.
NoLostConn ==
    \A t \in Tunnels :
        conn[t] \in {"up", "lost"} => tstate[t] # "none" \/ t \in opened

\* A closing record has exactly one goroutine that will remove it.
OneCloser ==
    \A t \in Tunnels :
        LET byJob    == victim = t /\ step \in {"shut", "retire"}
            byWorker == worker[t] \in {"shut", "retire"}
        IN  /\ tstate[t] = "closing" => (byJob # byWorker)
            /\ byJob \/ byWorker => tstate[t] = "closing"

\* A tunnel that goes is closed once: by exactly one of those who could, and no later
\* than its record goes.
ClosedOnce == OneCloser /\ NoLostConn

\* Once the handling of DRAINING or STALE is over, and until ACTIVE, the pool
\* has nothing a request could run on, though workers go on and the Bridge and
\* the closes go on asking for refills.
DrainedIsEmpty ==
    suspend /\ job \notin {"drainList", "drain"} =>
        \A t \in Tunnels : tstate[t] \in {"none", "closing"}

(***************************************************************************)
(* Liveness.                                                               *)
(***************************************************************************)
\* A pool that may refill gets back between its bounds: requests, failed opens,
\* lost peers and recycled tunnels beyond MaxIdle do not keep it out of them.
PoolSettles == []<>(suspend \/ IdleCount \in MinIdle..MaxIdle)

\* A tunnel without a working connection goes, its record and its worker: it is
\* not offered for ever, and no worker outlives its record.
DeadTunnelGoes ==
    \A t \in Tunnels :
        []<>(conn[t] = "up" \/ (tstate[t] = "none" /\ worker[t] = "none"))

=============================================================================
