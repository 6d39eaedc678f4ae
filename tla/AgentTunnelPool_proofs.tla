----------------------- MODULE AgentTunnelPool_proofs -----------------------
(***************************************************************************)
(* Proofs about AgentTunnelPool, for any finite set of tunnels and any     *)
(* MinIdle <= MaxIdle.                                                     *)
(***************************************************************************)
EXTENDS AgentTunnelPool, FiniteSetTheorems, TLAPS

(***************************************************************************)
(* Type correctness.                                                       *)
(***************************************************************************)
\* The number of idle tunnels is a number.
LEMMA IdleCountNat == IdleCount \in Nat
  <1>1. IsFiniteSet(Idle)
        BY TunnelsAssumption, FS_Subset DEF Idle
  <1> QED BY <1>1, FS_CardinalityType DEF IdleCount

\* A target is within the bounds of the configuration.
LEMMA ClampType == \A n \in Nat : Clamp(n) \in 0..MaxIdle
  BY ConfigAssumption DEF Clamp, Larger, Smaller

\* A refill request keeps the target in range.
LEMMA RequestTypes ==
    ASSUME NEW n \in Nat, RequestRefill(n), pending \in 0..MaxIdle, suspend \in BOOLEAN
    PROVE  pending' \in 0..MaxIdle /\ suspend' = suspend
  BY ClampType DEF RequestRefill, wantVars

\* Every step keeps the types.
LEMMA TypeStep == TypeOK /\ [Next]_vars => TypeOK'
  <1> SUFFICES ASSUME TypeOK, [Next]_vars
               PROVE  TypeOK'
      OBVIOUS
  <1> USE ConfigAssumption, TunnelsAssumption
      DEF TypeOK, poolVars, wantVars, jobVars, Jobs, Steps, WorkerSteps, Idle
  <1>1. CASE UNCHANGED vars
        BY <1>1 DEF vars
  <1>2. CASE Reconcile
        BY <1>2 DEF Reconcile
  <1>3. CASE Look
        BY <1>3 DEF Look
  <1>4. CASE Mark
        BY <1>4 DEF Mark, MarkClosing, LeaveIdle
  <1>5. CASE Shut
        BY <1>5 DEF Shut, CloseConn
  <1>6. CASE RetireVictim
        BY <1>6 DEF RetireVictim, Retire
  <1>7. CASE EndDrain
        BY <1>7 DEF EndDrain, LoopOver
  <1>8. CASE Excess
        BY <1>8, IdleCountNat DEF Excess, LoopOver
  <1>9. CASE TrimList
        BY <1>9 DEF TrimList
  <1>10. CASE ComputeTarget
        BY <1>10, ClampType DEF ComputeTarget, TargetIdle, LoopOver
  <1>11. CASE Measure
        BY <1>11, IdleCountNat DEF Measure
  <1>12. CASE EndBatch
        BY <1>12, IdleCountNat DEF EndBatch
  <1>13. CASE ClearPending
        BY <1>13 DEF ClearPending
  <1>14. CASE OpenFails
        BY <1>14 DEF OpenFails
  <1>15. CASE SessionDown
        BY <1>15 DEF SessionDown
  <1>16. CASE DrainList
        BY <1>16 DEF DrainList
  <1>17. CASE SessionActive
    <2>1. pending' \in 0..MaxIdle
          BY <1>17 DEF SessionActive, Larger
    <2>2. suspend' \in BOOLEAN
          BY <1>17, Zenon DEF SessionActive
    <2> QED BY <1>17, <2>1, <2>2 DEF SessionActive
  <1>18. CASE ListIdle
        BY <1>18 DEF ListIdle
  <1>19. ASSUME NEW n \in 1..MaxIdle, BridgeRequest(n)
        PROVE  TypeOK'
        BY <1>19, RequestTypes DEF BridgeRequest, Handle
  <1>20. ASSUME NEW t \in Tunnels, Pick(t)
        PROVE  TypeOK'
        BY <1>20 DEF Pick
  <1>21. ASSUME NEW t \in Tunnels, Open(t)
        PROVE  TypeOK'
        BY <1>21 DEF Open, Unused
  <1>22. ASSUME NEW t \in Tunnels, HandOver(t)
        PROVE  TypeOK'
        BY <1>22 DEF HandOver, EnterIdle, CloseConn
  <1>23. ASSUME NEW t \in Tunnels, StartWorker(t)
        PROVE  TypeOK'
        BY <1>23 DEF StartWorker
  <1>24. ASSUME NEW t \in Tunnels, Activate(t)
        PROVE  TypeOK'
        BY <1>24 DEF Activate, At, LeaveIdle, CanActivate
  <1>25. ASSUME NEW t \in Tunnels, Consume(t)
        PROVE  TypeOK'
        BY <1>25, RequestTypes DEF Consume, At, RequestRefill
  <1>26. ASSUME NEW t \in Tunnels, RecycleToIdle(t)
        PROVE  TypeOK'
        BY <1>26 DEF RecycleToIdle, At, EnterIdle
  <1>27. ASSUME NEW t \in Tunnels, Cleanup(t)
        PROVE  TypeOK'
        BY <1>27 DEF Cleanup, At, MarkClosing, LeaveIdle
  <1>28. ASSUME NEW t \in Tunnels, CleanupShut(t)
        PROVE  TypeOK'
        BY <1>28 DEF CleanupShut, At, CloseConn
  <1>29. ASSUME NEW t \in Tunnels, CleanupRetire(t)
        PROVE  TypeOK'
        BY <1>29 DEF CleanupRetire, At, Retire
  <1>30. ASSUME NEW t \in Tunnels, CleanupRefill(t)
        PROVE  TypeOK'
        BY <1>30, RequestTypes DEF CleanupRefill, At, RequestRefill
  <1>31. ASSUME NEW t \in Tunnels, ReadFails(t)
        PROVE  TypeOK'
        BY <1>31 DEF ReadFails, At
  <1>32. ASSUME NEW t \in Tunnels, TrafficFails(t)
        PROVE  TypeOK'
        BY <1>32 DEF TrafficFails, At
  <1>33. ASSUME NEW t \in Tunnels, PeerLost(t)
        PROVE  TypeOK'
        BY <1>33 DEF PeerLost
  <1> QED BY <1>1, <1>2, <1>3, <1>4, <1>5, <1>6, <1>7, <1>8, <1>9, <1>10, <1>11, <1>12, <1>13, <1>14, <1>15, <1>16, <1>17, <1>18, <1>19, <1>20, <1>21, <1>22, <1>23, <1>24, <1>25, <1>26, <1>27, <1>28, <1>29, <1>30, <1>31, <1>32, <1>33
           DEF Next, Loop, Refilling, WorkerStep

\* The pool starts well-typed.
LEMMA InitType == Init => TypeOK
  <1> SUFFICES ASSUME Init PROVE TypeOK
      OBVIOUS
  <1>1. pending \in 0..MaxIdle
        BY ConfigAssumption DEF Init
  <1>2. suspend \in BOOLEAN
        BY Zenon DEF Init
  <1>3. tstate \in [Tunnels -> {"none", "idle", "active", "closing"}]
        BY DEF Init
  <1>4. conn \in [Tunnels -> {"up", "lost", "closed"}]
        BY DEF Init
  <1>5. worker \in [Tunnels -> WorkerSteps]
        BY DEF Init, WorkerSteps
  <1> QED BY <1>1, <1>2, <1>3, <1>4, <1>5 DEF Init, TypeOK, Jobs, Steps

\* Every variable but the idle order keeps its type.
THEOREM TypeCorrect == Spec => []TypeOK
  BY InitType, TypeStep, PTL DEF Spec

(***************************************************************************)
(* The inductive invariant.                                                *)
(***************************************************************************)
\* Where a job can be, and what it knows.
JobInv ==
    /\ step # "pick" => victim \in Tunnels /\ job \in {"sweep", "trim", "drain"}
    /\ opened # {} => job = "produce"
    /\ \A t \in opened : tstate[t] = "none"

\* A record is removed after its connection is closed.
ClosedFirst ==
    /\ step = "retire" => conn[victim] = "closed"
    /\ \A t \in Tunnels : worker[t] = "retire" => conn[t] = "closed"

\* A suspended pool opens nothing, and what is left of it is on the drain's list.
DrainInv ==
    suspend =>
        /\ opened = {} /\ job # "produce"
        /\ job = "measure" => count = 0
        /\ job \notin {"drainList", "drain"} =>
              \A t \in Tunnels : tstate[t] \in {"none", "closing"}
        /\ job = "drain" =>
              \A t \in Tunnels :
                  tstate[t] \in {"idle", "active"} => t \in todo \/ (t = victim /\ step = "mark")

IInv == TypeOK /\ JobInv /\ ActiveIsServed /\ OneCloser /\ ClosedFirst /\ NoLostConn /\ DrainInv

\* The jobs.
LEMMA JobStep == IInv /\ [Next]_vars => JobInv'
  <1> SUFFICES ASSUME IInv, [Next]_vars
               PROVE  JobInv'
      OBVIOUS
  <1> USE ConfigAssumption, TunnelsAssumption
      DEF IInv, TypeOK, poolVars, wantVars, jobVars, Jobs, Steps, WorkerSteps, Idle,
          CanMarkClosing, JobInv
  <1>1. CASE UNCHANGED vars
        BY <1>1 DEF vars
  <1>2. CASE Reconcile
        BY <1>2 DEF Reconcile
  <1>3. CASE Look
        BY <1>3 DEF Look
  <1>4. CASE Mark
        BY <1>4 DEF Mark, MarkClosing, LeaveIdle
  <1>5. CASE Shut
        BY <1>5 DEF Shut, CloseConn
  <1>6. CASE RetireVictim
        BY <1>6 DEF RetireVictim, Retire
  <1>7. CASE EndDrain
        BY <1>7 DEF EndDrain, LoopOver
  <1>8. CASE Excess
        BY <1>8, IdleCountNat DEF Excess, LoopOver
  <1>9. CASE TrimList
        BY <1>9 DEF TrimList
  <1>10. CASE ComputeTarget
        BY <1>10, ClampType DEF ComputeTarget, TargetIdle, LoopOver
  <1>11. CASE Measure
        BY <1>11, IdleCountNat DEF Measure
  <1>12. CASE EndBatch
        BY <1>12, IdleCountNat DEF EndBatch
  <1>13. CASE ClearPending
        BY <1>13 DEF ClearPending
  <1>14. CASE OpenFails
        BY <1>14 DEF OpenFails
  <1>15. CASE SessionDown
        BY <1>15 DEF SessionDown
  <1>16. CASE DrainList
        BY <1>16 DEF DrainList
  <1>17. CASE SessionActive
        BY <1>17 DEF SessionActive
  <1>18. CASE ListIdle
        BY <1>18 DEF ListIdle
  <1>19. ASSUME NEW n \in 1..MaxIdle, BridgeRequest(n)
        PROVE  JobInv'
        BY <1>19, RequestTypes DEF BridgeRequest, Handle, RequestRefill
  <1>20. ASSUME NEW t \in Tunnels, Pick(t)
        PROVE  JobInv'
        BY <1>20 DEF Pick
  <1>21. ASSUME NEW t \in Tunnels, Open(t)
        PROVE  JobInv'
        BY <1>21 DEF Open, Unused
  <1>22. ASSUME NEW t \in Tunnels, HandOver(t)
        PROVE  JobInv'
        BY <1>22 DEF HandOver, EnterIdle, CloseConn
  <1>23. ASSUME NEW t \in Tunnels, StartWorker(t)
        PROVE  JobInv'
        BY <1>23 DEF StartWorker
  <1>24. ASSUME NEW t \in Tunnels, Activate(t)
        PROVE  JobInv'
        BY <1>24 DEF Activate, At, LeaveIdle, CanActivate
  <1>25. ASSUME NEW t \in Tunnels, Consume(t)
        PROVE  JobInv'
        BY <1>25, RequestTypes DEF Consume, At, RequestRefill
  <1>26. ASSUME NEW t \in Tunnels, RecycleToIdle(t)
        PROVE  JobInv'
        BY <1>26 DEF RecycleToIdle, At, EnterIdle
  <1>27. ASSUME NEW t \in Tunnels, Cleanup(t)
        PROVE  JobInv'
        BY <1>27 DEF Cleanup, At, MarkClosing, LeaveIdle
  <1>28. ASSUME NEW t \in Tunnels, CleanupShut(t)
        PROVE  JobInv'
        BY <1>28 DEF CleanupShut, At, CloseConn
  <1>29. ASSUME NEW t \in Tunnels, CleanupRetire(t)
        PROVE  JobInv'
        BY <1>29 DEF CleanupRetire, At, Retire
  <1>30. ASSUME NEW t \in Tunnels, CleanupRefill(t)
        PROVE  JobInv'
        BY <1>30, RequestTypes DEF CleanupRefill, At, RequestRefill
  <1>31. ASSUME NEW t \in Tunnels, ReadFails(t)
        PROVE  JobInv'
        BY <1>31 DEF ReadFails, At
  <1>32. ASSUME NEW t \in Tunnels, TrafficFails(t)
        PROVE  JobInv'
        BY <1>32 DEF TrafficFails, At
  <1>33. ASSUME NEW t \in Tunnels, PeerLost(t)
        PROVE  JobInv'
        BY <1>33 DEF PeerLost
  <1> QED BY <1>1, <1>2, <1>3, <1>4, <1>5, <1>6, <1>7, <1>8, <1>9, <1>10, <1>11, <1>12, <1>13, <1>14, <1>15, <1>16, <1>17, <1>18, <1>19, <1>20, <1>21, <1>22, <1>23, <1>24, <1>25, <1>26, <1>27, <1>28, <1>29, <1>30, <1>31, <1>32, <1>33
           DEF Next, Loop, Refilling, WorkerStep

\* Only its worker changes what an active tunnel is in.
LEMMA ServedStep == IInv /\ [Next]_vars => ActiveIsServed'
  <1> SUFFICES ASSUME IInv, [Next]_vars
               PROVE  ActiveIsServed'
      OBVIOUS
  <1> USE ConfigAssumption, TunnelsAssumption
      DEF IInv, TypeOK, poolVars, wantVars, jobVars, Jobs, Steps, WorkerSteps, Idle,
          CanMarkClosing, ActiveIsServed, JobInv
  <1>1. CASE UNCHANGED vars
        BY <1>1 DEF vars
  <1>2. CASE Reconcile
        BY <1>2 DEF Reconcile
  <1>3. CASE Look
        BY <1>3 DEF Look
  <1>4. CASE Mark
        BY <1>4 DEF Mark, MarkClosing, LeaveIdle
  <1>5. CASE Shut
        BY <1>5 DEF Shut, CloseConn
  <1>6. CASE RetireVictim
        BY <1>6 DEF RetireVictim, Retire
  <1>7. CASE EndDrain
        BY <1>7 DEF EndDrain, LoopOver
  <1>8. CASE Excess
        BY <1>8, IdleCountNat DEF Excess, LoopOver
  <1>9. CASE TrimList
        BY <1>9 DEF TrimList
  <1>10. CASE ComputeTarget
        BY <1>10, ClampType DEF ComputeTarget, TargetIdle, LoopOver
  <1>11. CASE Measure
        BY <1>11, IdleCountNat DEF Measure
  <1>12. CASE EndBatch
        BY <1>12, IdleCountNat DEF EndBatch
  <1>13. CASE ClearPending
        BY <1>13 DEF ClearPending
  <1>14. CASE OpenFails
        BY <1>14 DEF OpenFails
  <1>15. CASE SessionDown
        BY <1>15 DEF SessionDown
  <1>16. CASE DrainList
        BY <1>16 DEF DrainList
  <1>17. CASE SessionActive
        BY <1>17 DEF SessionActive
  <1>18. CASE ListIdle
        BY <1>18 DEF ListIdle
  <1>19. ASSUME NEW n \in 1..MaxIdle, BridgeRequest(n)
        PROVE  ActiveIsServed'
        BY <1>19, RequestTypes DEF BridgeRequest, Handle, RequestRefill
  <1>20. ASSUME NEW t \in Tunnels, Pick(t)
        PROVE  ActiveIsServed'
        BY <1>20 DEF Pick
  <1>21. ASSUME NEW t \in Tunnels, Open(t)
        PROVE  ActiveIsServed'
        BY <1>21 DEF Open, Unused
  <1>22. ASSUME NEW t \in Tunnels, HandOver(t)
        PROVE  ActiveIsServed'
        BY <1>22 DEF HandOver, EnterIdle, CloseConn
  <1>23. ASSUME NEW t \in Tunnels, StartWorker(t)
        PROVE  ActiveIsServed'
        BY <1>23 DEF StartWorker
  <1>24. ASSUME NEW t \in Tunnels, Activate(t)
        PROVE  ActiveIsServed'
        BY <1>24 DEF Activate, At, LeaveIdle, CanActivate
  <1>25. ASSUME NEW t \in Tunnels, Consume(t)
        PROVE  ActiveIsServed'
        BY <1>25, RequestTypes DEF Consume, At, RequestRefill
  <1>26. ASSUME NEW t \in Tunnels, RecycleToIdle(t)
        PROVE  ActiveIsServed'
        BY <1>26 DEF RecycleToIdle, At, EnterIdle
  <1>27. ASSUME NEW t \in Tunnels, Cleanup(t)
        PROVE  ActiveIsServed'
        BY <1>27 DEF Cleanup, At, MarkClosing, LeaveIdle
  <1>28. ASSUME NEW t \in Tunnels, CleanupShut(t)
        PROVE  ActiveIsServed'
        BY <1>28 DEF CleanupShut, At, CloseConn
  <1>29. ASSUME NEW t \in Tunnels, CleanupRetire(t)
        PROVE  ActiveIsServed'
        BY <1>29 DEF CleanupRetire, At, Retire
  <1>30. ASSUME NEW t \in Tunnels, CleanupRefill(t)
        PROVE  ActiveIsServed'
        BY <1>30, RequestTypes DEF CleanupRefill, At, RequestRefill
  <1>31. ASSUME NEW t \in Tunnels, ReadFails(t)
        PROVE  ActiveIsServed'
        BY <1>31 DEF ReadFails, At
  <1>32. ASSUME NEW t \in Tunnels, TrafficFails(t)
        PROVE  ActiveIsServed'
        BY <1>32 DEF TrafficFails, At
  <1>33. ASSUME NEW t \in Tunnels, PeerLost(t)
        PROVE  ActiveIsServed'
        BY <1>33 DEF PeerLost
  <1> QED BY <1>1, <1>2, <1>3, <1>4, <1>5, <1>6, <1>7, <1>8, <1>9, <1>10, <1>11, <1>12, <1>13, <1>14, <1>15, <1>16, <1>17, <1>18, <1>19, <1>20, <1>21, <1>22, <1>23, <1>24, <1>25, <1>26, <1>27, <1>28, <1>29, <1>30, <1>31, <1>32, <1>33
           DEF Next, Loop, Refilling, WorkerStep

\* Closing starts where nobody is closing.
LEMMA CloserStep == IInv /\ [Next]_vars => OneCloser'
  <1> SUFFICES ASSUME IInv, [Next]_vars
               PROVE  OneCloser'
      OBVIOUS
  <1> USE ConfigAssumption, TunnelsAssumption
      DEF IInv, TypeOK, poolVars, wantVars, jobVars, Jobs, Steps, WorkerSteps, Idle,
          CanMarkClosing, OneCloser, JobInv, ActiveIsServed
  <1>1. CASE UNCHANGED vars
        BY <1>1 DEF vars
  <1>2. CASE Reconcile
        BY <1>2 DEF Reconcile
  <1>3. CASE Look
        BY <1>3 DEF Look
  <1>4. CASE Mark
        BY <1>4 DEF Mark, MarkClosing, LeaveIdle
  <1>5. CASE Shut
        BY <1>5 DEF Shut, CloseConn
  <1>6. CASE RetireVictim
        BY <1>6 DEF RetireVictim, Retire
  <1>7. CASE EndDrain
        BY <1>7 DEF EndDrain, LoopOver
  <1>8. CASE Excess
        BY <1>8, IdleCountNat DEF Excess, LoopOver
  <1>9. CASE TrimList
        BY <1>9 DEF TrimList
  <1>10. CASE ComputeTarget
        BY <1>10, ClampType DEF ComputeTarget, TargetIdle, LoopOver
  <1>11. CASE Measure
        BY <1>11, IdleCountNat DEF Measure
  <1>12. CASE EndBatch
        BY <1>12, IdleCountNat DEF EndBatch
  <1>13. CASE ClearPending
        BY <1>13 DEF ClearPending
  <1>14. CASE OpenFails
        BY <1>14 DEF OpenFails
  <1>15. CASE SessionDown
        BY <1>15 DEF SessionDown
  <1>16. CASE DrainList
        BY <1>16 DEF DrainList
  <1>17. CASE SessionActive
        BY <1>17 DEF SessionActive
  <1>18. CASE ListIdle
        BY <1>18 DEF ListIdle
  <1>19. ASSUME NEW n \in 1..MaxIdle, BridgeRequest(n)
        PROVE  OneCloser'
        BY <1>19, RequestTypes DEF BridgeRequest, Handle, RequestRefill
  <1>20. ASSUME NEW t \in Tunnels, Pick(t)
        PROVE  OneCloser'
        BY <1>20 DEF Pick
  <1>21. ASSUME NEW t \in Tunnels, Open(t)
        PROVE  OneCloser'
        BY <1>21 DEF Open, Unused
  <1>22. ASSUME NEW t \in Tunnels, HandOver(t)
        PROVE  OneCloser'
        BY <1>22 DEF HandOver, EnterIdle, CloseConn
  <1>23. ASSUME NEW t \in Tunnels, StartWorker(t)
        PROVE  OneCloser'
        BY <1>23 DEF StartWorker
  <1>24. ASSUME NEW t \in Tunnels, Activate(t)
        PROVE  OneCloser'
        BY <1>24 DEF Activate, At, LeaveIdle, CanActivate
  <1>25. ASSUME NEW t \in Tunnels, Consume(t)
        PROVE  OneCloser'
        BY <1>25, RequestTypes DEF Consume, At, RequestRefill
  <1>26. ASSUME NEW t \in Tunnels, RecycleToIdle(t)
        PROVE  OneCloser'
        BY <1>26 DEF RecycleToIdle, At, EnterIdle
  <1>27. ASSUME NEW t \in Tunnels, Cleanup(t)
        PROVE  OneCloser'
        BY <1>27 DEF Cleanup, At, MarkClosing, LeaveIdle
  <1>28. ASSUME NEW t \in Tunnels, CleanupShut(t)
        PROVE  OneCloser'
        BY <1>28 DEF CleanupShut, At, CloseConn
  <1>29. ASSUME NEW t \in Tunnels, CleanupRetire(t)
        PROVE  OneCloser'
        BY <1>29 DEF CleanupRetire, At, Retire
  <1>30. ASSUME NEW t \in Tunnels, CleanupRefill(t)
        PROVE  OneCloser'
        BY <1>30, RequestTypes DEF CleanupRefill, At, RequestRefill
  <1>31. ASSUME NEW t \in Tunnels, ReadFails(t)
        PROVE  OneCloser'
        BY <1>31 DEF ReadFails, At
  <1>32. ASSUME NEW t \in Tunnels, TrafficFails(t)
        PROVE  OneCloser'
        BY <1>32 DEF TrafficFails, At
  <1>33. ASSUME NEW t \in Tunnels, PeerLost(t)
        PROVE  OneCloser'
        BY <1>33 DEF PeerLost
  <1> QED BY <1>1, <1>2, <1>3, <1>4, <1>5, <1>6, <1>7, <1>8, <1>9, <1>10, <1>11, <1>12, <1>13, <1>14, <1>15, <1>16, <1>17, <1>18, <1>19, <1>20, <1>21, <1>22, <1>23, <1>24, <1>25, <1>26, <1>27, <1>28, <1>29, <1>30, <1>31, <1>32, <1>33
           DEF Next, Loop, Refilling, WorkerStep

\* A connection is closed before its record goes.
LEMMA ConnStep == IInv /\ [Next]_vars => (ClosedFirst /\ NoLostConn)'
  <1> SUFFICES ASSUME IInv, [Next]_vars
               PROVE  (ClosedFirst /\ NoLostConn)'
      OBVIOUS
  <1> USE ConfigAssumption, TunnelsAssumption
      DEF IInv, TypeOK, poolVars, wantVars, jobVars, Jobs, Steps, WorkerSteps, Idle,
          CanMarkClosing, OneCloser, JobInv, ClosedFirst, NoLostConn
  <1>1. CASE UNCHANGED vars
        BY <1>1 DEF vars
  <1>2. CASE Reconcile
        BY <1>2 DEF Reconcile
  <1>3. CASE Look
        BY <1>3 DEF Look
  <1>4. CASE Mark
        BY <1>4 DEF Mark, MarkClosing, LeaveIdle
  <1>5. CASE Shut
        BY <1>5 DEF Shut, CloseConn
  <1>6. CASE RetireVictim
        BY <1>6 DEF RetireVictim, Retire
  <1>7. CASE EndDrain
        BY <1>7 DEF EndDrain, LoopOver
  <1>8. CASE Excess
        BY <1>8, IdleCountNat DEF Excess, LoopOver
  <1>9. CASE TrimList
        BY <1>9 DEF TrimList
  <1>10. CASE ComputeTarget
        BY <1>10, ClampType DEF ComputeTarget, TargetIdle, LoopOver
  <1>11. CASE Measure
        BY <1>11, IdleCountNat DEF Measure
  <1>12. CASE EndBatch
        BY <1>12, IdleCountNat DEF EndBatch
  <1>13. CASE ClearPending
        BY <1>13 DEF ClearPending
  <1>14. CASE OpenFails
        BY <1>14 DEF OpenFails
  <1>15. CASE SessionDown
        BY <1>15 DEF SessionDown
  <1>16. CASE DrainList
        BY <1>16 DEF DrainList
  <1>17. CASE SessionActive
        BY <1>17 DEF SessionActive
  <1>18. CASE ListIdle
        BY <1>18 DEF ListIdle
  <1>19. ASSUME NEW n \in 1..MaxIdle, BridgeRequest(n)
        PROVE  (ClosedFirst /\ NoLostConn)'
        BY <1>19, RequestTypes DEF BridgeRequest, Handle, RequestRefill
  <1>20. ASSUME NEW t \in Tunnels, Pick(t)
        PROVE  (ClosedFirst /\ NoLostConn)'
        BY <1>20 DEF Pick
  <1>21. ASSUME NEW t \in Tunnels, Open(t)
        PROVE  (ClosedFirst /\ NoLostConn)'
        BY <1>21 DEF Open, Unused
  <1>22. ASSUME NEW t \in Tunnels, HandOver(t)
        PROVE  (ClosedFirst /\ NoLostConn)'
        BY <1>22 DEF HandOver, EnterIdle, CloseConn
  <1>23. ASSUME NEW t \in Tunnels, StartWorker(t)
        PROVE  (ClosedFirst /\ NoLostConn)'
        BY <1>23 DEF StartWorker
  <1>24. ASSUME NEW t \in Tunnels, Activate(t)
        PROVE  (ClosedFirst /\ NoLostConn)'
        BY <1>24 DEF Activate, At, LeaveIdle, CanActivate
  <1>25. ASSUME NEW t \in Tunnels, Consume(t)
        PROVE  (ClosedFirst /\ NoLostConn)'
        BY <1>25, RequestTypes DEF Consume, At, RequestRefill
  <1>26. ASSUME NEW t \in Tunnels, RecycleToIdle(t)
        PROVE  (ClosedFirst /\ NoLostConn)'
        BY <1>26 DEF RecycleToIdle, At, EnterIdle
  <1>27. ASSUME NEW t \in Tunnels, Cleanup(t)
        PROVE  (ClosedFirst /\ NoLostConn)'
        BY <1>27 DEF Cleanup, At, MarkClosing, LeaveIdle
  <1>28. ASSUME NEW t \in Tunnels, CleanupShut(t)
        PROVE  (ClosedFirst /\ NoLostConn)'
        BY <1>28 DEF CleanupShut, At, CloseConn
  <1>29. ASSUME NEW t \in Tunnels, CleanupRetire(t)
        PROVE  (ClosedFirst /\ NoLostConn)'
        BY <1>29 DEF CleanupRetire, At, Retire
  <1>30. ASSUME NEW t \in Tunnels, CleanupRefill(t)
        PROVE  (ClosedFirst /\ NoLostConn)'
        BY <1>30, RequestTypes DEF CleanupRefill, At, RequestRefill
  <1>31. ASSUME NEW t \in Tunnels, ReadFails(t)
        PROVE  (ClosedFirst /\ NoLostConn)'
        BY <1>31 DEF ReadFails, At
  <1>32. ASSUME NEW t \in Tunnels, TrafficFails(t)
        PROVE  (ClosedFirst /\ NoLostConn)'
        BY <1>32 DEF TrafficFails, At
  <1>33. ASSUME NEW t \in Tunnels, PeerLost(t)
        PROVE  (ClosedFirst /\ NoLostConn)'
        BY <1>33 DEF PeerLost
  <1> QED BY <1>1, <1>2, <1>3, <1>4, <1>5, <1>6, <1>7, <1>8, <1>9, <1>10, <1>11, <1>12, <1>13, <1>14, <1>15, <1>16, <1>17, <1>18, <1>19, <1>20, <1>21, <1>22, <1>23, <1>24, <1>25, <1>26, <1>27, <1>28, <1>29, <1>30, <1>31, <1>32, <1>33
           DEF Next, Loop, Refilling, WorkerStep

\* A drain leaves nothing, and nothing comes back.
LEMMA DrainStep == IInv /\ [Next]_vars => DrainInv'
  <1> SUFFICES ASSUME IInv, [Next]_vars
               PROVE  DrainInv'
      OBVIOUS
  <1> USE ConfigAssumption, TunnelsAssumption
      DEF IInv, TypeOK, poolVars, wantVars, jobVars, Jobs, Steps, WorkerSteps, Idle,
          CanMarkClosing, JobInv, DrainInv, OneCloser
  <1>1. CASE UNCHANGED vars
        BY <1>1 DEF vars
  <1>2. CASE Reconcile
        BY <1>2 DEF Reconcile
  <1>3. CASE Look
        BY <1>3 DEF Look
  <1>4. CASE Mark
        BY <1>4 DEF Mark, MarkClosing, LeaveIdle
  <1>5. CASE Shut
        BY <1>5 DEF Shut, CloseConn
  <1>6. CASE RetireVictim
        BY <1>6 DEF RetireVictim, Retire
  <1>7. CASE EndDrain
        BY <1>7 DEF EndDrain, LoopOver
  <1>8. CASE Excess
        BY <1>8, IdleCountNat DEF Excess, LoopOver
  <1>9. CASE TrimList
        BY <1>9 DEF TrimList
  <1>10. CASE ComputeTarget
        BY <1>10, ClampType DEF ComputeTarget, TargetIdle, LoopOver
  <1>11. CASE Measure
        BY <1>11, IdleCountNat DEF Measure
  <1>12. CASE EndBatch
        BY <1>12, IdleCountNat DEF EndBatch
  <1>13. CASE ClearPending
        BY <1>13 DEF ClearPending
  <1>14. CASE OpenFails
        BY <1>14 DEF OpenFails
  <1>15. CASE SessionDown
        BY <1>15 DEF SessionDown
  <1>16. CASE DrainList
        BY <1>16 DEF DrainList
  <1>17. CASE SessionActive
        BY <1>17 DEF SessionActive
  <1>18. CASE ListIdle
        BY <1>18 DEF ListIdle
  <1>19. ASSUME NEW n \in 1..MaxIdle, BridgeRequest(n)
        PROVE  DrainInv'
        BY <1>19, RequestTypes DEF BridgeRequest, Handle, RequestRefill
  <1>20. ASSUME NEW t \in Tunnels, Pick(t)
        PROVE  DrainInv'
        BY <1>20 DEF Pick
  <1>21. ASSUME NEW t \in Tunnels, Open(t)
        PROVE  DrainInv'
        BY <1>21 DEF Open, Unused
  <1>22. ASSUME NEW t \in Tunnels, HandOver(t)
        PROVE  DrainInv'
        BY <1>22 DEF HandOver, EnterIdle, CloseConn
  <1>23. ASSUME NEW t \in Tunnels, StartWorker(t)
        PROVE  DrainInv'
        BY <1>23 DEF StartWorker
  <1>24. ASSUME NEW t \in Tunnels, Activate(t)
        PROVE  DrainInv'
        BY <1>24 DEF Activate, At, LeaveIdle, CanActivate
  <1>25. ASSUME NEW t \in Tunnels, Consume(t)
        PROVE  DrainInv'
        BY <1>25, RequestTypes DEF Consume, At, RequestRefill
  <1>26. ASSUME NEW t \in Tunnels, RecycleToIdle(t)
        PROVE  DrainInv'
        BY <1>26 DEF RecycleToIdle, At, EnterIdle
  <1>27. ASSUME NEW t \in Tunnels, Cleanup(t)
        PROVE  DrainInv'
        BY <1>27 DEF Cleanup, At, MarkClosing, LeaveIdle
  <1>28. ASSUME NEW t \in Tunnels, CleanupShut(t)
        PROVE  DrainInv'
        BY <1>28 DEF CleanupShut, At, CloseConn
  <1>29. ASSUME NEW t \in Tunnels, CleanupRetire(t)
        PROVE  DrainInv'
        BY <1>29 DEF CleanupRetire, At, Retire
  <1>30. ASSUME NEW t \in Tunnels, CleanupRefill(t)
        PROVE  DrainInv'
        BY <1>30, RequestTypes DEF CleanupRefill, At, RequestRefill
  <1>31. ASSUME NEW t \in Tunnels, ReadFails(t)
        PROVE  DrainInv'
        BY <1>31 DEF ReadFails, At
  <1>32. ASSUME NEW t \in Tunnels, TrafficFails(t)
        PROVE  DrainInv'
        BY <1>32 DEF TrafficFails, At
  <1>33. ASSUME NEW t \in Tunnels, PeerLost(t)
        PROVE  DrainInv'
        BY <1>33 DEF PeerLost
  <1> QED BY <1>1, <1>2, <1>3, <1>4, <1>5, <1>6, <1>7, <1>8, <1>9, <1>10, <1>11, <1>12, <1>13, <1>14, <1>15, <1>16, <1>17, <1>18, <1>19, <1>20, <1>21, <1>22, <1>23, <1>24, <1>25, <1>26, <1>27, <1>28, <1>29, <1>30, <1>31, <1>32, <1>33
           DEF Next, Loop, Refilling, WorkerStep

\* The invariant holds initially and is kept by every step.
THEOREM Invariance == Spec => []IInv
  <1>1. Init => IInv
    <2> SUFFICES ASSUME Init PROVE IInv
        OBVIOUS
    <2>1. JobInv /\ ActiveIsServed /\ OneCloser /\ ClosedFirst /\ NoLostConn
          BY DEF Init, JobInv, ActiveIsServed, OneCloser, ClosedFirst, NoLostConn
    <2>2. DrainInv
          BY DEF Init, DrainInv
    <2> QED BY <2>1, <2>2, InitType DEF IInv
  <1>2. IInv /\ [Next]_vars => IInv'
        BY TypeStep, JobStep, ServedStep, CloserStep, ConnStep, DrainStep DEF IInv
  <1> QED BY <1>1, <1>2, PTL DEF Spec

\* An active tunnel always has its worker on it.
THEOREM ActiveIsServedHolds == Spec => []ActiveIsServed
  BY Invariance, PTL DEF IInv

\* A closing record has exactly one goroutine that will remove it, and no connection
\* is left open behind a removed record.
THEOREM ClosedOnceHolds == Spec => []ClosedOnce
  <1>1. IInv => ClosedOnce
        BY DEF IInv, ClosedOnce
  <1> QED BY <1>1, Invariance, PTL

\* A drained pool is empty until its session is ACTIVE again.
THEOREM DrainedIsEmptyHolds == Spec => []DrainedIsEmpty
  <1>1. IInv => DrainedIsEmpty
        BY DEF IInv, DrainInv, DrainedIsEmpty
  <1> QED BY <1>1, Invariance, PTL
=============================================================================
