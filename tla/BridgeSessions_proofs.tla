----------------------- MODULE BridgeSessions_proofs -----------------------
(***************************************************************************)
(* Proofs about BridgeSessions, for any set of sessions, connectors and    *)
(* drain requests.                                                         *)
(***************************************************************************)
EXTENDS BridgeSessions, TLAPS

\* A drain request that has not marked its session yet applies no effects.
DrainIdle == \A a \in Drains : drain[a] # "done" => Idle(a)

IInv == TypeOK /\ ActiveIsCurrent /\ DrainIdle

(***************************************************************************)
(* Type correctness.                                                       *)
(***************************************************************************)
\* A commit keeps the types of what it writes.
LEMMA CommitTypes ==
    ASSUME TypeOK, NEW s \in Sessions, CommitAuthoritative(s)
    PROVE  /\ state' \in [Sessions -> Live \cup Ended \cup {"NONE"}]
           /\ current' \in [Connectors -> Sessions \cup {NoSession}]
           /\ quiet' \in SUBSET Sessions
           /\ phase' \in [Workers -> {"none", "check", "apply", "purge"}]
           /\ on' \in [Workers -> Sessions \cup {NoSession}]
           /\ as' \in [Workers -> InstanceStatuses]
  <1> USE SessionsAssumption
  <1>1. ConnectorOf[s] \in Connectors /\ Previous(s) \in Sessions \cup {NoSession}
        BY DEF TypeOK, Previous
  <1>2. state' \in [Sessions -> Live \cup Ended \cup {"NONE"}]
        BY DEF TypeOK, CommitAuthoritative, Live, Ended
  <1>3. current' \in [Connectors -> Sessions \cup {NoSession}] /\ quiet' \in SUBSET Sessions
        BY <1>1 DEF TypeOK, CommitAuthoritative
  <1>4. CASE PushesAside(s)
    <2>1. StartEffects(s, Previous(s), "INACTIVE", "apply")
          BY <1>4 DEF CommitAuthoritative
    <2>2. phase' \in [Workers -> {"none", "check", "apply", "purge"}]
          BY <2>1 DEF TypeOK, StartEffects
    <2>3. on' \in [Workers -> Sessions \cup {NoSession}]
          BY <1>1, <2>1 DEF TypeOK, StartEffects
    <2>4. as' \in [Workers -> InstanceStatuses]
          BY <2>1 DEF TypeOK, StartEffects, InstanceStatuses
    <2> QED BY <1>2, <1>3, <2>2, <2>3, <2>4
  <1>5. CASE ~PushesAside(s)
        BY <1>2, <1>3, <1>5 DEF TypeOK, CommitAuthoritative, effectVars
  <1> QED BY <1>4, <1>5

\* Every step keeps the types.
LEMMA TypeStep == TypeOK /\ [Next]_vars => TypeOK'
  <1> SUFFICES ASSUME TypeOK, [Next]_vars
               PROVE  TypeOK'
      OBVIOUS
  <1> USE SessionsAssumption
      DEF TypeOK, registryVars, serviceVars, channelVars, effectVars, drainVars,
          Goto, Idle, Live, Ended, InstanceStatuses, Workers
  <1>1. CASE UNCHANGED vars
        BY <1>1 DEF vars
  <1>2. ASSUME NEW w \in Workers, EffectsNext(w)
        PROVE  TypeOK'
    <2>1. CASE CheckCurrent(w)
          BY <2>1 DEF CheckCurrent
    <2>2. CASE ApplyLifecycle(w)
          BY <2>2 DEF ApplyLifecycle
    <2>3. CASE PurgePool(w)
          BY <2>3 DEF PurgePool
    <2> QED BY <1>2, <2>1, <2>2, <2>3 DEF EffectsNext
  <1>3. ASSUME NEW s \in Sessions, CanCommit(s), CommitAuthoritative(s),
               NEW l \in {"ack", "read", "ready", "report"}, Goto(s, l),
               UNCHANGED <<pool, serviceVars, epoch, target, writes, swept, drainVars>>
        PROVE  TypeOK'
        BY <1>3, CommitTypes
  <1>4. ASSUME NEW s \in Sessions, UpsertActive(s),
               NEW l \in {"ack", "read", "ready", "report"}, Goto(s, l),
               UNCHANGED <<pool, serviceVars, epoch, target, writes, swept, drainVars>>
        PROVE  TypeOK'
    <2>1. CASE CanCommit(s) /\ CommitAuthoritative(s)
          BY <1>3, <1>4, <2>1
    <2>2. CASE UNCHANGED <<registryVars, effectVars>>
          BY <1>4, <2>2
    <2> QED BY <1>4, <2>1, <2>2 DEF UpsertActive
  <1>5. ASSUME NEW s \in Sessions, NEW to \in {"DRAINING", "FAILED", "CLOSED"},
               NEW next \in {"ready", "gone"}, Transition(s, to, next)
        PROVE  TypeOK'
    <2>1. CASE state[s] = to
      <3>1. pc' = [pc EXCEPT ![s] = next] /\ target' = target
            BY <1>5, <2>1 DEF Transition
      <3>2. UNCHANGED <<registryVars, pool, serviceVars, epoch, writes, effectVars,
                        swept, drainVars>>
            BY <1>5 DEF Transition
      <3> QED BY <3>1, <3>2
    <2>2. CASE state[s] # to
      <3>1. /\ pc' = [pc EXCEPT ![s] = "mark"]
            /\ target' = [target EXCEPT ![s] = to]
            BY <1>5, <2>2 DEF Transition
      <3>2. UNCHANGED <<registryVars, pool, serviceVars, epoch, writes, effectVars,
                        swept, drainVars>>
            BY <1>5 DEF Transition
      <3> QED BY <3>1, <3>2
    <2> QED BY <2>1, <2>2
  <1>6. ASSUME NEW s \in Sessions, ServeFrame(s)
        PROVE  TypeOK'
    <2>1. CASE AuthAck(s)
          BY <2>1 DEF AuthAck
    <2>2. CASE CommitRead(s)
          BY <2>2, <1>4 DEF CommitRead
    <2>3. ASSUME NEW reported \in Reports, Heartbeat(s, reported)
          PROVE  TypeOK'
          BY <2>3, <1>4 DEF Heartbeat
    <2>4. CASE Publish(s)
          BY <2>4 DEF Publish
    <2>5. CASE HealthReport(s)
      <3>1. status[ConnectorOf[s]] \in InstanceStatuses
            OBVIOUS
      <3> QED BY <2>5, <3>1 DEF HealthReport
    <2>6. CASE Unpublish(s)
          BY <2>6 DEF Unpublish
    <2>7. CASE RejectEvent(s)
          BY <2>7 DEF RejectEvent
    <2>8. CASE UpsertInstance(s)
          BY <2>8 DEF UpsertInstance
    <2>9. CASE RemoveInstance(s)
          BY <2>9 DEF RemoveInstance
    <2>10. ASSUME NEW reported \in Reports \ {"ACTIVE"}, ReportState(s, reported)
           PROVE  TypeOK'
      <3>1. Transition(s, reported, "ready")
            BY <2>10 DEF ReportState
      <3>2. reported \in {"DRAINING", "FAILED", "CLOSED"}
            BY SessionsAssumption
      <3> HIDE DEF TypeOK
      <3> QED BY <1>5, <3>1, <3>2
    <2>11. CASE MarkState(s)
          BY <2>11 DEF MarkState, StartEffects, Withdrawn
    <2> QED BY <1>6, <2>1, <2>2, <2>3, <2>4, <2>5, <2>6, <2>7, <2>8, <2>9, <2>10,
               <2>11 DEF ServeFrame
  <1>7. ASSUME NEW s \in Sessions, NextFrame(s)
        PROVE  TypeOK'
    <2>1. CASE Hello(s)
      <3>1. (IF Previous(s) = NoSession THEN 1 ELSE epoch[Previous(s)] + 1) \in Nat
            BY DEF Previous
      <3> QED BY <2>1, <3>1 DEF Hello
    <2>2. CASE Auth(s)
          BY <2>2, <1>3 DEF Auth
    <2>3. CASE AuthRejected(s)
          BY <2>3 DEF AuthRejected
    <2>4. CASE Ping(s)
          BY <2>4 DEF Ping
    <2>5. CASE ReadSession(s)
          BY <2>5 DEF ReadSession
    <2>6. ASSUME NEW to \in {"FAILED", "CLOSED"}, EndChannel(s, to)
          PROVE  TypeOK'
      <3>1. Transition(s, to, "gone")
            BY <2>6 DEF EndChannel
      <3>2. to \in {"DRAINING", "FAILED", "CLOSED"}
            OBVIOUS
      <3> HIDE DEF TypeOK
      <3> QED BY <1>5, <3>1, <3>2
    <2> QED BY <1>7, <2>1, <2>2, <2>3, <2>4, <2>5, <2>6 DEF NextFrame
  <1>8. ASSUME NEW s \in Sessions, RegisterTunnel(s) \/ Silence(s)
        PROVE  TypeOK'
    <2>1. CASE RegisterTunnel(s)
      <3>1. pool' \in SUBSET Sessions
            BY <2>1 DEF RegisterTunnel
      <3>2. UNCHANGED <<registryVars, serviceVars, channelVars, effectVars, swept, drainVars>>
            BY <2>1 DEF RegisterTunnel
      <3> QED BY <3>1, <3>2
    <2>2. CASE Silence(s)
      <3>1. quiet' \in SUBSET Sessions
            BY <2>2 DEF Silence
      <3>2. UNCHANGED <<state, current, pool, serviceVars, channelVars, effectVars, swept,
                        drainVars>>
            BY <2>2 DEF Silence
      <3> QED BY <3>1, <3>2
    <2> QED BY <1>8, <2>1, <2>2
  <1>9. CASE SweeperNext
    <2>1. CASE SweepHeartbeatTimeout
          BY <2>1 DEF SweepHeartbeatTimeout, Sweep, Silent
    <2>2. CASE SweepStaleToClosed
          BY <2>2 DEF SweepStaleToClosed, Sweep
    <2>3. ASSUME NEW s \in Sessions, SweepEffects(s)
          PROVE  TypeOK'
          BY <2>3 DEF SweepEffects, StartEffects
    <2> QED BY <1>9, <2>1, <2>2, <2>3 DEF SweeperNext
  <1>10. ASSUME NEW a \in Drains, DrainNext(a)
         PROVE  TypeOK'
    <2>1. CASE DrainMark(a)
          BY <2>1 DEF DrainMark, StartEffects
    <2>2. ASSUME NEW s \in Sessions, DrainRead(a, s)
          PROVE  TypeOK'
      <3>1. CASE state[s] = "ACTIVE"
        <4>1. /\ drain' = [drain EXCEPT ![a] = "mark"]
              /\ drained' = [drained EXCEPT ![a] = s]
              /\ UNCHANGED <<registryVars, pool, serviceVars, channelVars, effectVars, swept>>
              BY <2>2, <3>1 DEF DrainRead
        <4> QED BY <4>1
      <3>2. CASE state[s] # "ACTIVE"
        <4>1. /\ drain' = [drain EXCEPT ![a] = "done"]
              /\ phase' = [phase EXCEPT ![a] = "check"]
              /\ on' = [on EXCEPT ![a] = s]
              /\ as' = [as EXCEPT ![a] = "INACTIVE"]
              /\ UNCHANGED <<registryVars, pool, serviceVars, channelVars, swept, drained>>
              BY <2>2, <3>2 DEF DrainRead, StartEffects
        <4> QED BY <4>1
      <3> QED BY <3>1, <3>2
    <2> QED BY <1>10, <2>1, <2>2 DEF DrainNext
  <1> QED BY <1>1, <1>2, <1>6, <1>7, <1>8, <1>9, <1>10 DEF Next

\* Every reachable state is well-typed.
THEOREM TypeCorrect == Spec => []TypeOK
  <1>1. Init => TypeOK
        BY SessionsAssumption DEF Init, TypeOK, Live, Ended, InstanceStatuses, Workers
  <1> QED BY <1>1, TypeStep, PTL DEF Spec

(***************************************************************************)
(* The steps, as far as states, current sessions and effects go.           *)
(***************************************************************************)
\* The step leaves them alone.
Inert == UNCHANGED <<state, current, effectVars, swept, drainVars>>

\* Some channel commits its session.
CommitStep(s) ==
    /\ Idle(s) /\ CanCommit(s) /\ CommitAuthoritative(s)
    /\ UNCHANGED <<epoch, swept, drainVars>>

SweepStep == \E found \in SUBSET Sessions, to \in {"STALE", "CLOSED"} : Sweep(found, to)

\* Every step is inert, a commit, or one of the few that move a session's state
\* or its effects.
LEMMA StepKinds ==
    ASSUME TypeOK, [Next]_vars
    PROVE  \/ Inert
           \/ \E w \in Workers : EffectsNext(w)
           \/ \E s \in Sessions : CommitStep(s) \/ MarkState(s) \/ SweepEffects(s)
           \/ SweepStep
           \/ \E a \in Drains : DrainNext(a)
  <1> DEFINE Kinds == \/ Inert
                     \/ \E s \in Sessions : CommitStep(s) \/ MarkState(s)
  <1> USE DEF Inert, registryVars, serviceVars, channelVars, effectVars, drainVars
  <1>1. CASE UNCHANGED vars
        BY <1>1 DEF vars
  <1>2. ASSUME NEW s \in Sessions, Idle(s), UpsertActive(s),
               UNCHANGED <<epoch, swept, drainVars>>
        PROVE  Kinds
        BY <1>2 DEF UpsertActive, CommitStep
  <1>3. ASSUME NEW s \in Sessions, NEW to, NEW next, Transition(s, to, next)
        PROVE  Inert
        BY <1>3 DEF Transition
  <1>4. ASSUME NEW s \in Sessions, ServeFrame(s)
        PROVE  Kinds
    <2>1. CASE AuthAck(s) \/ Publish(s) \/ HealthReport(s) \/ Unpublish(s) \/ RejectEvent(s)
          BY <2>1 DEF AuthAck, Publish, HealthReport, Unpublish, RejectEvent
    <2>2. CASE CommitRead(s)
          BY <2>2, <1>2 DEF CommitRead
    <2>3. ASSUME NEW reported \in Reports, Heartbeat(s, reported)
          PROVE  Kinds
          BY <2>3, <1>2 DEF Heartbeat
    <2>4. CASE UpsertInstance(s) \/ RemoveInstance(s)
          BY <2>4 DEF UpsertInstance, RemoveInstance
    <2>5. ASSUME NEW reported \in Reports \ {"ACTIVE"}, ReportState(s, reported)
          PROVE  Kinds
          BY <2>5, <1>3 DEF ReportState
    <2> QED BY <1>4, <2>1, <2>2, <2>3, <2>4, <2>5 DEF ServeFrame
  <1>5. ASSUME NEW s \in Sessions, NextFrame(s)
        PROVE  Kinds
    <2>1. CASE Hello(s) \/ AuthRejected(s) \/ Ping(s) \/ ReadSession(s)
          BY <2>1 DEF Hello, AuthRejected, Ping, ReadSession
    <2>2. CASE Auth(s)
          BY <2>2 DEF Auth, CommitStep
    <2>3. ASSUME NEW to \in {"FAILED", "CLOSED"}, EndChannel(s, to)
          PROVE  Kinds
          BY <2>3, <1>3 DEF EndChannel
    <2> QED BY <1>5, <2>1, <2>2, <2>3 DEF NextFrame
  <1>6. ASSUME NEW s \in Sessions, RegisterTunnel(s) \/ Silence(s)
        PROVE  Inert
        BY <1>6 DEF RegisterTunnel, Silence
  <1>7. CASE SweeperNext
    <2>1. SweepHeartbeatTimeout \/ SweepStaleToClosed => SweepStep
          BY DEF SweepHeartbeatTimeout, SweepStaleToClosed, SweepStep, Silent, TypeOK
    <2> QED BY <1>7, <2>1 DEF SweeperNext
  <1> QED BY <1>1, <1>4, <1>5, <1>6, <1>7 DEF Next

(***************************************************************************)
(* The invariant.                                                          *)
(***************************************************************************)
\* After a commit the session it pushed aside, the only other one that can have
\* been ACTIVE, is DRAINING.
LEMMA CommitStepActive ==
    ASSUME IInv, NEW s \in Sessions, CommitStep(s)
    PROVE  ActiveIsCurrent'
  <1> SUFFICES ASSUME NEW t \in Sessions, state'[t] = "ACTIVE"
               PROVE  current'[ConnectorOf[t]] = t
      BY DEF ActiveIsCurrent
  <1> USE SessionsAssumption DEF IInv, TypeOK, CommitStep, CommitAuthoritative
  <1>1. CASE t = s
        BY <1>1
  <1>2. CASE t # s
    <2>1. state[t] = "ACTIVE" /\ ~(PushesAside(s) /\ t = Previous(s))
          BY <1>2
    <2>2. current[ConnectorOf[t]] = t
          BY <2>1 DEF ActiveIsCurrent
    <2>3. ConnectorOf[t] # ConnectorOf[s]
          BY <1>2, <2>1, <2>2 DEF PushesAside, Previous, Live
    <2> QED BY <2>2, <2>3
  <1> QED BY <1>1, <1>2

\* Every step keeps the invariant.
LEMMA InvariantStep == IInv /\ [Next]_vars => IInv'
  <1> SUFFICES ASSUME IInv, [Next]_vars
               PROVE  IInv'
      OBVIOUS
  <1>1. TypeOK'
        BY TypeStep DEF IInv
  <1>a. \A s \in Sessions : s \in Workers /\ s \notin Drains
        BY SessionsAssumption DEF Workers
  <1>b. Sweeper \in Workers /\ Sweeper \notin Drains
        BY SessionsAssumption DEF Workers
  \* An effect on a worker that is no unfinished drain keeps DrainIdle.
  <1>c. ASSUME NEW w, w \in Drains => drain'[w] = "done", NEW label,
               phase' = phase \/ phase' = [phase EXCEPT ![w] = label],
               \A a \in Drains : drain'[a] = "done" \/ drain'[a] = drain[a]
                                 \/ (drain[a] # "done" /\ a # w)
        PROVE  DrainIdle'
        BY <1>c DEF DrainIdle, Idle, IInv, TypeOK, Workers
  <1>2. CASE Inert
        BY <1>1, <1>2 DEF Inert, IInv, ActiveIsCurrent, DrainIdle, Idle, effectVars, drainVars
  <1>3. ASSUME NEW w \in Workers, EffectsNext(w)
        PROVE  IInv'
    <2>1. UNCHANGED <<state, current, drain>>
          BY <1>3 DEF EffectsNext, CheckCurrent, ApplyLifecycle, PurgePool, registryVars, drainVars
    <2>2. \A a \in Drains : Idle(a) => Idle(a)'
          BY <1>3 DEF EffectsNext, CheckCurrent, ApplyLifecycle, PurgePool, Idle, IInv, TypeOK,
                      Workers
    <2> QED BY <1>1, <2>1, <2>2 DEF IInv, ActiveIsCurrent, DrainIdle
  <1>4. ASSUME NEW s \in Sessions, CommitStep(s)
        PROVE  IInv'
    <2>1. UNCHANGED drain
          BY <1>4 DEF CommitStep, drainVars
    <2>2. phase' = phase \/ phase' = [phase EXCEPT ![s] = "apply"]
          BY <1>4 DEF CommitStep, CommitAuthoritative, StartEffects, effectVars
    <2>3. DrainIdle'
          BY <1>a, <1>c, <2>1, <2>2
    <2> QED BY <1>1, <1>4, <2>3, CommitStepActive DEF IInv
  <1>5. ASSUME NEW s \in Sessions, MarkState(s)
        PROVE  IInv'
    <2>1. UNCHANGED <<drain, current>> /\ phase' = [phase EXCEPT ![s] = "check"]
          BY <1>5 DEF MarkState, StartEffects, drainVars
    <2>2. DrainIdle'
          BY <1>a, <1>c, <2>1
    <2>3. state' = [state EXCEPT ![s] = target[s]] /\ target[s] # "ACTIVE"
          BY <1>5 DEF MarkState, IInv, TypeOK
    <2>4. ActiveIsCurrent'
          BY <2>1, <2>3 DEF IInv, TypeOK, ActiveIsCurrent
    <2> QED BY <1>1, <2>2, <2>4 DEF IInv
  <1>6. ASSUME NEW s \in Sessions, SweepEffects(s)
        PROVE  IInv'
    <2>1. UNCHANGED <<drain, current, state>> /\ phase' = [phase EXCEPT ![Sweeper] = "check"]
          BY <1>6 DEF SweepEffects, StartEffects, drainVars, registryVars
    <2>2. DrainIdle'
          BY <1>b, <1>c, <2>1
    <2> QED BY <1>1, <2>1, <2>2 DEF IInv, ActiveIsCurrent
  <1>7. ASSUME NEW found \in SUBSET Sessions, NEW to \in {"STALE", "CLOSED"}, Sweep(found, to)
        PROVE  IInv'
    <2>1. UNCHANGED <<drain, current, phase>>
          BY <1>7 DEF Sweep, drainVars, effectVars
    <2>2. \A s \in Sessions : state'[s] = "ACTIVE" => state[s] = "ACTIVE"
          BY <1>7 DEF Sweep
    <2> QED BY <1>1, <2>1, <2>2 DEF IInv, ActiveIsCurrent, DrainIdle, Idle
  <1>8. ASSUME NEW a \in Drains, DrainMark(a)
        PROVE  IInv'
    <2>1. UNCHANGED current /\ phase' = [phase EXCEPT ![a] = "check"]
          BY <1>8 DEF DrainMark, StartEffects
    <2>2. drain' = [drain EXCEPT ![a] = "done"]
          BY <1>8 DEF DrainMark
    <2>3. DrainIdle'
          BY <1>c, <2>1, <2>2 DEF IInv, TypeOK
    <2>4. state' = [state EXCEPT ![drained[a]] = "DRAINING"]
          BY <1>8 DEF DrainMark
    <2>5. ActiveIsCurrent'
          BY <2>1, <2>4 DEF IInv, TypeOK, ActiveIsCurrent
    <2> QED BY <1>1, <2>3, <2>5 DEF IInv
  <1>9. ASSUME NEW a \in Drains, NEW s \in Sessions, DrainRead(a, s)
        PROVE  IInv'
    <2>1. UNCHANGED <<current, state>> /\ drain[a] = "new"
          BY <1>9 DEF DrainRead, registryVars
    <2>2. CASE state[s] = "ACTIVE"
      <3>1. drain' = [drain EXCEPT ![a] = "mark"] /\ UNCHANGED phase
            BY <1>9, <2>2 DEF DrainRead, effectVars
      <3> QED BY <1>1, <2>1, <3>1 DEF IInv, TypeOK, ActiveIsCurrent, DrainIdle, Idle
    <2>3. CASE state[s] # "ACTIVE"
      <3>1. drain' = [drain EXCEPT ![a] = "done"] /\ phase' = [phase EXCEPT ![a] = "check"]
            BY <1>9, <2>3 DEF DrainRead, StartEffects
      <3>2. DrainIdle'
            BY <1>c, <3>1 DEF IInv, TypeOK
      <3> QED BY <1>1, <2>1, <3>2 DEF IInv, ActiveIsCurrent
    <2> QED BY <2>2, <2>3
  <1> QED BY <1>2, <1>3, <1>4, <1>5, <1>6, <1>7, <1>8, <1>9, StepKinds
          DEF IInv, SweepStep, DrainNext

\* The invariant that the other theorems rest on.
THEOREM Invariance == Spec => []IInv
  <1>1. Init => IInv
    <2>1. Init => TypeOK
          BY SessionsAssumption DEF Init, TypeOK, Live, Ended, InstanceStatuses, Workers
    <2> QED BY <2>1, SessionsAssumption
            DEF Init, IInv, ActiveIsCurrent, DrainIdle, Idle, Workers
  <1> QED BY <1>1, InvariantStep, PTL DEF Spec

\* A connector never has two ACTIVE sessions: CommitAuthoritative, transitions,
\* sweeps and drains keep an ACTIVE session current.
THEOREM ActiveIsCurrentHolds == Spec => []ActiveIsCurrent
  BY Invariance, PTL DEF IInv

(***************************************************************************)
(* Action properties.                                                      *)
(***************************************************************************)
\* Whoever starts effects had none to finish, so a purge that was owed still is.
LEMMA PurgeOwedStep ==
    IInv /\ [Next]_vars => \A s \in pool \cap pool' : Owed(s) => Owed(s)'
  <1> SUFFICES ASSUME IInv, [Next]_vars, NEW s \in pool \cap pool', Owed(s)
               PROVE  Owed(s)'
      OBVIOUS
  <1> USE SessionsAssumption
      DEF IInv, TypeOK, Workers, Idle, Owed, registryVars, effectVars, drainVars
  <1> s \in Sessions
      OBVIOUS
  <1>1. CASE Inert
        BY <1>1 DEF Inert
  <1>2. ASSUME NEW w \in Workers, EffectsNext(w)
        PROVE  Owed(s)'
    <2>1. CASE CheckCurrent(w)
          BY <2>1 DEF CheckCurrent
    <2>2. CASE ApplyLifecycle(w)
          BY <2>2 DEF ApplyLifecycle
    <2>3. CASE PurgePool(w)
      <3>1. s # on[w]
            BY <2>3 DEF PurgePool
      <3> QED BY <2>3, <3>1 DEF PurgePool
    <2> QED BY <1>2, <2>1, <2>2, <2>3 DEF EffectsNext
  \* Worker w, idle until then, takes session t on.
  <1>3. ASSUME NEW w \in Workers, Idle(w), NEW t \in Sessions, NEW st, NEW first,
               first # "none", StartEffects(w, t, st, first)
        PROVE  /\ \E v \in Workers : phase'[v] # "none" /\ on'[v] = t
               /\ \A v \in Workers : phase[v] # "none" => phase'[v] # "none" /\ on'[v] = on[v]
        BY <1>3 DEF StartEffects
  <1>4. ASSUME NEW t \in Sessions, CommitStep(t)
        PROVE  Owed(s)'
    <2>1. CASE PushesAside(t)
      <3>1. StartEffects(t, Previous(t), "INACTIVE", "apply")
            BY <1>4, <2>1 DEF CommitStep, CommitAuthoritative
      <3>2. Previous(t) \in Sessions
            BY <2>1 DEF PushesAside, Previous
      <3>3. s # Previous(t) => state'[s] = state[s] \/ state'[s] = "ACTIVE"
            BY <1>4 DEF CommitStep, CommitAuthoritative
      <3> QED BY <1>3, <1>4, <3>1, <3>2, <3>3 DEF CommitStep
    <2>2. CASE ~PushesAside(t)
          BY <1>4, <2>2 DEF CommitStep, CommitAuthoritative
    <2> QED BY <2>1, <2>2
  <1>5. ASSUME NEW t \in Sessions, MarkState(t)
        PROVE  Owed(s)'
    <2>1. s # t => state'[s] = state[s]
          BY <1>5 DEF MarkState
    <2> QED BY <1>3, <1>5, <2>1 DEF MarkState
  <1>6. ASSUME NEW t \in Sessions, SweepEffects(t)
        PROVE  Owed(s)'
        BY <1>3, <1>6 DEF SweepEffects
  <1>7. CASE SweepStep
    <2>1. PICK found \in SUBSET Sessions, to \in {"STALE", "CLOSED"} : Sweep(found, to)
          BY <1>7 DEF SweepStep
    <2>2. s \in found \/ state'[s] = state[s]
          BY <2>1 DEF Sweep
    <2> QED BY <2>1, <2>2 DEF Sweep
  <1>8. ASSUME NEW a \in Drains, DrainNext(a)
        PROVE  Owed(s)'
    <2>1. CASE DrainMark(a)
      <3>1. CASE drained[a] = s
            BY <1>3, <2>1, <3>1 DEF DrainMark, DrainIdle
      <3>2. CASE drained[a] # s
        <4>1. state'[s] = state[s]
              BY <2>1, <3>2 DEF DrainMark
        <4>2. \A v \in Workers : phase[v] # "none" => phase'[v] # "none" /\ on'[v] = on[v]
              BY <2>1 DEF DrainMark, DrainIdle, StartEffects
        <4> QED BY <2>1, <4>1, <4>2 DEF DrainMark
      <3> QED BY <3>1, <3>2
    <2>2. ASSUME NEW t \in Sessions, DrainRead(a, t)
          PROVE  Owed(s)'
      <3>1. CASE state[t] = "ACTIVE"
            BY <2>2, <3>1 DEF DrainRead
      <3>2. CASE state[t] # "ACTIVE"
            BY <1>3, <2>2, <3>2 DEF DrainRead, DrainIdle
      <3> QED BY <3>1, <3>2
    <2> QED BY <1>8, <2>1, <2>2 DEF DrainNext
  <1> QED BY <1>1, <1>2, <1>4, <1>5, <1>6, <1>7, <1>8, StepKinds

\* Takeovers, transitions, sweeps and drains leave no session's tunnels without
\* somebody who will purge them.
THEOREM PurgeOwedHolds == Spec => PurgeOwed
  BY Invariance, PurgeOwedStep, PTL DEF Spec, PurgeOwed

\* The current session changes in a commit only, which CanCommit guards.
LEMMA HandoverStep ==
    IInv /\ [Next]_vars =>
        \A c \in Connectors :
            \/ current[c] \in {NoSession, current'[c]}
            \/ state[current[c]] \in Ended
            \/ epoch[current'[c]] > epoch[current[c]]
  <1> SUFFICES ASSUME IInv, [Next]_vars, NEW c \in Connectors, current'[c] # current[c]
               PROVE  \/ current[c] = NoSession
                      \/ state[current[c]] \in Ended
                      \/ epoch[current'[c]] > epoch[current[c]]
      OBVIOUS
  <1>1. ~Inert /\ ~SweepStep
        BY DEF Inert, SweepStep, Sweep
  <1>2. \A w \in Workers : ~EffectsNext(w)
        BY DEF EffectsNext, CheckCurrent, ApplyLifecycle, PurgePool, registryVars
  <1>3. \A s \in Sessions : ~MarkState(s) /\ ~SweepEffects(s)
        BY DEF MarkState, SweepEffects, registryVars
  <1>4. \A a \in Drains : ~DrainNext(a)
        BY DEF DrainNext, DrainMark, DrainRead, registryVars
  <1>5. PICK s \in Sessions : CommitStep(s)
        BY <1>1, <1>2, <1>3, <1>4, StepKinds DEF IInv
  <1>6. c = ConnectorOf[s] /\ current'[c] = s
        BY <1>5, SessionsAssumption DEF CommitStep, CommitAuthoritative, IInv, TypeOK
  <1>7. Previous(s) = current[c] /\ Previous(s) # s
        BY <1>6 DEF Previous
  <1>8. CASE Previous(s) = NoSession
        BY <1>7, <1>8
  <1>9. CASE Previous(s) # NoSession
    <2>1. state[Previous(s)] \in Ended \/ epoch[Previous(s)] < epoch[s]
          BY <1>5, <1>7, <1>9 DEF CommitStep, CanCommit
    <2>2. epoch[Previous(s)] \in Nat /\ epoch[s] \in Nat
          BY <1>7, <1>9, SessionsAssumption DEF IInv, TypeOK, Previous
    <2> QED BY <1>6, <1>7, <2>1, <2>2
  <1> QED BY <1>8, <1>9

\* A live session loses its connector only to a session with a higher epoch.
THEOREM HandoverHolds == Spec => Handover
  BY Invariance, HandoverStep, PTL DEF Spec, Handover

\* Only the resource messages and the lifecycle effects write an instance's status.
LEMMA StatusWriters ==
    ASSUME [Next]_vars, status' # status
    PROVE  \/ \E w \in Workers : ApplyLifecycle(w)
           \/ \E s \in Sessions : UpsertInstance(s) \/ RemoveInstance(s)
  <1> USE DEF serviceVars
  <1>1. ~UNCHANGED vars
        BY DEF vars
  <1>2. \A w \in Workers : EffectsNext(w) => ApplyLifecycle(w)
        BY DEF EffectsNext, CheckCurrent, PurgePool
  <1>3. ASSUME NEW s \in Sessions, ServeFrame(s)
        PROVE  UpsertInstance(s) \/ RemoveInstance(s)
    <2>1. ~AuthAck(s) /\ ~CommitRead(s) /\ ~Publish(s) /\ ~HealthReport(s) /\ ~Unpublish(s)
          /\ ~RejectEvent(s) /\ ~MarkState(s)
          BY DEF AuthAck, CommitRead, Publish, HealthReport, Unpublish, RejectEvent, MarkState
    <2>2. \A reported : ~Heartbeat(s, reported) /\ ~ReportState(s, reported)
          BY DEF Heartbeat, ReportState, Transition
    <2> QED BY <1>3, <2>1, <2>2 DEF ServeFrame
  <1>4. ASSUME NEW s \in Sessions
        PROVE  ~NextFrame(s) /\ ~RegisterTunnel(s) /\ ~Silence(s)
    <2>1. ~Hello(s) /\ ~Auth(s) /\ ~AuthRejected(s) /\ ~Ping(s) /\ ~ReadSession(s)
          BY DEF Hello, Auth, AuthRejected, Ping, ReadSession
    <2>2. \A to : ~EndChannel(s, to)
          BY DEF EndChannel, Transition
    <2>3. ~RegisterTunnel(s) /\ ~Silence(s)
          BY DEF RegisterTunnel, Silence
    <2> QED BY <2>1, <2>2, <2>3 DEF NextFrame
  <1>5. ~SweeperNext
        BY DEF SweeperNext, SweepHeartbeatTimeout, SweepStaleToClosed, Sweep, SweepEffects
  <1>6. \A a \in Drains : ~DrainNext(a)
        BY DEF DrainNext, DrainMark, DrainRead
  <1> QED BY <1>1, <1>2, <1>3, <1>4, <1>5, <1>6 DEF Next

\* The effects that still run are those of sessions that own nothing any more, or are
\* not about the owner: they leave its instance.
LEMMA SuccessorStep ==
    TypeOK /\ [Next]_vars =>
        \A c \in Connectors :
            (/\ owner[c] # NoSession
             /\ Undisturbed(owner[c])
             /\ status[c] = "ACTIVE"
             /\ status'[c] # "ACTIVE") =>
               \E s \in Sessions : pc[s] \in {"upsert", "remove"} /\ pc'[s] = "ready"
  <1> SUFFICES ASSUME TypeOK, [Next]_vars, NEW c \in Connectors,
                      owner[c] # NoSession, Undisturbed(owner[c]),
                      status[c] = "ACTIVE", status'[c] # "ACTIVE"
               PROVE  \E s \in Sessions : pc[s] \in {"upsert", "remove"} /\ pc'[s] = "ready"
      OBVIOUS
  <1>1. ASSUME NEW w \in Workers, ApplyLifecycle(w)
        PROVE  FALSE
    <2>1. Affected(on[w], c)
          BY <1>1 DEF ApplyLifecycle, TypeOK
    <2> QED BY <2>1 DEF Affected, Undisturbed
  <1>2. ASSUME NEW s \in Sessions, UpsertInstance(s) \/ RemoveInstance(s)
        PROVE  pc[s] \in {"upsert", "remove"} /\ pc'[s] = "ready"
        BY <1>2 DEF UpsertInstance, RemoveInstance, Goto, TypeOK
  <1> QED BY <1>1, <1>2, StatusWriters

\* Whatever effects of takeovers, sweeps and drains are under way, a session that is left
\* alone keeps the instance it has published until a resource message is served.
THEOREM SuccessorKeepsInstanceHolds == Spec => SuccessorKeepsInstance
  <1>1. TypeOK /\ [Next]_vars =>
            \A c \in Connectors :
                (/\ owner[c] # NoSession
                 /\ Undisturbed(owner[c])
                 /\ status[c] = "ACTIVE"
                 /\ status'[c] # "ACTIVE") =>
                   \E s \in Sessions : pc[s] \in {"upsert", "remove"} /\ pc'[s] = "ready"
        BY SuccessorStep
  <1> QED BY <1>1, TypeCorrect, PTL DEF Spec, SuccessorKeepsInstance

=============================================================================
