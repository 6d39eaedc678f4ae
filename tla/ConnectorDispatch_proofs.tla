---------------------- MODULE ConnectorDispatch_proofs ----------------------
(***************************************************************************)
(* Proofs about ConnectorDispatch, for every number of tunnels, dispatches *)
(* and sessions, every reuse and retry bound, with and without probes.     *)
(***************************************************************************)
EXTENDS ConnectorDispatch, TLAPS

(***************************************************************************)
(* Type correctness.                                                       *)
(***************************************************************************)
\* The acceptor's steps keep every variable in its type.
LEMMA AcceptorType == TypeOK /\ AcceptorNext => TypeOK'
<1> SUFFICES ASSUME TypeOK, AcceptorNext PROVE TypeOK'
    OBVIOUS
<1> USE ConnectorOfAssumption, DispatchAssumption DEF TypeOK, RegistryTypeOK,
        TunnelStates, Terminal, Pcs, dispatchVars, sessionVars, registryVars
<1>1. ASSUME NEW t \in Tunnels, ResolveOwner(t) PROVE TypeOK'
    BY <1>1 DEF ResolveOwner
<1>2. ASSUME NEW t \in Tunnels, Register(t) PROVE TypeOK'
    BY <1>2 DEF Register, UpsertIdle
<1> QED  BY <1>1, <1>2 DEF AcceptorNext

\* So do those of a dispatch.
LEMMA DispatchType ==
    ASSUME NEW d \in Dispatches, TypeOK, DispatchNext(d) PROVE TypeOK'
<1> USE ConnectorOfAssumption, DispatchAssumption DEF TypeOK, RegistryTypeOK,
        TunnelStates, Terminal, Pcs, dispatchVars, sessionVars, registryVars,
        untouchedByDispatch, Goto
<1>1. CASE Acquire(d)                BY <1>1 DEF Acquire, AcquireIdle
<1>2. CASE AcquireFails(d)           BY <1>2 DEF AcquireFails
<1>3. CASE ProbeOk(d)                BY <1>3 DEF ProbeOk
<1>4. CASE ProbeStale(d)
  <2>1. attempts' \in [Dispatches -> Nat]  BY <1>4 DEF ProbeStale
  <2>2. pc' \in [Dispatches -> Pcs]  BY <1>4 DEF ProbeStale
  <2>3. failWith' \in [Dispatches -> Terminal]  BY <1>4 DEF ProbeStale
  <2>4. link' \in [Tunnels -> {"none", "up", "cut", "done"}]  BY <1>4 DEF ProbeStale
  <2> QED  BY <1>4, <2>1, <2>2, <2>3, <2>4 DEF ProbeStale
<1>5. CASE DispatchMarkActive(d)     BY <1>5 DEF DispatchMarkActive, MarkActive
<1>6. CASE TrafficSucceeds(d)        BY <1>6 DEF TrafficSucceeds
<1>7. CASE TrafficFails(d)           BY <1>7 DEF TrafficFails, GiveUp
<1>8. CASE RecycleCloses(d)          BY <1>8 DEF RecycleCloses, GiveUp
<1>9. CASE RecycleFails(d)           BY <1>9 DEF RecycleFails, GiveUp
<1>10. CASE RecycleAccepted(d)       BY <1>10 DEF RecycleAccepted
<1>11. CASE CommitRecycle(d)
    BY <1>11 DEF CommitRecycle, MarkIdleAfterRecycle, Finish
<1>12. CASE CloseLink(d)             BY <1>12 DEF CloseLink
<1>13. CASE DispatchMarkTerminal(d)
    BY <1>13 DEF DispatchMarkTerminal, MarkTerminal
<1>14. CASE DispatchRemove(d)        BY <1>14 DEF DispatchRemove, RemoveTerminal
<1> QED  BY <1>1, <1>2, <1>3, <1>4, <1>5, <1>6, <1>7, <1>8, <1>9, <1>10, <1>11,
            <1>12, <1>13, <1>14 DEF DispatchNext

\* Those of a watcher and of the peer.
LEMMA WatcherType ==
    ASSUME NEW t \in Tunnels, TypeOK, WatcherNext(t) \/ PeerDrop(t) PROVE TypeOK'
<1> USE ConnectorOfAssumption, DispatchAssumption DEF TypeOK, RegistryTypeOK,
        TunnelStates, Terminal, Pcs, dispatchVars, sessionVars, registryVars,
        untouchedByWatcher, WatchGoto
<1>1. CASE WatchDone(t)     BY <1>1 DEF WatchDone
<1>2. CASE WatchTick(t)     BY <1>2 DEF WatchTick
<1>3. CASE WatchProbe(t)    BY <1>3 DEF WatchProbe
<1>4. CASE WatchCheck(t)    BY <1>4 DEF WatchCheck
<1>5. CASE WatchBreak(t)    BY <1>5 DEF WatchBreak, MarkTerminal
<1>6. CASE WatchRemove(t)   BY <1>6 DEF WatchRemove, RemoveTerminal
<1>7. CASE PeerDrop(t)      BY <1>7 DEF PeerDrop
<1> QED  BY <1>1, <1>2, <1>3, <1>4, <1>5, <1>6, <1>7 DEF WatcherNext

\* And those of the sessions.
LEMMA SessionType == TypeOK /\ SessionNext => TypeOK'
<1> SUFFICES ASSUME TypeOK, SessionNext PROVE TypeOK'
    OBVIOUS
<1> USE ConnectorOfAssumption, DispatchAssumption DEF TypeOK, RegistryTypeOK,
        TunnelStates, Terminal, Pcs, dispatchVars, sessionVars, registryVars,
        untouchedBySession
<1>1. ASSUME NEW s \in Sessions, Deactivate(s) PROVE TypeOK'
    BY <1>1 DEF Deactivate
<1>2. ASSUME NEW s \in Sessions, Reactivate(s) PROVE TypeOK'
    BY <1>2 DEF Reactivate
<1>3. ASSUME NEW s \in Sessions, Purge(s) PROVE TypeOK'
    BY <1>3 DEF Purge, PurgeBySession, Drop, OfSession
<1>4. ASSUME NEW s \in Sessions, NEW limit \in 1..Cardinality(Tunnels),
             TrimIdle(s, limit)
      PROVE TypeOK'
    BY <1>4 DEF TrimIdle, RecycleIdleBySession, Drop, OfSession, IdleOf
<1>5. ASSUME NEW t \in Tunnels, CloseTaken(t) PROVE TypeOK'
    BY <1>5 DEF CloseTaken
<1> QED  BY <1>1, <1>2, <1>3, <1>4, <1>5 DEF SessionNext

\* Every reachable state is one the registry, the goroutines and the links can
\* be described by.
THEOREM TypeCorrect == Spec => []TypeOK
<1>1. Init => TypeOK
    BY ConnectorOfAssumption, DispatchAssumption
    DEF Init, RegistryInit, TypeOK, RegistryTypeOK, Terminal, Pcs
<1>2. TypeOK /\ [Next]_vars => TypeOK'
  <2> SUFFICES ASSUME TypeOK, [Next]_vars PROVE TypeOK'
      OBVIOUS
  <2>1. CASE UNCHANGED vars
      BY <2>1 DEF vars, registryVars, sessionVars, dispatchVars, TypeOK,
         RegistryTypeOK
  <2> QED  BY <2>1, AcceptorType, DispatchType, WatcherType, SessionType DEF Next
<1> QED  BY <1>1, <1>2, PTL DEF Spec

(***************************************************************************)
(* The inductive invariant: the safety properties, and what their          *)
(* preservation rests on: who can hold a tunnel, and what each stage of a  *)
(* dispatch and of a watcher has already done.                             *)
(***************************************************************************)
HeldWhileBusy == \A d \in Dispatches : held[d] = NoTunnel <=> ~Holding(d)

\* Before it is registered, nobody but the acceptor knows a tunnel.
UnknownBefore ==
    \A t \in Tunnels :
        accept[t] # "done" =>
            /\ tstate[t] = "none" /\ reuseCount[t] = 0
            /\ watch[t] = "none" /\ t \notin toClose
            /\ \A d \in Dispatches : held[d] # t

\* A tunnel in somebody's hands is not in the pool.
HeldIsNotIdle == \A d \in Dispatches : Holding(d) => tstate[held[d]] # "idle"

\* Whoever is about to mark or remove a tunnel found or made it closed.
ClosedBeforeMarked ==
    /\ \A d \in Dispatches : pc[d] \in {"terminal", "remove"} => link[held[d]] = "done"
    /\ \A t \in Tunnels : watch[t] \in {"check", "break", "remove"} => link[t] = "done"

CommitIsNotFinal == \A d \in Dispatches : pc[d] = "commit" => ~IsFinal(d)

IInv ==
    /\ TypeOK /\ HeldWhileBusy /\ UnknownBefore /\ HeldIsNotIdle
    /\ ClosedBeforeMarked /\ CommitIsNotFinal
    /\ Exclusive /\ NoLeak /\ ReuseBound /\ NoOrphanLink


\* A dispatch keeps the invariant.  Its local steps touch neither the registry
\* nor, but for closing it, the link; the five registry calls need that nobody
\* else holds the tunnel.
LEMMA DispatchInv ==
    ASSUME NEW d \in Dispatches, IInv, DispatchNext(d) PROVE IInv'
<1> USE ConnectorOfAssumption, DispatchAssumption DEF TypeOK, RegistryTypeOK,
        Terminal, Pcs, Holding, Registered, IInv, Goto, dispatchVars,
        sessionVars, registryVars, untouchedByDispatch
<1> USE DEF HeldWhileBusy, UnknownBefore, HeldIsNotIdle, ClosedBeforeMarked,
        CommitIsNotFinal, Exclusive, NoLeak, ReuseBound, NoOrphanLink, IsFinal
<1>0. TypeOK'
    BY DispatchType
<1>1. CASE AcquireFails(d)  BY <1>0, <1>1 DEF AcquireFails
<1>2. CASE ProbeOk(d)  BY <1>0, <1>2 DEF ProbeOk
<1>3. CASE ProbeStale(d)  BY <1>0, <1>3 DEF ProbeStale
<1>4. CASE TrafficSucceeds(d)  BY <1>0, <1>4 DEF TrafficSucceeds
<1>5. CASE TrafficFails(d)  BY <1>0, <1>5 DEF TrafficFails, GiveUp
<1>6. CASE RecycleCloses(d)  BY <1>0, <1>6 DEF RecycleCloses, GiveUp
<1>7. CASE RecycleFails(d)  BY <1>0, <1>7 DEF RecycleFails, GiveUp
<1>8. CASE RecycleAccepted(d)  BY <1>0, <1>8 DEF RecycleAccepted
<1>9. CASE CloseLink(d)  BY <1>0, <1>9 DEF CloseLink
<1>10. CASE Acquire(d)
  <2>1. PICK t \in Tunnels : AcquireIdle(Target[d], t) /\ held' = [held EXCEPT ![d] = t]
            /\ snapSeq' = [snapSeq EXCEPT ![d] = recycleSeq[t]]
            /\ snapReuse' = [snapReuse EXCEPT ![d] = reuseCount[t]]
      BY <1>10 DEF Acquire
  <2>2. /\ tstate[t] = "idle"
        /\ tstate' = [tstate EXCEPT ![t] = "reserved"]
        /\ UNCHANGED <<home, recycleSeq, reuseCount>>
      BY <2>1 DEF AcquireIdle, FirstIdleAt
  <2>3. /\ pc[d] = "start" /\ pc' = [pc EXCEPT ![d] = "probe"]
        /\ UNCHANGED <<accept, link, watch, toClose>>
      BY <1>10 DEF Acquire
  <2>4. \A e \in Dispatches : held[e] # t
      BY <2>2
  <2> HIDE DEF IInv
  <2>5. HeldWhileBusy' /\ UnknownBefore' /\ HeldIsNotIdle'
      BY <2>1, <2>2, <2>3, <2>4 DEF IInv
  <2>6. ClosedBeforeMarked' /\ CommitIsNotFinal' /\ NoOrphanLink'
      BY <2>1, <2>2, <2>3, <2>4 DEF IInv
  <2>7. Exclusive'
      BY <2>1, <2>2, <2>3, <2>4 DEF IInv
  <2>8. NoLeak'
      BY <2>1, <2>2, <2>3, <2>4 DEF IInv
  <2>9. ReuseBound'
      BY <2>1, <2>2, <2>3, <2>4 DEF IInv
  <2> QED  BY <1>0, <2>5, <2>6, <2>7, <2>8, <2>9 DEF IInv
<1>11. CASE DispatchMarkActive(d)
  <2>1. held[d] \in Tunnels /\ Holding(d)
      BY <1>11 DEF DispatchMarkActive
  <2>2. \A e \in Dispatches : e # d => held[e] # held[d]
      BY <2>1
  <2>3. CASE CanMarkActive(held[d])
    <3>1. /\ tstate' = [tstate EXCEPT ![held[d]] = "active"]
          /\ tstate[held[d]] = "reserved"
          /\ pc' = [pc EXCEPT ![d] = "traffic"]
          /\ UNCHANGED <<home, recycleSeq, reuseCount, held, snapSeq, snapReuse,
                         link, accept, toClose, watch>>
        BY <1>11, <2>3 DEF DispatchMarkActive, CanMarkActive, MarkActive
    <3> QED  BY <1>0, <2>1, <2>2, <3>1
  <2>4. CASE ~CanMarkActive(held[d])
    <3>1. /\ tstate[held[d]] # "reserved" /\ pc[d] = "mark"
          /\ pc' = [pc EXCEPT ![d] = "close"]
          /\ UNCHANGED <<registryVars, held, snapSeq, snapReuse, link, accept,
                         toClose, watch>>
        BY <1>11, <2>4 DEF DispatchMarkActive, CanMarkActive
    <3> QED  BY <1>0, <2>1, <2>2, <3>1
  <2> QED  BY <2>3, <2>4
<1>12. CASE CommitRecycle(d)
  <2>1. /\ held[d] \in Tunnels /\ Holding(d)
        /\ pc[d] = "commit"
        /\ pc' = [pc EXCEPT ![d] = "start"] /\ held' = [held EXCEPT ![d] = NoTunnel]
        /\ snapSeq' = [snapSeq EXCEPT ![d] = 0] /\ snapReuse' = [snapReuse EXCEPT ![d] = 0]
        /\ UNCHANGED <<link, accept, toClose, watch>>
      BY <1>12 DEF CommitRecycle, Finish
  <2>2. \A e \in Dispatches : e # d => held[e] # held[d]
      BY <2>1
  <2>3. CASE CanMarkIdle(held[d], snapSeq[d] + 1)
    <3>1. /\ tstate[held[d]] \in {"active", "reserved"}
          /\ tstate' = [tstate EXCEPT ![held[d]] = "idle"]
          /\ recycleSeq' = [recycleSeq EXCEPT ![held[d]] = snapSeq[d] + 1]
          /\ reuseCount' = [reuseCount EXCEPT ![held[d]] = @ + 1]
          /\ UNCHANGED home
        BY <1>12, <2>3 DEF CommitRecycle, CanMarkIdle, MarkIdleAfterRecycle
    <3>2. ReuseBound'
      <4>1. /\ snapSeq[d] = recycleSeq[held[d]] /\ snapReuse[d] = reuseCount[held[d]]
            /\ recycleSeq[held[d]] = reuseCount[held[d]]
            /\ snapReuse[d] + 1 < MaxReuse
          BY <2>1, <3>1
      <4> HIDE DEF IInv, NoLeak, Exclusive, UnknownBefore
      <4> QED  BY <1>0, <2>1, <2>2, <3>1, <4>1 DEF IInv
    <3>3. NoLeak'
        BY <1>0, <2>1, <2>2, <3>1
    <3>4. HeldWhileBusy' /\ UnknownBefore' /\ HeldIsNotIdle'
        BY <1>0, <2>1, <2>2, <3>1
    <3>5. ClosedBeforeMarked' /\ CommitIsNotFinal' /\ Exclusive' /\ NoOrphanLink'
        BY <1>0, <2>1, <2>2, <3>1
    <3> QED  BY <1>0, <3>2, <3>3, <3>4, <3>5
  <2>4. CASE ~CanMarkIdle(held[d], snapSeq[d] + 1)
    <3>1. tstate[held[d]] \notin {"active", "reserved"}
        BY <2>1, <2>4 DEF CanMarkIdle
    <3>2. UNCHANGED registryVars
        BY <1>12, <2>4 DEF CommitRecycle
    <3> QED  BY <1>0, <2>1, <2>2, <3>1, <3>2
  <2> QED  BY <2>3, <2>4
<1>13. CASE DispatchMarkTerminal(d)
  <2>1. held[d] \in Tunnels /\ Holding(d)
      BY <1>13 DEF DispatchMarkTerminal
  <2>2. \A e \in Dispatches : e # d => held[e] # held[d]
      BY <2>1
  <2> QED
      BY <1>0, <1>13, <2>1, <2>2 DEF DispatchMarkTerminal, CanMarkTerminal,
         MarkTerminal
<1>14. CASE DispatchRemove(d)
  <2>1. held[d] \in Tunnels /\ Holding(d)
      BY <1>14 DEF DispatchRemove
  <2>2. \A e \in Dispatches : e # d => held[e] # held[d]
      BY <2>1
  <2>3. tstate[held[d]] \in Terminal \cup {"none"}
      BY <1>14, <2>1, <2>2 DEF DispatchRemove, TunnelStates
  <2>4. tstate' = [tstate EXCEPT ![held[d]] = "none"]
      BY <1>14, <2>1, <2>3 DEF DispatchRemove, CanRemoveTerminal, RemoveTerminal
  <2>5. UNCHANGED <<home, recycleSeq, reuseCount>>
      BY <1>14 DEF DispatchRemove, RemoveTerminal
  <2>6. link[held[d]] = "done"
      BY <1>14 DEF DispatchRemove
  <2> QED  BY <1>0, <1>14, <2>1, <2>2, <2>4, <2>5, <2>6 DEF DispatchRemove
<1> QED  BY <1>1, <1>2, <1>3, <1>4, <1>5, <1>6, <1>7, <1>8, <1>9, <1>10, <1>11,
            <1>12, <1>13, <1>14 DEF DispatchNext

\* So does the acceptor: the tunnel it registers is known to nobody.
LEMMA AcceptorInv == IInv /\ AcceptorNext => IInv'
<1> SUFFICES ASSUME IInv, AcceptorNext PROVE IInv'
    OBVIOUS
<1> USE ConnectorOfAssumption, DispatchAssumption DEF TypeOK, RegistryTypeOK,
        Terminal, TunnelStates, Pcs, Holding, Registered, IInv, dispatchVars,
        sessionVars, registryVars
<1> USE DEF HeldWhileBusy, UnknownBefore, HeldIsNotIdle, ClosedBeforeMarked,
        CommitIsNotFinal, Exclusive, NoLeak, ReuseBound, NoOrphanLink, IsFinal
<1>0. TypeOK'
    BY AcceptorType
<1>1. ASSUME NEW t \in Tunnels, ResolveOwner(t) PROVE IInv'
    BY <1>0, <1>1 DEF ResolveOwner
<1>2. ASSUME NEW t \in Tunnels, Register(t) PROVE IInv'
  <2>1. /\ accept[t] = "resolved" /\ accept' = [accept EXCEPT ![t] = "done"]
        /\ tstate[t] = "none" /\ \A d \in Dispatches : held[d] # t
        /\ UNCHANGED <<pc, held, snapSeq, snapReuse, toClose>>
      BY <1>2 DEF Register
  <2>2. /\ tstate' = [tstate EXCEPT ![t] = "idle"]
        /\ recycleSeq' = [recycleSeq EXCEPT ![t] = 0]
        /\ reuseCount' = [reuseCount EXCEPT ![t] = 0]
        /\ watch' = [watch EXCEPT ![t] = "watching"]
        /\ UNCHANGED link
      BY <1>2, <2>1 DEF Register, CanUpsertIdle, UpsertIdle
  <2>3. ReuseBound' /\ NoLeak'
      BY <1>0, <2>1, <2>2
  <2>4. UnknownBefore' /\ HeldIsNotIdle' /\ NoOrphanLink' /\ ClosedBeforeMarked'
      BY <1>0, <2>1, <2>2
  <2> QED  BY <1>0, <2>1, <2>2, <2>3, <2>4
<1> QED  BY <1>1, <1>2 DEF AcceptorNext

\* A watcher may break any record that is not terminal, and then removes it.
LEMMA WatcherInv ==
    ASSUME NEW t \in Tunnels, IInv, WatcherNext(t) \/ PeerDrop(t) PROVE IInv'
<1> USE ConnectorOfAssumption, DispatchAssumption DEF TypeOK, RegistryTypeOK,
        Terminal, TunnelStates, Pcs, Holding, Registered, IInv, dispatchVars,
        sessionVars, registryVars,
        untouchedByWatcher, WatchGoto
<1> USE DEF HeldWhileBusy, UnknownBefore, HeldIsNotIdle, ClosedBeforeMarked,
        CommitIsNotFinal, Exclusive, NoLeak, ReuseBound, NoOrphanLink, IsFinal
<1>0. TypeOK'
    BY WatcherType
<1>1. CASE WatchDone(t)     BY <1>0, <1>1 DEF WatchDone
<1>2. CASE WatchTick(t)     BY <1>0, <1>2 DEF WatchTick
<1>3. CASE WatchProbe(t)    BY <1>0, <1>3 DEF WatchProbe
<1>4. CASE WatchCheck(t)    BY <1>0, <1>4 DEF WatchCheck
<1>5. CASE WatchBreak(t)
    BY <1>0, <1>5 DEF WatchBreak, CanMarkTerminal, MarkTerminal
<1>6. CASE WatchRemove(t)
    BY <1>0, <1>6 DEF WatchRemove, CanRemoveTerminal, RemoveTerminal
<1>7. CASE PeerDrop(t)      BY <1>0, <1>7 DEF PeerDrop
<1> QED  BY <1>1, <1>2, <1>3, <1>4, <1>5, <1>6, <1>7 DEF WatcherNext

\* Purges and trims take whole records out and leave them in toClose.
LEMMA SessionInv == IInv /\ SessionNext => IInv'
<1> SUFFICES ASSUME IInv, SessionNext PROVE IInv'
    OBVIOUS
<1> USE ConnectorOfAssumption, DispatchAssumption DEF TypeOK, RegistryTypeOK,
        Terminal, TunnelStates, Pcs, Holding, Registered, IInv, dispatchVars,
        sessionVars, registryVars,
        untouchedBySession
<1> USE DEF HeldWhileBusy, UnknownBefore, HeldIsNotIdle, ClosedBeforeMarked,
        CommitIsNotFinal, Exclusive, NoLeak, ReuseBound, NoOrphanLink, IsFinal
<1>0. TypeOK'
    BY SessionType
<1>1. ASSUME NEW s \in Sessions, Deactivate(s) PROVE IInv'
    BY <1>0, <1>1 DEF Deactivate
<1>2. ASSUME NEW s \in Sessions, Reactivate(s) PROVE IInv'
    BY <1>0, <1>2 DEF Reactivate
<1>3. ASSUME NEW s \in Sessions, Purge(s) PROVE IInv'
    BY <1>0, <1>3 DEF Purge, PurgeBySession, Drop, OfSession
<1>4. ASSUME NEW s \in Sessions, NEW limit \in 1..Cardinality(Tunnels),
             TrimIdle(s, limit)
      PROVE IInv'
  <2>1. PICK ts \in SUBSET IdleOf(s) : Drop(ts) /\ toClose' = toClose \cup ts
      BY <1>4 DEF TrimIdle, RecycleIdleBySession
  <2>2. UNCHANGED <<active, purging, untouchedBySession>>
      BY <1>4 DEF TrimIdle
  <2> QED  BY <1>0, <2>1, <2>2 DEF Drop, IdleOf, OfSession
<1>5. ASSUME NEW t \in Tunnels, CloseTaken(t) PROVE IInv'
    BY <1>0, <1>5 DEF CloseTaken
<1> QED  BY <1>1, <1>2, <1>3, <1>4, <1>5 DEF SessionNext

\* The invariant holds in every reachable state.
THEOREM Invariance == Spec => []IInv
<1>1. Init => IInv
  <2> SUFFICES ASSUME Init PROVE IInv
      OBVIOUS
  <2>1. TypeOK
      BY ConnectorOfAssumption, DispatchAssumption
      DEF Init, RegistryInit, TypeOK, RegistryTypeOK, Terminal, Pcs
  <2> QED
      BY <2>1, DispatchAssumption
      DEF Init, RegistryInit, IInv, HeldWhileBusy, UnknownBefore, HeldIsNotIdle,
          ClosedBeforeMarked, CommitIsNotFinal, Exclusive, NoLeak, ReuseBound,
          NoOrphanLink, Holding, Registered, Terminal
<1>2. IInv /\ [Next]_vars => IInv'
  <2> SUFFICES ASSUME IInv, [Next]_vars PROVE IInv'
      OBVIOUS
  <2>1. CASE UNCHANGED vars
      BY <2>1
      DEF vars, registryVars, sessionVars, dispatchVars, IInv, TypeOK,
          RegistryTypeOK, HeldWhileBusy, UnknownBefore, HeldIsNotIdle,
          ClosedBeforeMarked, CommitIsNotFinal, Exclusive, NoLeak, ReuseBound,
          NoOrphanLink, Holding, Registered, IsFinal
  <2> QED  BY <2>1, AcceptorInv, DispatchInv, WatcherInv, SessionInv DEF Next
<1> QED  BY <1>1, <1>2, PTL DEF Spec

\* No two requests ever have the same tunnel.
THEOREM ExclusiveHolds == Spec => []Exclusive
<1>1. IInv => Exclusive
    BY DEF IInv
<1> QED  BY <1>1, Invariance, PTL

\* No record is stuck out of the pool.
THEOREM NoLeakHolds == Spec => []NoLeak
<1>1. IInv => NoLeak
    BY DEF IInv
<1> QED  BY <1>1, Invariance, PTL

\* No tunnel carries more than MaxReuse traffics.
THEOREM ReuseBoundHolds == Spec => []ReuseBound
<1>1. IInv => ReuseBound
    BY DEF IInv
<1> QED  BY <1>1, Invariance, PTL

\* No connection outlives its record unnoticed.
THEOREM NoOrphanLinkHolds == Spec => []NoOrphanLink
<1>1. IInv => NoOrphanLink
    BY DEF IInv
<1> QED  BY <1>1, Invariance, PTL

(***************************************************************************)
(* ConnectorDispatch implements TunnelLease.                               *)
(***************************************************************************)
\* A step that leaves the state of every record, every holder and the acceptor
\* alone is invisible to the borrowers.
LEMMA Invisible ==
    UNCHANGED <<tstate, held, accept, reuseCount>> => UNCHANGED Lease!vars
BY DEF Lease!vars, IdleNow, LentNow, GoneNow

\* Records that leave the pool for a terminal state or for good are retired.
LEMMA TakenOutIsRetired ==
    ASSUME IInv, NEW ts \in SUBSET Tunnels, \A t \in ts : tstate[t] # "none",
           \A t \in ts : tstate'[t] \in Terminal \cup {"none"},
           \A t \in Tunnels \ ts : tstate'[t] = tstate[t],
           UNCHANGED <<held, accept, reuseCount>>
    PROVE  [Lease!Next]_(Lease!vars)
<1> DEFINE out == {t \in ts : tstate[t] \notin Terminal}
<1> USE DEF IdleNow, LentNow, GoneNow
<1>1. \A t \in Tunnels : tstate[t] # "none" => accept[t] = "done"
    BY DEF IInv, UnknownBefore
<1>2. \A t \in out : t \in IdleNow \/ Lease!IsLent(t)
  <2> SUFFICES ASSUME NEW t \in out, t \notin IdleNow PROVE Lease!IsLent(t)
      OBVIOUS
  <2>1. tstate[t] \in {"reserved", "active"}
      BY DEF IInv, TypeOK, RegistryTypeOK, TunnelStates, Terminal
  <2>2. PICK d \in Dispatches : held[d] = t
      BY <2>1 DEF IInv, NoLeak
  <2> QED  BY <2>1, <2>2 DEF Lease!IsLent
<1>3. IdleNow' = IdleNow \ out
    BY DEF Terminal
<1>4. LentNow' = [d \in Dispatches |-> LentNow[d] \ out]
    BY DEF Terminal
<1>5. GoneNow' = GoneNow \cup out
    BY <1>1
<1>6. Lease!Retire(out)
    BY <1>2, <1>3, <1>4, <1>5 DEF Lease!Retire
<1>7. out \in SUBSET Tunnels
    OBVIOUS
<1> HIDE DEF out, IdleNow, LentNow, GoneNow
<1>8. \E us \in SUBSET Tunnels : Lease!Retire(us)
    BY <1>6, <1>7
<1> QED  BY <1>8 DEF Lease!Next

\* What a dispatch does is a loan, its end, a retirement, or invisible.
LEMMA DispatchLease ==
    ASSUME IInv, NEW d \in Dispatches, DispatchNext(d)
    PROVE  [Lease!Next]_(Lease!vars)
<1> USE DEF Goto, untouchedByDispatch, registryVars
<1>1. CASE \/ AcquireFails(d) \/ ProbeOk(d) \/ ProbeStale(d) \/ TrafficSucceeds(d)
           \/ TrafficFails(d) \/ RecycleCloses(d) \/ RecycleFails(d)
           \/ RecycleAccepted(d) \/ CloseLink(d)
    BY <1>1, Invisible
    DEF AcquireFails, ProbeOk, ProbeStale, TrafficSucceeds, TrafficFails,
        RecycleCloses, RecycleFails, RecycleAccepted, CloseLink, GiveUp
<1>2. CASE Acquire(d)
  <2>1. PICK t \in Tunnels : AcquireIdle(Target[d], t) /\ held' = [held EXCEPT ![d] = t]
      BY <1>2 DEF Acquire
  <2>2. /\ tstate[t] = "idle"
        /\ tstate' = [tstate EXCEPT ![t] = "reserved"]
        /\ UNCHANGED <<accept, reuseCount>>
      BY <1>2, <2>1 DEF Acquire, AcquireIdle, FirstIdleAt
  <2>3. held[d] = NoTunnel
      BY <1>2 DEF Acquire, IInv, HeldWhileBusy, Holding
  <2>4. \A e \in Dispatches : held[e] # t
      BY <2>2, DispatchAssumption DEF IInv, HeldIsNotIdle, HeldWhileBusy
  <2>5. IdleNow' = IdleNow \ {t} /\ GoneNow' = GoneNow
      BY <2>2 DEF IdleNow, GoneNow, IInv, TypeOK, RegistryTypeOK, Terminal
  <2>6. LentNow' = [LentNow EXCEPT ![d] = {t}]
    <3>1. \A e \in Dispatches : LentNow'[e] = IF e = d THEN {t} ELSE LentNow[e]
        BY <2>1, <2>2, <2>3, <2>4, DispatchAssumption
        DEF LentNow, IInv, TypeOK, RegistryTypeOK
    <3> QED  BY <3>1 DEF LentNow
  <2>7. t \in IdleNow /\ ~Lease!IsLent(t) /\ LentNow[d] = {}
      BY <2>2, <2>3, DispatchAssumption DEF IdleNow, LentNow, Lease!IsLent
  <2> QED  BY <2>2, <2>5, <2>6, <2>7 DEF Lease!Next, Lease!Lend
<1>3. CASE DispatchMarkActive(d)
  <2>1. CASE CanMarkActive(held[d])
    <3>1. /\ tstate' = [tstate EXCEPT ![held[d]] = "active"] /\ tstate[held[d]] = "reserved"
          /\ UNCHANGED <<held, accept, reuseCount>>
        BY <1>3, <2>1 DEF DispatchMarkActive, MarkActive, CanMarkActive
    <3> QED  BY <3>1 DEF Lease!vars, IdleNow, LentNow, GoneNow, IInv, TypeOK,
                         RegistryTypeOK, Terminal
  <2>2. CASE ~CanMarkActive(held[d])
      BY <1>3, <2>2, Invisible DEF DispatchMarkActive
  <2> QED  BY <2>1, <2>2
<1>4. CASE CommitRecycle(d)
  <2>1. /\ held[d] \in Tunnels /\ Holding(d) /\ held' = [held EXCEPT ![d] = NoTunnel]
        /\ UNCHANGED accept
      BY <1>4 DEF CommitRecycle, Finish, IInv, HeldWhileBusy, Holding, TypeOK
  <2>2. \A e \in Dispatches : e # d => held[e] # held[d]
      BY <2>1, DispatchAssumption DEF IInv, Exclusive, HeldWhileBusy
  <2>3. CASE CanMarkIdle(held[d], snapSeq[d] + 1)
    <3>1. /\ tstate[held[d]] \in {"reserved", "active"}
          /\ tstate' = [tstate EXCEPT ![held[d]] = "idle"]
          /\ reuseCount' = [reuseCount EXCEPT ![held[d]] = @ + 1]
        BY <1>4, <2>3 DEF CommitRecycle, MarkIdleAfterRecycle, CanMarkIdle
    <3>2. IdleNow' = IdleNow \cup {held[d]} /\ GoneNow' = GoneNow
        BY <2>1, <3>1 DEF IdleNow, GoneNow, IInv, TypeOK, RegistryTypeOK, Terminal
    <3>3. LentNow[d] = {held[d]} /\ LentNow' = [LentNow EXCEPT ![d] = {}]
      <4>1. \A e \in Dispatches : LentNow'[e] = IF e = d THEN {} ELSE LentNow[e]
          BY <2>1, <2>2, <3>1, DispatchAssumption
          DEF LentNow, IInv, TypeOK, RegistryTypeOK
      <4>2. LentNow[d] = {held[d]}
          BY <2>1, <3>1 DEF LentNow
      <4> QED  BY <4>1, <4>2 DEF LentNow
    <3>4. reuseCount[held[d]] + 1 < MaxReuse
        BY <1>4, <2>1, <3>1, DispatchAssumption
        DEF CommitRecycle, IInv, CommitIsNotFinal, IsFinal, ReuseBound, Registered,
            TypeOK, RegistryTypeOK, Holding
    <3> QED  BY <2>1, <3>1, <3>2, <3>3, <3>4 DEF Lease!Next, Lease!GiveBack
  <2>4. CASE ~CanMarkIdle(held[d], snapSeq[d] + 1)
    <3>1. tstate[held[d]] \notin {"reserved", "active"}
        BY <1>4, <2>1, <2>2, <2>4
        DEF CommitRecycle, CanMarkIdle, IInv, NoLeak, ReuseBound, Registered,
            TypeOK, RegistryTypeOK
    <3>2. UNCHANGED <<tstate, reuseCount>>
        BY <1>4, <2>4 DEF CommitRecycle
    <3>3. LentNow' = LentNow
        BY <2>1, <2>2, <3>1, <3>2, DispatchAssumption DEF LentNow, IInv, TypeOK
    <3> QED  BY <2>1, <3>2, <3>3 DEF Lease!vars, IdleNow, GoneNow
  <2> QED  BY <2>3, <2>4
<1>5. CASE DispatchMarkTerminal(d)
  <2>1. held[d] \in Tunnels /\ UNCHANGED <<held, accept>>
      BY <1>5 DEF DispatchMarkTerminal, IInv, HeldWhileBusy, Holding, TypeOK
  <2>2. CASE CanMarkTerminal(held[d], failWith[d])
    <3>1. /\ tstate[held[d]] # "none" /\ failWith[d] \in Terminal
          /\ tstate' = [tstate EXCEPT ![held[d]] = failWith[d]]
          /\ UNCHANGED reuseCount
        BY <1>5, <2>2
        DEF DispatchMarkTerminal, MarkTerminal, CanMarkTerminal, Terminal
    <3>2. {held[d]} \in SUBSET Tunnels
        BY <2>1
    <3>3. /\ \A t \in {held[d]} : tstate[t] # "none"
          /\ \A t \in {held[d]} : tstate'[t] \in Terminal \cup {"none"}
          /\ \A t \in Tunnels \ {held[d]} : tstate'[t] = tstate[t]
        BY <2>1, <3>1 DEF IInv, TypeOK, RegistryTypeOK
    <3> QED  BY <2>1, <3>1, <3>2, <3>3, TakenOutIsRetired
  <2>3. CASE ~CanMarkTerminal(held[d], failWith[d])
      BY <1>5, <2>1, <2>3, Invisible DEF DispatchMarkTerminal
  <2> QED  BY <2>2, <2>3
<1>6. CASE DispatchRemove(d)
  <2>1. /\ held[d] \in Tunnels /\ Holding(d) /\ held' = [held EXCEPT ![d] = NoTunnel]
        /\ UNCHANGED <<accept, reuseCount>>
      BY <1>6 DEF DispatchRemove, RemoveTerminal, IInv, HeldWhileBusy, Holding,
         TypeOK
  <2>2. \A e \in Dispatches : e # d => held[e] # held[d]
      BY <2>1, DispatchAssumption DEF IInv, Exclusive, HeldWhileBusy
  <2>3. tstate[held[d]] \in Terminal \cup {"none"}
      BY <1>6, <2>1, <2>2
      DEF DispatchRemove, IInv, NoLeak, HeldIsNotIdle, Holding, TypeOK,
          RegistryTypeOK, TunnelStates, Terminal
  <2>4. \A t \in Tunnels : \/ tstate'[t] = tstate[t]
                           \/ t = held[d] /\ tstate'[t] = "none"
      BY <1>6, <2>1, <2>3
      DEF DispatchRemove, RemoveTerminal, CanRemoveTerminal, IInv, TypeOK, RegistryTypeOK
  <2>5. IdleNow' = IdleNow /\ GoneNow' = GoneNow
      BY <2>1, <2>3, <2>4 DEF IdleNow, GoneNow, Terminal
  <2>6. LentNow' = LentNow
      BY <2>1, <2>2, <2>3, <2>4, DispatchAssumption DEF LentNow, Terminal, IInv,
         TypeOK
  <2> QED  BY <2>1, <2>5, <2>6 DEF Lease!vars
<1> QED  BY <1>1, <1>2, <1>3, <1>4, <1>5, <1>6 DEF DispatchNext

\* Registering a tunnel offers it; resolving its owner is invisible.
LEMMA AcceptorLease == IInv /\ AcceptorNext => [Lease!Next]_(Lease!vars)
<1> SUFFICES ASSUME IInv, AcceptorNext PROVE [Lease!Next]_(Lease!vars)
    OBVIOUS
<1>1. ASSUME NEW t \in Tunnels, ResolveOwner(t) PROVE [Lease!Next]_(Lease!vars)
    BY <1>1
    DEF ResolveOwner, registryVars, dispatchVars, Lease!vars, IdleNow, LentNow,
        GoneNow, IInv, TypeOK
<1>2. ASSUME NEW t \in Tunnels, Register(t) PROVE [Lease!Next]_(Lease!vars)
  <2>1. /\ accept[t] = "resolved" /\ accept' = [accept EXCEPT ![t] = "done"]
        /\ tstate[t] = "none" /\ reuseCount[t] = 0 /\ reuseCount \in [Tunnels -> Nat]
        /\ UNCHANGED held
      BY <1>2 DEF Register, dispatchVars, IInv, UnknownBefore, TypeOK,
         RegistryTypeOK
  <2>2. /\ tstate' = [tstate EXCEPT ![t] = "idle"]
        /\ reuseCount' = [reuseCount EXCEPT ![t] = 0]
      BY <1>2, <2>1 DEF Register, CanUpsertIdle, Registered, UpsertIdle
  <2>3. IdleNow' = IdleNow \cup {t} /\ GoneNow' = GoneNow /\ t \notin IdleNow \cup GoneNow
      BY <2>1, <2>2 DEF IdleNow, GoneNow, IInv, TypeOK, RegistryTypeOK, Terminal
  <2>4. LentNow' = LentNow /\ ~Lease!IsLent(t)
      BY <2>1, <2>2 DEF LentNow, Lease!IsLent, IInv, TypeOK, RegistryTypeOK
  <2>5. UNCHANGED reuseCount
      BY <2>1, <2>2
  <2> QED  BY <2>3, <2>4, <2>5 DEF Lease!Next, Lease!Offer
<1> QED  BY <1>1, <1>2 DEF AcceptorNext

\* A watcher retires the tunnel whose record it breaks.
LEMMA WatcherLease ==
    ASSUME IInv, NEW t \in Tunnels, WatcherNext(t) \/ PeerDrop(t)
    PROVE  [Lease!Next]_(Lease!vars)
<1> USE DEF untouchedByWatcher, dispatchVars, registryVars
<1>1. CASE WatchDone(t) \/ WatchTick(t) \/ WatchProbe(t) \/ WatchCheck(t) \/ PeerDrop(t)
    BY <1>1, Invisible DEF WatchDone, WatchTick, WatchProbe, WatchCheck, PeerDrop
<1>2. CASE WatchBreak(t)
  <2>1. CASE CanMarkTerminal(t, "broken")
    <3>1. /\ tstate[t] # "none"
          /\ tstate' = [tstate EXCEPT ![t] = "broken"]
          /\ UNCHANGED <<held, accept, reuseCount>>
        BY <1>2, <2>1 DEF WatchBreak, MarkTerminal, CanMarkTerminal
    <3>2. {t} \in SUBSET Tunnels
        OBVIOUS
    <3>3. /\ \A u \in {t} : tstate[u] # "none"
          /\ \A u \in {t} : tstate'[u] \in Terminal \cup {"none"}
          /\ \A u \in Tunnels \ {t} : tstate'[u] = tstate[u]
        BY <3>1 DEF IInv, TypeOK, RegistryTypeOK, Terminal
    <3> QED  BY <3>1, <3>2, <3>3, TakenOutIsRetired
  <2>2. CASE ~CanMarkTerminal(t, "broken")
      BY <1>2, <2>2, Invisible DEF WatchBreak
  <2> QED  BY <2>1, <2>2
<1>3. CASE WatchRemove(t)
  <2>1. CASE CanRemoveTerminal(t)
    <3>1. /\ tstate[t] \in Terminal
          /\ tstate' = [tstate EXCEPT ![t] = "none"]
          /\ UNCHANGED <<held, accept, reuseCount>>
        BY <1>3, <2>1 DEF WatchRemove, RemoveTerminal, CanRemoveTerminal
    <3> QED  BY <3>1 DEF Lease!vars, IdleNow, LentNow, GoneNow, IInv, TypeOK,
                         RegistryTypeOK, Terminal
  <2>2. CASE ~CanRemoveTerminal(t)
      BY <1>3, <2>2, Invisible DEF WatchRemove
  <2> QED  BY <2>1, <2>2
<1> QED  BY <1>1, <1>2, <1>3 DEF WatcherNext

\* A purge or a trim retires what it takes.
LEMMA SessionLease == IInv /\ SessionNext => [Lease!Next]_(Lease!vars)
<1> SUFFICES ASSUME IInv, SessionNext PROVE [Lease!Next]_(Lease!vars)
    OBVIOUS
<1> USE DEF untouchedBySession, dispatchVars, registryVars
<1>1. ASSUME NEW s \in Sessions, Deactivate(s) \/ Reactivate(s)
      PROVE  [Lease!Next]_(Lease!vars)
    BY <1>1, Invisible DEF Deactivate, Reactivate
<1>2. ASSUME NEW t \in Tunnels, CloseTaken(t) PROVE [Lease!Next]_(Lease!vars)
    BY <1>2, Invisible DEF CloseTaken
<1>3. ASSUME NEW ts \in SUBSET Tunnels, \A t \in ts : tstate[t] # "none", Drop(ts),
             UNCHANGED <<held, accept>>
      PROVE  [Lease!Next]_(Lease!vars)
  <2>1. /\ \A t \in ts : tstate'[t] \in Terminal \cup {"none"}
        /\ \A t \in Tunnels \ ts : tstate'[t] = tstate[t]
        /\ UNCHANGED reuseCount
      BY <1>3 DEF Drop
  <2> QED  BY <1>3, <2>1, TakenOutIsRetired
<1>4. ASSUME NEW s \in Sessions, Purge(s) PROVE [Lease!Next]_(Lease!vars)
    BY <1>3, <1>4 DEF Purge, PurgeBySession, OfSession, Registered
<1>5. ASSUME NEW s \in Sessions, NEW limit \in 1..Cardinality(Tunnels),
             TrimIdle(s, limit)
      PROVE  [Lease!Next]_(Lease!vars)
  <2>1. PICK ts \in SUBSET IdleOf(s) : Drop(ts) /\ UNCHANGED <<held, accept>>
      BY <1>5 DEF TrimIdle, RecycleIdleBySession
  <2>2. ts \in SUBSET Tunnels /\ \A t \in ts : tstate[t] # "none"
      BY DEF IdleOf, OfSession, Registered
  <2> QED  BY <1>3, <2>1, <2>2
<1> QED  BY <1>1, <1>2, <1>4, <1>5 DEF SessionNext

\* The registry and everything that acts on it implement the lease: whatever the
\* interleaving, a tunnel has one borrower at a time, comes back at most
\* MaxReuse - 1 times, and not at all once it was taken out.
THEOREM ImplementsLeaseHolds == Spec => ImplementsLease
<1>1. Init => Lease!Init
    BY DEF Init, RegistryInit, Lease!Init, IdleNow, LentNow, GoneNow
<1>2. IInv /\ [Next]_vars => [Lease!Next]_(Lease!vars)
  <2> SUFFICES ASSUME IInv, [Next]_vars PROVE [Lease!Next]_(Lease!vars)
      OBVIOUS
  <2>1. CASE UNCHANGED vars
      BY <2>1, Invisible DEF vars, registryVars, dispatchVars
  <2>2. CASE Next
      BY <2>2, AcceptorLease, DispatchLease, WatcherLease, SessionLease DEF Next
  <2> QED  BY <2>1, <2>2
<1> QED  BY <1>1, <1>2, Invariance, PTL DEF Spec, ImplementsLease, Lease!Spec
=============================================================================
