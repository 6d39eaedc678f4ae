------------------------- MODULE BridgeServer_proofs -------------------------
(***************************************************************************)
(* Proofs about the parts of BridgeServer: the handshake (ControlHandshake, *)
(* for any finite set of channels, any connectors and any limits), the      *)
(* configuration (ConfigStore), the certificates (ServerCertificates), the  *)
(* connector tokens (TokenStore) and the admin API (AdminApi), and what     *)
(* follows for the parts side by side.                                      *)
(***************************************************************************)
EXTENDS BridgeServer, FiniteSetTheorems, SequenceTheorems, WellFoundedInduction, TLAPS

WithLock(c) == chan[c].pc \in {"wait", "decide", "commit", "confirm", "unlock", "forget"}
Holding(c)  == chan[c].pc \in {"decide", "commit", "confirm", "unlock"}
Busy(c)     == chan[c].pc \notin {"new", "ready", "over"}

\* The channels that hold the lock l of connector k or wait for it.
Users(k, l) == {c \in Channels : WithLock(c) /\ chan[c].connector = k /\ chan[c].lock = l}

\* What a channel knows of itself: a channel that authenticates has said hello.
Placed ==
    \A c \in Channels :
        /\ chan[c].epoch # 0 => chan[c].connector \in Connectors
        /\ Busy(c) => chan[c].epoch # 0
        /\ chan[c].pc = "new" => ~chan[c].reserved

\* Whoever uses a lock of a connector uses the one in the map.
LocksNamed ==
    \A c \in Channels : WithLock(c) =>
        chan[c].lock \in Channels /\ lockOf[chan[c].connector] = chan[c].lock

RefsExact == \A k \in Connectors, l \in Channels : refs[k][l] = Cardinality(Users(k, l))

HoldersHold == \A c \in Channels : Holding(c) => holder[chan[c].connector][chan[c].lock] = c

\* A channel that is to take its connector over has found room for that.
Room ==
    \A c \in Channels : chan[c].pc \in {"commit", "confirm"} /\ chan[c].took =>
        Cardinality(takeovers[chan[c].connector]) < TakeoverLimit

LockInv == Placed /\ LocksNamed /\ RefsExact /\ HoldersHold

IInv == TypeOK /\ LockInv /\ Room /\ GuardsCount

(***************************************************************************)
(* Type correctness.                                                       *)
(***************************************************************************)
\* What is left of a connector's takeovers is a finite set of them.
LEMMA CountedTypes ==
    ASSUME TypeOK, NEW c \in Channels, chan[c].connector \in Connectors
    PROVE  /\ Counted(c) \subseteq takeovers[chan[c].connector]
           /\ Counted(c) \in SUBSET [session : Nat, at : Nat]
           /\ IsFiniteSet(Counted(c))
           /\ Cardinality(Counted(c)) \in Nat
           /\ Cardinality(Counted(c)) <= Cardinality(takeovers[chan[c].connector])
  <1>1. Counted(c) \in SUBSET takeovers[chan[c].connector]
        BY DEF Counted
  <1>2. takeovers[chan[c].connector] \in SUBSET [session : Nat, at : Nat]
        BY DEF TypeOK
  <1>3. IsFiniteSet(takeovers[chan[c].connector])
        BY DEF TypeOK
  <1>4. /\ IsFiniteSet(Counted(c))
        /\ Cardinality(Counted(c)) <= Cardinality(takeovers[chan[c].connector])
        BY <1>1, <1>3, FS_Subset
  <1> QED BY <1>1, <1>2, <1>4, FS_CardinalityType

\* A channel that authenticates does so for a connector.
LEMMA BusyConnector ==
    ASSUME Placed, NEW c \in Channels, Busy(c)
    PROVE  chan[c].connector \in Connectors
  BY DEF Placed

\* The steps of channel c but its hello and its end.
Step(c) ==
    \/ Reserve(c) \/ Auth(c) \/ Refuse(c) \/ Break(c) \/ Accept(c) \/ Wait(c) \/ Acquire(c)
    \/ Decide(c) \/ Commit(c) \/ Confirm(c) \/ Unlock(c) \/ Forget(c) \/ Succeed(c) \/ Release(c)

\* The lock that a channel asks for is one.
LEMMA LockForType ==
    ASSUME TypeOK, Placed, NEW c \in Channels, Busy(c)
    PROVE  LockFor(c) \in Channels
  <1>1. chan[c].connector \in Connectors
        BY BusyConnector
  <1>2. lockOf[chan[c].connector] \in Channels \cup {NoChannel}
        BY <1>1 DEF TypeOK
  <1> QED BY <1>2, Zenon DEF LockFor

\* A channel stays one whatever field of it gets another value of the field's type.
LEMMA FieldKept ==
    ASSUME NEW r \in ChannelType
    PROVE  /\ \A p \in Places : [r EXCEPT !.pc = p] \in ChannelType
           /\ \A l \in {"connected", "authenticated", "closed"} :
                  [r EXCEPT !.life = l] \in ChannelType
           /\ \A b \in BOOLEAN : [r EXCEPT !.reserved = b] \in ChannelType
           /\ \A n \in Nat : [r EXCEPT !.left = n] \in ChannelType
           /\ \A k \in Connectors : [r EXCEPT !.connector = k] \in ChannelType
           /\ \A n \in Nat : [r EXCEPT !.epoch = n] \in ChannelType
           /\ \A n \in Nat : [r EXCEPT !.session = n] \in ChannelType
           /\ \A n \in Nat : [r EXCEPT !.at = n] \in ChannelType
           /\ \A l \in Channels \cup {NoChannel} : [r EXCEPT !.lock = l] \in ChannelType
           /\ \A n \in Nat : [r EXCEPT !.new = n] \in ChannelType
           /\ \A b \in BOOLEAN : [r EXCEPT !.took = b] \in ChannelType
  <1>1. \A p \in Places : [r EXCEPT !.pc = p] \in ChannelType
        BY DEF ChannelType
  <1>2. \A l \in {"connected", "authenticated", "closed"} : [r EXCEPT !.life = l] \in ChannelType
        BY DEF ChannelType
  <1>3. \A b \in BOOLEAN : [r EXCEPT !.reserved = b] \in ChannelType
        BY DEF ChannelType
  <1>4. \A n \in Nat : [r EXCEPT !.left = n] \in ChannelType
        BY DEF ChannelType
  <1>5. \A k \in Connectors : [r EXCEPT !.connector = k] \in ChannelType
        BY DEF ChannelType
  <1>6. \A n \in Nat : [r EXCEPT !.epoch = n] \in ChannelType
        BY DEF ChannelType
  <1>7. \A n \in Nat : [r EXCEPT !.session = n] \in ChannelType
        BY DEF ChannelType
  <1>8. \A n \in Nat : [r EXCEPT !.at = n] \in ChannelType
        BY DEF ChannelType
  <1>9. \A l \in Channels \cup {NoChannel} : [r EXCEPT !.lock = l] \in ChannelType
        BY DEF ChannelType
  <1>10. \A n \in Nat : [r EXCEPT !.new = n] \in ChannelType
         BY DEF ChannelType
  <1>11. \A b \in BOOLEAN : [r EXCEPT !.took = b] \in ChannelType
         BY DEF ChannelType
  <1> QED BY <1>1, <1>2, <1>3, <1>4, <1>5, <1>6, <1>7, <1>8, <1>9, <1>10, <1>11

\* A function of channels that is changed at one of them stays one.
LEMMA Retyped ==
    ASSUME NEW c \in Channels, chan \in [Channels -> ChannelType],
           NEW r \in ChannelType, chan' = [chan EXCEPT ![c] = r]
    PROVE  chan' \in [Channels -> ChannelType] /\ \A d \in Channels \ {c} : chan'[d] = chan[d]
  OBVIOUS

\* A step of one channel leaves the others and keeps the types of its own.
LEMMA ChannelKept ==
    ASSUME TypeOK, Placed, NEW c \in Channels,
           \/ Step(c)
           \/ \E k \in Connectors : Hello(c, k)
           \/ \E state \in {"FAILED", "CLOSED"} : End(c, state)
    PROVE  chan' \in [Channels -> ChannelType] /\ \A d \in Channels \ {c} : chan'[d] = chan[d]
  <1>0. chan \in [Channels -> ChannelType] /\ now \in Nat /\ issued + 1 \in Nat
        BY DEF TypeOK
  <1>p. {"ready", "check", "lock", "wait", "decide", "commit", "confirm", "unlock", "forget",
         "succeed", "release", "over"} \subseteq Places
        BY DEF Places
  <1>t. /\ chan[c] \in ChannelType /\ chan[c].pc \in Places /\ chan[c].new \in Nat
        /\ chan[c].life \in {"connected", "authenticated", "closed"} /\ chan[c].left \in Nat
        BY <1>0 DEF ChannelType
  <1> USE DEF Goto
  <1>1. \E r \in ChannelType : chan' = [chan EXCEPT ![c] = r]
    <2>1. CASE Reserve(c)
      <3>1. [chan[c] EXCEPT !.pc = "ready", !.reserved = TRUE] \in ChannelType
            BY <1>p, <1>t, FieldKept
      <3>2. [chan[c] EXCEPT !.pc = "over"] \in ChannelType
            BY <1>p, <1>t, FieldKept
      <3> QED BY <2>1, <3>1, <3>2 DEF Reserve
    <2>2. CASE Auth(c)
      <3>0. chan[c].left - 1 \in Nat
            BY <1>t, <2>2 DEF Auth
      <3>1. [chan[c] EXCEPT !.left = @ - 1, !.pc = "check"] \in ChannelType
            BY <1>p, <1>t, <3>0, FieldKept
      <3>2. [chan[c] EXCEPT !.left = @ - 1, !.pc = @] \in ChannelType
            BY <1>p, <1>t, <3>0, FieldKept
      <3> QED BY <2>2, <3>1, <3>2 DEF Auth
    <2>3. CASE Refuse(c)
      <3>1. [chan[c] EXCEPT !.pc = "release"] \in ChannelType
            BY <1>p, <1>t, FieldKept
      <3> QED BY <2>3, <3>1 DEF Refuse
    <2>4. CASE Break(c)
      <3>1. [chan[c] EXCEPT !.pc = "release"] \in ChannelType
            BY <1>p, <1>t, FieldKept
      <3> QED BY <2>4, <3>1 DEF Break
    <2>5. CASE Accept(c)
      <3>1. [chan[c] EXCEPT !.pc = "lock", !.at = now] \in ChannelType
            BY <1>0, <1>p, <1>t, FieldKept
      <3> QED BY <2>5, <3>1 DEF Accept
    <2>6. CASE Wait(c)
      <3>0. LockFor(c) \in Channels
            BY <2>6, LockForType DEF Wait, Busy
      <3>1. [chan[c] EXCEPT !.pc = "wait", !.lock = LockFor(c)] \in ChannelType
            BY <1>p, <1>t, <3>0, FieldKept
      <3> QED BY <2>6, <3>1 DEF Wait
    <2>7. CASE Acquire(c)
      <3>1. [chan[c] EXCEPT !.pc = "decide"] \in ChannelType
            BY <1>p, <1>t, FieldKept
      <3> QED BY <2>7, <3>1 DEF Acquire
    <2>8. CASE Commit(c)
      <3>1. [chan[c] EXCEPT !.pc = "confirm", !.new = issued + 1] \in ChannelType
            BY <1>0, <1>p, <1>t, FieldKept
      <3> QED BY <2>8, <3>1 DEF Commit
    <2>9. CASE Confirm(c)
      <3>1. [chan[c] EXCEPT !.pc = "unlock", !.took = FALSE, !.new = @] \in ChannelType
            BY <1>p, <1>t, FieldKept
      <3>2. [chan[c] EXCEPT !.pc = "unlock", !.took = FALSE, !.new = 0] \in ChannelType
            BY <1>p, <1>t, FieldKept
      <3> QED BY <2>9, <3>1, <3>2 DEF Confirm
    <2>10. CASE Unlock(c)
      <3>1. [chan[c] EXCEPT !.pc = "forget"] \in ChannelType
            BY <1>p, <1>t, FieldKept
      <3> QED BY <2>10, <3>1 DEF Unlock
    <2>11. CASE Forget(c)
      <3>1. [chan[c] EXCEPT !.lock = NoChannel, !.at = 0, !.pc = "release"] \in ChannelType
            BY <1>p, <1>t, FieldKept
      <3>2. [chan[c] EXCEPT !.lock = NoChannel, !.at = 0, !.pc = "succeed"] \in ChannelType
            BY <1>p, <1>t, FieldKept
      <3> QED BY <2>11, <3>1, <3>2 DEF Forget
    <2>12. CASE Succeed(c)
      <3>1. [chan[c] EXCEPT !.pc = "release", !.life = "authenticated", !.reserved = FALSE,
                            !.session = chan[c].new, !.new = 0] \in ChannelType
            BY <1>p, <1>t, FieldKept
      <3> QED BY <2>12, <3>1 DEF Succeed
    <2>13. CASE Release(c)
      <3>1. [chan[c] EXCEPT !.pc = "ready"] \in ChannelType
            BY <1>p, <1>t, FieldKept
      <3> QED BY <2>13, <3>1 DEF Release
    <2>14. CASE Decide(c)
      <3>1. [chan[c] EXCEPT !.pc = "unlock"] \in ChannelType
            BY <1>p, <1>t, FieldKept
      <3>2. [chan[c] EXCEPT !.pc = "commit", !.took = TRUE] \in ChannelType
            BY <1>p, <1>t, FieldKept
      <3>3. [chan[c] EXCEPT !.pc = "commit", !.took = FALSE] \in ChannelType
            BY <1>p, <1>t, FieldKept
      <3> DEFINE took == Live(current[chan[c].connector].state)
      <3>4. took = TRUE \/ took = FALSE
            BY DEF Live
      <3>5. \/ chan' = [chan EXCEPT ![c].pc = "unlock"]
            \/ chan' = [chan EXCEPT ![c].pc = "commit", ![c].took = took]
            BY <2>14 DEF Decide
      <3> HIDE DEF took
      <3> QED BY <3>1, <3>2, <3>3, <3>4, <3>5
    <2>15. ASSUME NEW k \in Connectors, Hello(c, k)
           PROVE  \E r \in ChannelType : chan' = [chan EXCEPT ![c] = r]
      <3>0. current[k].epoch + 1 \in Nat /\ chan[c].left - 1 \in Nat
        <4>1. current[k].epoch + 1 \in Nat
              BY DEF TypeOK
        <4>2. chan[c].left > 0
              BY <2>15 DEF Hello
        <4> QED BY <1>t, <4>1, <4>2
      <3>1. [chan[c] EXCEPT !.left = @ - 1, !.connector = k, !.epoch = current[k].epoch + 1]
                \in ChannelType
            BY <1>t, <3>0, FieldKept
      <3>2. [chan[c] EXCEPT !.left = @ - 1] \in ChannelType
            BY <1>t, <3>0, FieldKept
      <3> QED BY <2>15, <3>1, <3>2 DEF Hello
    <2>16. ASSUME NEW state \in {"FAILED", "CLOSED"}, End(c, state)
           PROVE  \E r \in ChannelType : chan' = [chan EXCEPT ![c] = r]
      <3>1. [chan[c] EXCEPT !.pc = "over", !.reserved = FALSE, !.life = "closed"] \in ChannelType
            BY <1>p, <1>t, FieldKept
      <3>2. [chan[c] EXCEPT !.pc = "over", !.reserved = FALSE, !.life = @] \in ChannelType
            BY <1>p, <1>t, FieldKept
      <3> QED BY <2>16, <3>1, <3>2 DEF End
    <2> QED BY <2>1, <2>2, <2>3, <2>4, <2>5, <2>6, <2>7, <2>8, <2>9, <2>10, <2>11, <2>12,
               <2>13, <2>14, <2>15, <2>16 DEF Step
  <1> QED BY <1>0, <1>1, Retyped

\* Every step keeps the types, of channels that know their connectors and their locks.
LEMMA TypeStep == TypeOK /\ Placed /\ LocksNamed /\ [Next]_vars => TypeOK'
  <1> SUFFICES ASSUME TypeOK, Placed, LocksNamed, [Next]_vars
               PROVE  TypeOK'
      OBVIOUS
  <1> USE HandshakeAssumption DEF guardVars, lockVars
  <1>1. CASE UNCHANGED vars
        BY <1>1 DEF vars, TypeOK
  <1>2. ASSUME NEW c \in Channels, Step(c)
        PROVE  TypeOK'
    <2>0. chan' \in [Channels -> ChannelType]
          BY <1>2, ChannelKept
    <2>k. chan[c].pc \notin {"new", "ready", "over"} => chan[c].connector \in Connectors
          BY BusyConnector DEF Busy
    <2>1. CASE Reserve(c)
          BY <2>0, <2>1 DEF Reserve, TypeOK
    <2>2. CASE Auth(c)
          BY <2>0, <2>2 DEF Auth, TypeOK
    <2>3. CASE Refuse(c)
          BY <2>0, <2>3 DEF Refuse, TypeOK
    <2>4. CASE Break(c)
          BY <2>0, <2>4 DEF Break, TypeOK
    <2>5. CASE Accept(c)
          BY <2>0, <2>5 DEF Accept, TypeOK
    <2>6. CASE Wait(c)
      <3>1. LockFor(c) \in Channels /\ chan[c].connector \in Connectors
            BY <2>6, <2>k, LockForType DEF Wait, Busy
      <3> QED BY <2>0, <2>6, <3>1 DEF Wait, TypeOK
    <2>7. CASE Acquire(c)
      <3>1. chan[c].connector \in Connectors
            BY <2>7, <2>k DEF Acquire
      <3> QED BY <2>0, <2>7, <3>1 DEF Acquire, TypeOK
    <2>8. CASE Decide(c)
      <3>1. chan[c].connector \in Connectors
            BY <2>8, <2>k DEF Decide
      <3>2. /\ takeovers' \in [Connectors -> SUBSET [session : Nat, at : Nat]]
            /\ \A k \in Connectors : IsFiniteSet(takeovers'[k])
            BY <2>8, <3>1, CountedTypes DEF Decide, TypeOK
      <3> QED BY <2>0, <2>8, <3>2 DEF Decide, TypeOK
    <2>9. CASE Commit(c)
      <3>1. chan[c].epoch \in Nat /\ chan[c].connector \in Connectors
            BY <2>9, <2>k DEF Commit, TypeOK, ChannelType
      <3> QED BY <2>0, <2>9, <3>1 DEF Commit, TypeOK
    <2>10. CASE Confirm(c)
      <3> DEFINE takeover == [session |-> chan[c].new, at |-> chan[c].at]
      <3>1. chan[c].connector \in Connectors
            BY <2>10, <2>k DEF Confirm
      <3>2. takeover \in [session : Nat, at : Nat]
            BY DEF TypeOK, ChannelType
      <3>3. Counted(c) \cup {takeover} \in SUBSET [session : Nat, at : Nat]
            BY <3>1, <3>2, CountedTypes
      <3>4. IsFiniteSet(Counted(c) \cup {takeover})
        <4>1. IsFiniteSet(Counted(c))
              BY <3>1, CountedTypes
        <4> HIDE DEF takeover
        <4> QED BY <4>1, FS_AddElement
      <3>5. /\ takeovers' \in [Connectors -> SUBSET [session : Nat, at : Nat]]
            /\ \A k \in Connectors : IsFiniteSet(takeovers'[k])
            BY <2>10, <3>1, <3>3, <3>4 DEF Confirm, TypeOK
      <3> QED BY <2>0, <2>10, <3>5 DEF Confirm, TypeOK
    <2>11. CASE Unlock(c)
      <3>1. chan[c].connector \in Connectors
            BY <2>11, <2>k DEF Unlock
      <3> QED BY <2>0, <2>11, <3>1 DEF Unlock, TypeOK
    <2>12. CASE Forget(c)
      <3>1. chan[c].connector \in Connectors
            BY <2>12, <2>k DEF Forget
      <3>2. refs' \in [Connectors -> [Channels -> Int]]
        <4> DEFINE left == [refs[chan[c].connector] EXCEPT ![chan[c].lock] = @ - 1]
        <4>1. refs[chan[c].connector] \in [Channels -> Int]
              BY <3>1 DEF TypeOK
        <4>2. left \in [Channels -> Int]
          <5>1. chan[c].lock \in Channels
                BY <2>12 DEF Forget, LocksNamed, WithLock
          <5> QED BY <4>1, <5>1
        <4>3. refs' = [refs EXCEPT ![chan[c].connector] = left]
              BY <2>12 DEF Forget
        <4> HIDE DEF left
        <4> QED BY <4>2, <4>3 DEF TypeOK
      <3>3. lockOf' = lockOf \/ lockOf' = [lockOf EXCEPT ![chan[c].connector] = NoChannel]
            BY <2>12 DEF Forget
      <3>4. lockOf' \in [Connectors -> Channels \cup {NoChannel}]
            BY <3>3 DEF TypeOK
      <3> QED BY <2>0, <2>12, <3>2, <3>4 DEF Forget, TypeOK
    <2>13. CASE Succeed(c)
          BY <2>0, <2>13 DEF Succeed, GivenBack, TypeOK
    <2>14. CASE Release(c)
          BY <2>0, <2>14 DEF Release, TypeOK
    <2> QED BY <1>2, <2>1, <2>2, <2>3, <2>4, <2>5, <2>6, <2>7, <2>8, <2>9,
               <2>10, <2>11, <2>12, <2>13, <2>14 DEF Step
  <1>3. ASSUME NEW c \in Channels, NEW k \in Connectors, Hello(c, k)
        PROVE  TypeOK'
    <2>1. chan' \in [Channels -> ChannelType]
          BY <1>3, ChannelKept
    <2> QED BY <1>3, <2>1 DEF Hello, TypeOK
  <1>4. ASSUME NEW c \in Channels, NEW state \in {"FAILED", "CLOSED"}, End(c, state)
        PROVE  TypeOK'
    <2>1. chan' \in [Channels -> ChannelType]
          BY <1>4, ChannelKept
    <2>2. \A k \in Connectors :
            current'[k] = current[k] \/ current'[k] = [current[k] EXCEPT !.state = state]
          BY <1>4 DEF End
    <2>3. \A k \in Connectors :
            current'[k] \in [id : Nat, epoch : Nat,
                             state : {"NONE", "ACTIVE", "DRAINING", "STALE", "FAILED", "CLOSED"}]
      <3> TAKE k \in Connectors
      <3>1. current[k] \in [id : Nat, epoch : Nat,
                            state : {"NONE", "ACTIVE", "DRAINING", "STALE", "FAILED", "CLOSED"}]
            BY DEF TypeOK
      <3>2. CASE current'[k] = current[k]
            BY <3>1, <3>2
      <3>3. CASE current'[k] = [current[k] EXCEPT !.state = state]
            BY <3>1, <3>3
      <3> QED BY <2>2, <3>2, <3>3
    <2>4. current' \in [Connectors -> [id : Nat, epoch : Nat,
                             state : {"NONE", "ACTIVE", "DRAINING", "STALE", "FAILED", "CLOSED"}]]
          BY <1>4, <2>3 DEF End
    <2>5. unauth' \in Nat
          BY <1>4 DEF End, GivenBack, TypeOK
    <2> QED BY <1>4, <2>1, <2>4, <2>5 DEF End, TypeOK
  <1>5. ASSUME NEW k \in Connectors, NEW move \in Moves, Move(k, move[1], move[2])
        PROVE  TypeOK'
    <2>1. move[2] \in {"STALE", "DRAINING", "ACTIVE"}
          BY DEF Moves
    <2> QED BY <1>5, <2>1 DEF Move, TypeOK
  <1>6. CASE Tick
        BY <1>6 DEF Tick, TypeOK
  <1> QED BY <1>1, <1>2, <1>3, <1>4, <1>5, <1>6 DEF Next, Step

(***************************************************************************)
(* What a channel knows of itself.                                         *)
(***************************************************************************)
\* Every step keeps it.
LEMMA PlacedStep == TypeOK /\ Placed /\ [Next]_vars => Placed'
  <1> SUFFICES ASSUME TypeOK, Placed, [Next]_vars
               PROVE  Placed'
      OBVIOUS
  <1> USE DEF Placed, Busy, Goto
  <1>0. chan \in [Channels -> ChannelType]
        BY DEF TypeOK
  <1>1. CASE UNCHANGED chan
        BY <1>1
  <1>2. ASSUME NEW c \in Channels,
               Step(c) \/ (\E k \in Connectors : Hello(c, k))
               \/ (\E state \in {"FAILED", "CLOSED"} : End(c, state))
        PROVE  Placed'
    <2>0. \A d \in Channels \ {c} : chan'[d] = chan[d]
          BY <1>2, ChannelKept
    <2> SUFFICES /\ chan'[c].epoch # 0 => chan'[c].connector \in Connectors
                 /\ chan'[c].pc \notin {"new", "ready", "over"} => chan'[c].epoch # 0
                 /\ chan'[c].pc = "new" => ~chan'[c].reserved
        BY <2>0
    <2>1. CASE Reserve(c)
          BY <1>0, <2>1 DEF Reserve, ChannelType
    <2>2. CASE Auth(c)
          BY <1>0, <2>2 DEF Auth, ChannelType
    <2>3. CASE Refuse(c)
          BY <1>0, <2>3 DEF Refuse, ChannelType
    <2>4. CASE Break(c)
          BY <1>0, <2>4 DEF Break, ChannelType
    <2>5. CASE Accept(c)
          BY <1>0, <2>5 DEF Accept, ChannelType
    <2>6. CASE Wait(c)
          BY <1>0, <2>6 DEF Wait, ChannelType
    <2>7. CASE Acquire(c)
          BY <1>0, <2>7 DEF Acquire, ChannelType
    <2>8. CASE Decide(c)
          BY <1>0, <2>8 DEF Decide, ChannelType
    <2>9. CASE Commit(c)
          BY <1>0, <2>9 DEF Commit, ChannelType
    <2>10. CASE Confirm(c)
          BY <1>0, <2>10 DEF Confirm, ChannelType
    <2>11. CASE Unlock(c)
          BY <1>0, <2>11 DEF Unlock, ChannelType
    <2>12. CASE Forget(c)
          BY <1>0, <2>12 DEF Forget, ChannelType
    <2>13. CASE Succeed(c)
          BY <1>0, <2>13 DEF Succeed, ChannelType
    <2>14. CASE Release(c)
          BY <1>0, <2>14 DEF Release, ChannelType
    <2>15. ASSUME NEW k \in Connectors, Hello(c, k)
           PROVE  /\ chan'[c].epoch # 0 => chan'[c].connector \in Connectors
                  /\ chan'[c].pc \notin {"new", "ready", "over"} => chan'[c].epoch # 0
                  /\ chan'[c].pc = "new" => ~chan'[c].reserved
           BY <1>0, <2>15 DEF Hello, ChannelType
    <2>16. ASSUME NEW state \in {"FAILED", "CLOSED"}, End(c, state)
           PROVE  /\ chan'[c].epoch # 0 => chan'[c].connector \in Connectors
                  /\ chan'[c].pc \notin {"new", "ready", "over"} => chan'[c].epoch # 0
                  /\ chan'[c].pc = "new" => ~chan'[c].reserved
           BY <1>0, <2>16 DEF End, ChannelType
    <2> QED BY <1>2, <2>1, <2>2, <2>3, <2>4, <2>5, <2>6, <2>7, <2>8, <2>9,
               <2>10, <2>11, <2>12, <2>13, <2>14, <2>15, <2>16 DEF Step
  <1>3. ASSUME NEW k \in Connectors, NEW move \in Moves, Move(k, move[1], move[2])
        PROVE  UNCHANGED chan
        BY <1>3 DEF Move
  <1>4. CASE Tick
        BY <1>1, <1>4 DEF Tick
  <1>5. CASE UNCHANGED vars
        BY <1>1, <1>5 DEF vars
  <1> QED BY <1>1, <1>2, <1>3, <1>4, <1>5 DEF Next, Step

(***************************************************************************)
(* The coordinator's locks.                                                *)
(***************************************************************************)
\* A channel keeps its part in the locks of its connector.
KeepsLock(c) ==
    /\ WithLock(c)' = WithLock(c)
    /\ WithLock(c) => chan'[c].connector = chan[c].connector /\ chan'[c].lock = chan[c].lock

\* No step but the two under the locker's mutex changes who uses which lock.
LEMMA LocksKept ==
    ASSUME TypeOK, Placed, [Next]_vars, \A c \in Channels : ~Wait(c) /\ ~Forget(c)
    PROVE  UNCHANGED <<lockOf, refs>> /\ \A c \in Channels : KeepsLock(c)
  <1>0. chan \in [Channels -> ChannelType]
        BY DEF TypeOK
  <1> USE DEF KeepsLock, WithLock, Goto, lockVars
  <1>1. ASSUME NEW c \in Channels, Step(c)
        PROVE  UNCHANGED <<lockOf, refs>> /\ \A d \in Channels : KeepsLock(d)
    <2>0. \A d \in Channels \ {c} : chan'[d] = chan[d]
          BY <1>1, ChannelKept
    <2> SUFFICES UNCHANGED <<lockOf, refs>> /\ KeepsLock(c)
        BY <2>0
    <2>1. CASE Reserve(c)
          BY <1>0, <2>1 DEF Reserve, ChannelType
    <2>2. CASE Auth(c)
          BY <1>0, <2>2 DEF Auth, ChannelType
    <2>3. CASE Refuse(c)
          BY <1>0, <2>3 DEF Refuse, ChannelType
    <2>4. CASE Break(c)
          BY <1>0, <2>4 DEF Break, ChannelType
    <2>5. CASE Accept(c)
          BY <1>0, <2>5 DEF Accept, ChannelType
    <2>6. CASE Acquire(c)
          BY <1>0, <2>6 DEF Acquire, ChannelType
    <2>7. CASE Decide(c)
          BY <1>0, <2>7 DEF Decide, ChannelType
    <2>8. CASE Commit(c)
          BY <1>0, <2>8 DEF Commit, ChannelType
    <2>9. CASE Confirm(c)
          BY <1>0, <2>9 DEF Confirm, ChannelType
    <2>10. CASE Unlock(c)
          BY <1>0, <2>10 DEF Unlock, ChannelType
    <2>11. CASE Succeed(c)
          BY <1>0, <2>11 DEF Succeed, ChannelType
    <2>12. CASE Release(c)
          BY <1>0, <2>12 DEF Release, ChannelType
    <2> QED BY <1>1, <2>1, <2>2, <2>3, <2>4, <2>5, <2>6, <2>7, <2>8, <2>9,
               <2>10, <2>11, <2>12 DEF Step
  <1>2. ASSUME NEW c \in Channels, NEW k \in Connectors, Hello(c, k)
        PROVE  UNCHANGED <<lockOf, refs>> /\ \A d \in Channels : KeepsLock(d)
    <2>1. \A d \in Channels \ {c} : chan'[d] = chan[d]
          BY <1>2, ChannelKept
    <2>2. UNCHANGED <<lockOf, refs>> /\ KeepsLock(c)
          BY <1>0, <1>2 DEF Hello, ChannelType
    <2> QED BY <2>1, <2>2
  <1>3. ASSUME NEW c \in Channels, NEW state \in {"FAILED", "CLOSED"}, End(c, state)
        PROVE  UNCHANGED <<lockOf, refs>> /\ \A d \in Channels : KeepsLock(d)
    <2>1. \A d \in Channels \ {c} : chan'[d] = chan[d]
          BY <1>3, ChannelKept
    <2>2. UNCHANGED <<lockOf, refs>> /\ KeepsLock(c)
          BY <1>0, <1>3 DEF End, ChannelType
    <2> QED BY <2>1, <2>2
  <1>4. CASE UNCHANGED <<chan, lockOf, refs>>
        BY <1>4
  <1>5. ASSUME NEW k \in Connectors, NEW move \in Moves, Move(k, move[1], move[2])
        PROVE  UNCHANGED <<chan, lockOf, refs>>
        BY <1>5 DEF Move
  <1>6. CASE Tick
        BY <1>4, <1>6 DEF Tick
  <1>7. CASE UNCHANGED vars
        BY <1>4, <1>7 DEF vars
  <1> QED BY <1>1, <1>2, <1>3, <1>4, <1>5, <1>6, <1>7 DEF Next, Step

\* The users of a lock are channels, and finitely many.
LEMMA UsersFinite ==
    ASSUME NEW k, NEW l
    PROVE  IsFiniteSet(Users(k, l)) /\ Cardinality(Users(k, l)) \in Nat
  <1>1. Users(k, l) \in SUBSET Channels
        BY DEF Users
  <1> QED BY <1>1, HandshakeAssumption, FS_Subset, FS_CardinalityType

\* Who asks for a lock gets the one in the map, and is counted.
LEMMA WaitKeepsLocks ==
    ASSUME TypeOK, Placed, LocksNamed, RefsExact, NEW c \in Channels, Wait(c)
    PROVE  LocksNamed' /\ RefsExact'
  <1> DEFINE k == chan[c].connector
             l == LockFor(c)
  <1>0. chan \in [Channels -> ChannelType]
        BY DEF TypeOK
  <1>1. k \in Connectors /\ l \in Channels
        BY BusyConnector, LockForType DEF Wait, Busy
  <1>2. \A d \in Channels \ {c} : chan'[d] = chan[d]
        BY ChannelKept DEF Step
  <1>3. /\ ~WithLock(c) /\ WithLock(c)'
        /\ chan'[c].connector = k /\ chan'[c].lock = l
        BY <1>0 DEF Wait, WithLock, ChannelType
  <1>4. lockOf' = [lockOf EXCEPT ![k] = l]
        BY DEF Wait
  <1>5. ASSUME NEW d \in Channels, WithLock(d), chan[d].connector = k
        PROVE  l = lockOf[k] /\ chan[d].lock = l
        BY <1>5, HandshakeAssumption DEF LocksNamed, LockFor
  <1>6. LocksNamed'
    <2> SUFFICES ASSUME NEW d \in Channels, WithLock(d)'
                 PROVE  chan'[d].lock \in Channels /\ lockOf'[chan'[d].connector] = chan'[d].lock
        BY DEF LocksNamed
    <2>1. CASE d = c
          BY <1>1, <1>3, <1>4, <2>1 DEF TypeOK
    <2>2. CASE d # c
      <3>1. chan'[d] = chan[d] /\ WithLock(d)
            BY <1>2, <2>2 DEF WithLock
      <3>2. chan[d].lock \in Channels /\ lockOf[chan[d].connector] = chan[d].lock
            BY <3>1 DEF LocksNamed
      <3>3. chan[d].connector \in Connectors
            BY <3>1, BusyConnector DEF WithLock, Busy
      <3> QED BY <1>4, <1>5, <3>1, <3>2, <3>3 DEF TypeOK
    <2> QED BY <2>1, <2>2
  <1>7. RefsExact'
    <2> SUFFICES ASSUME NEW j \in Connectors, NEW m \in Channels
                 PROVE  refs'[j][m] = Cardinality(Users(j, m)')
        BY DEF RefsExact
    <2>0. refs' = [refs EXCEPT ![k][l] = @ + 1]
          BY DEF Wait
    <2>1. CASE j = k /\ m = l
      <3>1. Users(j, m)' = Users(j, m) \cup {c} /\ c \notin Users(j, m)
            BY <1>2, <1>3, <2>1 DEF Users, WithLock
      <3>2. Cardinality(Users(j, m) \cup {c}) = Cardinality(Users(j, m)) + 1
            BY <3>1, UsersFinite, FS_AddElement
      <3>3. refs'[j][m] = refs[j][m] + 1
            BY <1>1, <2>0, <2>1 DEF TypeOK
      <3> QED BY <3>1, <3>2, <3>3 DEF RefsExact
    <2>2. CASE ~(j = k /\ m = l)
      <3>1. Users(j, m)' = Users(j, m)
            BY <1>2, <1>3, <2>2 DEF Users, WithLock
      <3>2. refs'[j][m] = refs[j][m]
            BY <1>1, <2>0, <2>2 DEF TypeOK
      <3> QED BY <3>1, <3>2 DEF RefsExact
    <2> QED BY <2>1, <2>2
  <1> QED BY <1>6, <1>7

\* Who is done with a lock is counted no more, and the lock leaves the map only when
\* nobody uses it.
LEMMA ForgetKeepsLocks ==
    ASSUME TypeOK, Placed, LocksNamed, RefsExact, NEW c \in Channels, Forget(c)
    PROVE  LocksNamed' /\ RefsExact'
  <1>k. PICK k, l : k = chan[c].connector /\ l = chan[c].lock
        OBVIOUS
  <1>0. chan \in [Channels -> ChannelType]
        BY DEF TypeOK
  <1>1. WithLock(c) /\ k \in Connectors /\ l \in Channels /\ lockOf[k] = l
        BY <1>k, BusyConnector DEF Forget, WithLock, Busy, LocksNamed
  <1>2. \A d \in Channels \ {c} : chan'[d] = chan[d]
        BY ChannelKept DEF Step
  <1>3. ~WithLock(c)'
        BY <1>0 DEF Forget, WithLock, ChannelType
  <1>4. refs' = [refs EXCEPT ![k][l] = @ - 1]
        BY <1>k DEF Forget
  <1>5. Users(k, l)' = Users(k, l) \ {c} /\ c \in Users(k, l)
        BY <1>k, <1>1, <1>2, <1>3 DEF Users, WithLock
  <1>6. /\ IsFiniteSet(Users(k, l)')
        /\ Cardinality(Users(k, l)') \in Nat
        /\ Cardinality(Users(k, l)') = Cardinality(Users(k, l)) - 1
        BY <1>5, UsersFinite, FS_RemoveElement, FS_CardinalityType
  <1>7. refs'[k][l] = Cardinality(Users(k, l)')
        BY <1>1, <1>4, <1>6 DEF TypeOK, RefsExact
  <1>8. RefsExact'
    <2> SUFFICES ASSUME NEW j \in Connectors, NEW m \in Channels
                 PROVE  refs'[j][m] = Cardinality(Users(j, m)')
        BY DEF RefsExact
    <2>1. CASE j = k /\ m = l
          BY <1>7, <2>1
    <2>2. CASE ~(j = k /\ m = l)
      <3>1. Users(j, m)' = Users(j, m)
            BY <1>k, <1>2, <1>3, <2>2 DEF Users, WithLock
      <3>2. refs'[j][m] = refs[j][m]
            BY <1>1, <1>4, <2>2 DEF TypeOK
      <3> QED BY <3>1, <3>2 DEF RefsExact
    <2> QED BY <2>1, <2>2
  <1>9. ASSUME NEW d \in Channels, WithLock(d)'
        PROVE  chan'[d].lock \in Channels /\ lockOf'[chan'[d].connector] = chan'[d].lock
    <2>1. d # c /\ chan'[d] = chan[d] /\ WithLock(d)
          BY <1>2, <1>3, <1>9 DEF WithLock
    <2>2. chan[d].lock \in Channels /\ lockOf[chan[d].connector] = chan[d].lock
          BY <2>1 DEF LocksNamed
    <2>3. CASE lockOf' = lockOf
          BY <2>1, <2>2, <2>3
    <2>4. CASE refs'[k][l] <= 0 /\ lockOf' = [lockOf EXCEPT ![k] = NoChannel]
      <3>1. Users(k, l)' = {}
            BY <1>6, <1>7, <2>4, FS_EmptySet
      <3>2. chan[d].connector # k
            BY <1>1, <2>1, <2>2, <3>1, <1>9 DEF Users
      <3> QED BY <2>1, <2>2, <2>4, <3>2 DEF TypeOK
    <2> QED BY <1>k, <2>3, <2>4 DEF Forget, Unused
  <1> QED BY <1>8, <1>9 DEF LocksNamed

\* Every step keeps the locks in the map and their counts.
LEMMA LockStep ==
    TypeOK /\ Placed /\ LocksNamed /\ RefsExact /\ [Next]_vars => LocksNamed' /\ RefsExact'
  <1> SUFFICES ASSUME TypeOK, Placed, LocksNamed, RefsExact, [Next]_vars
               PROVE  LocksNamed' /\ RefsExact'
      OBVIOUS
  <1>1. ASSUME NEW c \in Channels, Wait(c)
        PROVE  LocksNamed' /\ RefsExact'
        BY <1>1, WaitKeepsLocks
  <1>2. ASSUME NEW c \in Channels, Forget(c)
        PROVE  LocksNamed' /\ RefsExact'
        BY <1>2, ForgetKeepsLocks
  <1>3. CASE \A c \in Channels : ~Wait(c) /\ ~Forget(c)
    <2>1. UNCHANGED <<lockOf, refs>> /\ \A c \in Channels : KeepsLock(c)
          BY <1>3, LocksKept
    <2>2. LocksNamed'
          BY <2>1 DEF LocksNamed, KeepsLock
    <2>3. ASSUME NEW k \in Connectors, NEW l \in Channels
          PROVE  Users(k, l)' = Users(k, l)
          BY <2>1 DEF Users, KeepsLock
    <2> QED BY <2>1, <2>2, <2>3 DEF RefsExact
  <1> QED BY <1>1, <1>2, <1>3

\* A channel that holds a lock after a step held it before, and of the same connector.
KeepsHold(c) ==
    Holding(c)' => /\ Holding(c)
                   /\ chan'[c].connector = chan[c].connector
                   /\ chan'[c].lock = chan[c].lock

\* The holder of a lock is who acts on the connector, whatever step is taken.
LEMMA HoldersStep ==
    TypeOK /\ LockInv /\ [Next]_vars => HoldersHold'
  <1> SUFFICES ASSUME TypeOK, LockInv, [Next]_vars
               PROVE  HoldersHold'
      OBVIOUS
  <1>0. chan \in [Channels -> ChannelType] /\ Placed /\ LocksNamed
        BY DEF TypeOK, LockInv
  <1>h. \A c \in Channels : Holding(c) =>
            /\ chan[c].connector \in Connectors /\ chan[c].lock \in Channels
            /\ holder[chan[c].connector][chan[c].lock] = c
        BY <1>0, BusyConnector DEF LockInv, HoldersHold, LocksNamed, Holding, WithLock, Busy
  <1>1. ASSUME NEW c \in Channels, holder' = holder, KeepsHold(c),
               \A d \in Channels \ {c} : chan'[d] = chan[d]
        PROVE  HoldersHold'
        BY <1>1, <1>h DEF HoldersHold, KeepsHold, Holding
  <1>2. ASSUME NEW c \in Channels, Step(c)
        PROVE  HoldersHold'
    <2>0. \A d \in Channels \ {c} : chan'[d] = chan[d]
          BY <1>0, <1>2, ChannelKept
    <2>a. CASE Acquire(c)
      <3> DEFINE k == chan[c].connector
                 l == chan[c].lock
      <3>1. k \in Connectors /\ l \in Channels
            BY <1>0, <2>a, BusyConnector DEF Acquire, LocksNamed, WithLock, Busy
      <3>2. holder[k][l] = NoChannel /\ holder' = [holder EXCEPT ![k][l] = c]
            BY <2>a DEF Acquire
      <3>3. chan'[c].connector = k /\ chan'[c].lock = l
            BY <1>0, <2>a DEF Acquire, Goto, ChannelType
      <3>4. ASSUME NEW d \in Channels, d # c, Holding(d)'
            PROVE  holder'[chan'[d].connector][chan'[d].lock] = d
        <4>1. chan'[d] = chan[d] /\ Holding(d)
              BY <2>0, <3>4 DEF Holding
        <4>2. ~(chan[d].connector = k /\ chan[d].lock = l)
              BY <1>h, <3>2, <4>1, HandshakeAssumption
        <4> QED BY <1>h, <3>1, <3>2, <4>1, <4>2 DEF TypeOK
      <3>5. holder'[k][l] = c
            BY <3>1, <3>2 DEF TypeOK
      <3> QED BY <3>3, <3>4, <3>5 DEF HoldersHold
    <2>u. CASE Unlock(c)
      <3> DEFINE k == chan[c].connector
                 l == chan[c].lock
      <3>1. Holding(c)
            BY <2>u DEF Unlock, Holding
      <3>2. k \in Connectors /\ l \in Channels /\ holder[k][l] = c
            BY <1>h, <3>1
      <3>3. ~Holding(c)'
            BY <1>0, <2>u DEF Unlock, Goto, ChannelType, Holding
      <3>4. holder' = [holder EXCEPT ![k][l] = NoChannel]
            BY <2>u DEF Unlock
      <3>5. ASSUME NEW d \in Channels, Holding(d)'
            PROVE  holder'[chan'[d].connector][chan'[d].lock] = d
        <4>1. d # c /\ chan'[d] = chan[d] /\ Holding(d)
              BY <2>0, <3>3, <3>5 DEF Holding
        <4>2. ~(chan[d].connector = k /\ chan[d].lock = l)
              BY <1>h, <3>2, <4>1
        <4> QED BY <1>h, <3>2, <3>4, <4>1, <4>2 DEF TypeOK
      <3> QED BY <3>5 DEF HoldersHold
    <2>k. ASSUME ~Acquire(c), ~Unlock(c)
          PROVE  holder' = holder /\ KeepsHold(c)
      <3> USE <1>0 DEF KeepsHold, Holding, ChannelType, Goto, lockVars
      <3>1. CASE Reserve(c)
            BY <3>1 DEF Reserve
      <3>2. CASE Auth(c)
            BY <3>2 DEF Auth
      <3>3. CASE Refuse(c)
            BY <3>3 DEF Refuse
      <3>4. CASE Break(c)
            BY <3>4 DEF Break
      <3>5. CASE Accept(c)
            BY <3>5 DEF Accept
      <3>6. CASE Wait(c)
            BY <3>6 DEF Wait
      <3>7. CASE Decide(c)
            BY <3>7 DEF Decide
      <3>8. CASE Commit(c)
            BY <3>8 DEF Commit
      <3>9. CASE Confirm(c)
            BY <3>9 DEF Confirm
      <3>10. CASE Forget(c)
            BY <3>10 DEF Forget
      <3>11. CASE Succeed(c)
            BY <3>11 DEF Succeed
      <3>12. CASE Release(c)
            BY <3>12 DEF Release
      <3> QED BY <1>2, <2>k, <3>1, <3>2, <3>3, <3>4, <3>5, <3>6, <3>7,
                 <3>8, <3>9, <3>10, <3>11, <3>12 DEF Step
    <2> QED BY <1>1, <2>0, <2>a, <2>u, <2>k
  <1>3. ASSUME NEW c \in Channels, NEW k \in Connectors, Hello(c, k)
        PROVE  HoldersHold'
    <2>1. holder' = holder /\ KeepsHold(c)
          BY <1>0, <1>3 DEF Hello, KeepsHold, Holding, ChannelType, lockVars
    <2> QED BY <1>0, <1>1, <1>3, <2>1, ChannelKept
  <1>4. ASSUME NEW c \in Channels, NEW state \in {"FAILED", "CLOSED"}, End(c, state)
        PROVE  HoldersHold'
    <2>1. holder' = holder /\ KeepsHold(c)
          BY <1>0, <1>4 DEF End, KeepsHold, Holding, ChannelType, lockVars
    <2> QED BY <1>0, <1>1, <1>4, <2>1, ChannelKept
  <1>5. CASE UNCHANGED <<chan, holder>>
        BY <1>5, <1>h DEF HoldersHold, Holding
  <1>6. ASSUME NEW k \in Connectors, NEW move \in Moves, Move(k, move[1], move[2])
        PROVE  UNCHANGED <<chan, holder>>
        BY <1>6 DEF Move, lockVars
  <1>7. CASE Tick
        BY <1>5, <1>7 DEF Tick, lockVars
  <1>8. CASE UNCHANGED vars
        BY <1>5, <1>8 DEF vars, lockVars
  <1> QED BY <1>2, <1>3, <1>4, <1>5, <1>6, <1>7, <1>8 DEF Next, Step

\* One channel at a time acts on a connector.
LEMMA OneHolder ==
    ASSUME LockInv, NEW c \in Channels, NEW d \in Channels, Holding(c), Holding(d),
           chan[c].connector = chan[d].connector
    PROVE  c = d
  BY DEF LockInv, LocksNamed, HoldersHold, Holding, WithLock

(***************************************************************************)
(* The takeovers.                                                          *)
(***************************************************************************)
\* A channel that takes its connector over after a step was to take it over before.
KeepsTaking(c) ==
    chan'[c].pc \in {"commit", "confirm"} /\ chan'[c].took =>
        /\ chan[c].pc \in {"commit", "confirm"} /\ chan[c].took
        /\ chan'[c].connector = chan[c].connector

\* The takeovers of a connector do not exceed the limit, and the channel that has
\* decided to take it over leaves room for itself: nobody else decides meanwhile.
LEMMA RoomStep ==
    TypeOK /\ LockInv /\ Room /\ TakeoversBounded /\ [Next]_vars => Room' /\ TakeoversBounded'
  <1> SUFFICES ASSUME TypeOK, LockInv, Room, TakeoversBounded, [Next]_vars
               PROVE  Room' /\ TakeoversBounded'
      OBVIOUS
  <1>0. /\ chan \in [Channels -> ChannelType] /\ Placed /\ LocksNamed
        /\ TakeoverLimit \in Nat
        BY HandshakeAssumption DEF TypeOK, LockInv
  <1>1. ASSUME takeovers' = takeovers, NEW c \in Channels, KeepsTaking(c),
               \A d \in Channels \ {c} : chan'[d] = chan[d]
        PROVE  Room' /\ TakeoversBounded'
        BY <1>1 DEF Room, TakeoversBounded, KeepsTaking
  <1>2. ASSUME NEW c \in Channels, Step(c)
        PROVE  Room' /\ TakeoversBounded'
    <2>0. \A d \in Channels \ {c} : chan'[d] = chan[d]
          BY <1>0, <1>2, ChannelKept
    <2> DEFINE k == chan[c].connector
    <2>1. ASSUME Decide(c) \/ Confirm(c)
          PROVE  /\ k \in Connectors
                 /\ Cardinality(Counted(c)) \in Nat
                 /\ Cardinality(Counted(c)) <= Cardinality(takeovers[k])
                 /\ IsFiniteSet(Counted(c))
                 /\ Cardinality(takeovers[k]) \in Nat
                 /\ Cardinality(takeovers[k]) <= TakeoverLimit
                 /\ chan'[c].connector = k
                 /\ \A d \in Channels \ {c} : chan[d].pc \in {"commit", "confirm"} =>
                        chan[d].connector # k
      <3>1. Busy(c) /\ Holding(c)
            BY <2>1 DEF Decide, Confirm, Busy, Holding
      <3>2. k \in Connectors
            BY <1>0, <3>1, BusyConnector
      <3>3. chan'[c].connector = k
            BY <1>0, <2>1 DEF Decide, Confirm, ChannelType
      <3>4. \A d \in Channels \ {c} : chan[d].pc \in {"commit", "confirm"} =>
                chan[d].connector # k
            BY <3>1, OneHolder DEF Holding
      <3>5. IsFiniteSet(takeovers[k]) /\ Cardinality(takeovers[k]) \in Nat
            BY <3>2, FS_CardinalityType DEF TypeOK
      <3>6. Cardinality(takeovers[k]) <= TakeoverLimit
            BY <3>2 DEF TakeoversBounded
      <3> QED BY <3>2, <3>3, <3>4, <3>5, <3>6, CountedTypes
    <2>d. CASE Decide(c)
      <3>1. CASE takeovers' = takeovers /\ chan' = [chan EXCEPT ![c].pc = "unlock"]
        <4>1. KeepsTaking(c)
              BY <1>0, <3>1 DEF KeepsTaking, ChannelType
        <4> QED BY <1>1, <2>0, <3>1, <4>1
      <3>2. CASE /\ takeovers' = takeovers
                 /\ chan' = [chan EXCEPT ![c].pc = "commit", ![c].took = FALSE]
        <4>1. KeepsTaking(c)
              BY <1>0, <3>2 DEF KeepsTaking, ChannelType
        <4> QED BY <1>1, <2>0, <3>2, <4>1
      <3>3. CASE /\ takeovers' = [takeovers EXCEPT ![k] = Counted(c)]
                 /\ \/ chan' = [chan EXCEPT ![c].pc = "unlock"]
                    \/ Cardinality(Counted(c)) < TakeoverLimit
        <4>1. takeovers'[k] = Counted(c) /\ \A j \in Connectors \ {k} : takeovers'[j] = takeovers[j]
              BY <2>1, <2>d, <3>3 DEF TypeOK
        <4>2. TakeoversBounded'
              BY <1>0, <2>1, <2>d, <4>1 DEF TakeoversBounded
        <4>3. ASSUME NEW d \in Channels, chan'[d].pc \in {"commit", "confirm"}, chan'[d].took
              PROVE  Cardinality(takeovers'[chan'[d].connector]) < TakeoverLimit
          <5>1. CASE d = c
            <6>1. Cardinality(Counted(c)) < TakeoverLimit
                  BY <1>0, <3>3, <4>3, <5>1 DEF ChannelType
            <6> QED BY <2>1, <2>d, <4>1, <5>1, <6>1
          <5>2. CASE d # c
            <6>1. chan'[d] = chan[d] /\ chan[d].connector \in Connectors \ {k}
                  BY <1>0, <2>0, <2>1, <2>d, <4>3, <5>2, BusyConnector DEF Busy
            <6> QED BY <4>1, <4>3, <6>1 DEF Room
          <5> QED BY <5>1, <5>2
        <4> QED BY <4>2, <4>3 DEF Room
      <3>4. CASE KeepsOut(k, chan[c].epoch)
            BY <2>d, <3>1, <3>4 DEF Decide, KeepsOut
      <3>5. CASE ~KeepsOut(k, chan[c].epoch) /\ Live(current[k].state)
        <4>1. takeovers' = [takeovers EXCEPT ![k] = Counted(c)]
              BY <2>d, <3>5 DEF Decide
        <4>2. CASE Cardinality(Counted(c)) >= TakeoverLimit
              BY <2>d, <3>3, <3>5, <4>1, <4>2 DEF Decide
        <4>3. CASE ~(Cardinality(Counted(c)) >= TakeoverLimit)
          <5>1. Cardinality(Counted(c)) < TakeoverLimit
                BY <1>0, <2>1, <2>d, <4>3
          <5> QED BY <3>3, <4>1, <5>1
        <4> QED BY <4>2, <4>3
      <3>6. CASE ~KeepsOut(k, chan[c].epoch) /\ ~Live(current[k].state)
        <4>1. Live(current[k].state) = FALSE
              BY <3>6 DEF Live
        <4> QED BY <2>d, <3>2, <3>6, <4>1 DEF Decide
      <3> QED BY <3>4, <3>5, <3>6
    <2>c. CASE Confirm(c)
      <3>1. chan'[c].pc = "unlock"
            BY <1>0, <2>c DEF Confirm, ChannelType
      <3>2. CASE takeovers' = takeovers
            BY <1>1, <2>0, <3>1, <3>2 DEF KeepsTaking
      <3>3. CASE /\ chan[c].took
                 /\ takeovers' = [takeovers EXCEPT ![k] =
                        Counted(c) \cup {[session |-> chan[c].new, at |-> chan[c].at]}]
        <4> DEFINE takeover == [session |-> chan[c].new, at |-> chan[c].at]
        <4>1. /\ takeovers'[k] = Counted(c) \cup {takeover}
              /\ \A j \in Connectors \ {k} : takeovers'[j] = takeovers[j]
              BY <2>1, <2>c, <3>3 DEF TypeOK
        <4>2. Cardinality(takeovers[k]) < TakeoverLimit
              BY <2>c, <3>3 DEF Confirm, Room
        <4>3. Cardinality(Counted(c) \cup {takeover}) <= Cardinality(Counted(c)) + 1
          <5>1. IsFiniteSet(Counted(c)) /\ Cardinality(Counted(c)) \in Nat
                BY <2>1, <2>c
          <5> HIDE DEF takeover
          <5> QED BY <5>1, FS_AddElement
        <4>4. Cardinality(Counted(c) \cup {takeover}) \in Nat
          <5>1. IsFiniteSet(Counted(c))
                BY <2>1, <2>c
          <5> HIDE DEF takeover
          <5> QED BY <5>1, FS_AddElement, FS_CardinalityType
        <4>5. Cardinality(takeovers'[k]) <= TakeoverLimit
          <5>1. Cardinality(Counted(c)) \in Nat /\ Cardinality(takeovers[k]) \in Nat
                /\ Cardinality(Counted(c)) <= Cardinality(takeovers[k])
                BY <2>1, <2>c
          <5> HIDE DEF takeover
          <5> QED BY <1>0, <4>1, <4>2, <4>3, <4>4, <5>1
        <4>6. TakeoversBounded'
              BY <4>1, <4>5 DEF TakeoversBounded
        <4>7. ASSUME NEW d \in Channels, chan'[d].pc \in {"commit", "confirm"}, chan'[d].took
              PROVE  Cardinality(takeovers'[chan'[d].connector]) < TakeoverLimit
          <5>1. d # c
                BY <3>1, <4>7
          <5>2. chan'[d] = chan[d] /\ chan[d].connector \in Connectors \ {k}
                BY <1>0, <2>0, <2>1, <2>c, <4>7, <5>1, BusyConnector DEF Busy
          <5> QED BY <4>1, <4>7, <5>2 DEF Room
        <4> QED BY <4>6, <4>7 DEF Room
      <3> QED BY <2>c, <3>2, <3>3 DEF Confirm
    <2>k. ASSUME ~Decide(c), ~Confirm(c)
          PROVE  takeovers' = takeovers /\ KeepsTaking(c)
      <3> USE <1>0 DEF KeepsTaking, ChannelType, Goto
      <3>1. CASE Reserve(c)
            BY <3>1 DEF Reserve
      <3>2. CASE Auth(c)
            BY <3>2 DEF Auth
      <3>3. CASE Refuse(c)
            BY <3>3 DEF Refuse
      <3>4. CASE Break(c)
            BY <3>4 DEF Break
      <3>5. CASE Accept(c)
            BY <3>5 DEF Accept
      <3>6. CASE Wait(c)
            BY <3>6 DEF Wait
      <3>7. CASE Acquire(c)
            BY <3>7 DEF Acquire
      <3>8. CASE Commit(c)
            BY <3>8 DEF Commit
      <3>9. CASE Unlock(c)
            BY <3>9 DEF Unlock
      <3>10. CASE Forget(c)
            BY <3>10 DEF Forget
      <3>11. CASE Succeed(c)
            BY <3>11 DEF Succeed
      <3>12. CASE Release(c)
            BY <3>12 DEF Release
      <3> QED BY <1>2, <2>k, <3>1, <3>2, <3>3, <3>4, <3>5, <3>6, <3>7,
                 <3>8, <3>9, <3>10, <3>11, <3>12 DEF Step
    <2> QED BY <1>1, <2>0, <2>c, <2>d, <2>k
  <1>3. ASSUME NEW c \in Channels, NEW k \in Connectors, Hello(c, k)
        PROVE  Room' /\ TakeoversBounded'
    <2>1. takeovers' = takeovers /\ KeepsTaking(c)
          BY <1>0, <1>3 DEF Hello, KeepsTaking, ChannelType
    <2> QED BY <1>0, <1>1, <1>3, <2>1, ChannelKept
  <1>4. ASSUME NEW c \in Channels, NEW state \in {"FAILED", "CLOSED"}, End(c, state)
        PROVE  Room' /\ TakeoversBounded'
    <2>1. takeovers' = takeovers /\ KeepsTaking(c)
          BY <1>0, <1>4 DEF End, KeepsTaking, ChannelType
    <2> QED BY <1>0, <1>1, <1>4, <2>1, ChannelKept
  <1>5. CASE UNCHANGED <<chan, takeovers>>
        BY <1>5 DEF Room, TakeoversBounded
  <1>6. ASSUME NEW k \in Connectors, NEW move \in Moves, Move(k, move[1], move[2])
        PROVE  UNCHANGED <<chan, takeovers>>
        BY <1>6 DEF Move
  <1>7. CASE Tick
        BY <1>5, <1>7 DEF Tick
  <1>8. CASE UNCHANGED vars
        BY <1>5, <1>8 DEF vars
  <1> QED BY <1>2, <1>3, <1>4, <1>5, <1>6, <1>7, <1>8 DEF Next, Step

(***************************************************************************)
(* The budgets.                                                            *)
(***************************************************************************)
Reserving      == {c \in Channels : chan[c].reserved}
Authenticating == {c \in Channels : chan[c].pc \notin {"new", "ready", "over"}}

\* A counter that follows one element in or out of a set of channels counts it.
LEMMA CountFollows ==
    ASSUME NEW S \in SUBSET Channels, NEW T \in SUBSET Channels, NEW c \in Channels
    PROVE  /\ Cardinality(S) \in Nat
           /\ S = T \cup {c} /\ c \notin T => Cardinality(S) = Cardinality(T) + 1
           /\ S = T \ {c} /\ c \in T => Cardinality(S) = Cardinality(T) - 1 /\ Cardinality(T) > 0
  <1>1. IsFiniteSet(S) /\ IsFiniteSet(T)
        BY HandshakeAssumption, FS_Subset
  <1>2. Cardinality(S) \in Nat /\ Cardinality(T) \in Nat
        BY <1>1, FS_CardinalityType
  <1>3. ASSUME S = T \cup {c}, c \notin T
        PROVE  Cardinality(S) = Cardinality(T) + 1
        BY <1>1, <1>3, FS_AddElement
  <1>4. ASSUME S = T \ {c}, c \in T
        PROVE  Cardinality(S) = Cardinality(T) - 1
        BY <1>1, <1>4, FS_RemoveElement
  <1>5. ASSUME S = T \ {c}, c \in T
        PROVE  Cardinality(T) > 0
        BY <1>2, <1>4, <1>5
  <1> QED BY <1>2, <1>3, <1>4, <1>5

\* Every step that changes a budget changes by one what the channels hold of it.
LEMMA BudgetStep == TypeOK /\ Placed /\ BudgetExact /\ [Next]_vars => BudgetExact'
  <1> SUFFICES ASSUME TypeOK, Placed, BudgetExact, [Next]_vars
               PROVE  BudgetExact'
      OBVIOUS
  <1>0. chan \in [Channels -> ChannelType]
        BY DEF TypeOK
  <1>1. unauth = Cardinality(Reserving) /\ auth = Cardinality(Authenticating)
        BY DEF BudgetExact, Reserving, Authenticating
  <1> SUFFICES unauth' = Cardinality(Reserving') /\ auth' = Cardinality(Authenticating')
      BY DEF BudgetExact, Reserving, Authenticating
  <1>2. ASSUME NEW c \in Channels, \A d \in Channels \ {c} : chan'[d] = chan[d]
        PROVE  /\ (chan'[c].reserved <=> chan[c].reserved) => Reserving' = Reserving
               /\ chan'[c].reserved /\ ~chan[c].reserved =>
                      Cardinality(Reserving') = Cardinality(Reserving) + 1
               /\ ~chan'[c].reserved /\ chan[c].reserved =>
                      /\ Cardinality(Reserving') = Cardinality(Reserving) - 1
                      /\ Cardinality(Reserving) > 0
               /\ Busy(c)' = Busy(c) => Authenticating' = Authenticating
               /\ Busy(c)' /\ ~Busy(c) =>
                      Cardinality(Authenticating') = Cardinality(Authenticating) + 1
               /\ ~Busy(c)' /\ Busy(c) =>
                      /\ Cardinality(Authenticating') = Cardinality(Authenticating) - 1
                      /\ Cardinality(Authenticating) > 0
    <2>1. /\ Reserving \in SUBSET Channels /\ Reserving' \in SUBSET Channels
          /\ Authenticating \in SUBSET Channels /\ Authenticating' \in SUBSET Channels
          BY DEF Reserving, Authenticating
    <2>2. /\ (chan'[c].reserved <=> chan[c].reserved) => Reserving' = Reserving
          /\ Busy(c)' = Busy(c) => Authenticating' = Authenticating
          BY <1>2 DEF Reserving, Authenticating, Busy
    <2>3. ASSUME chan'[c].reserved, ~chan[c].reserved
          PROVE  Reserving' = Reserving \cup {c} /\ c \notin Reserving
          BY <1>2, <2>3 DEF Reserving
    <2>4. ASSUME ~chan'[c].reserved, chan[c].reserved
          PROVE  Reserving' = Reserving \ {c} /\ c \in Reserving
          BY <1>2, <2>4 DEF Reserving
    <2>5. ASSUME Busy(c)', ~Busy(c)
          PROVE  Authenticating' = Authenticating \cup {c} /\ c \notin Authenticating
          BY <1>2, <2>5 DEF Authenticating, Busy
    <2>6. ASSUME ~Busy(c)', Busy(c)
          PROVE  Authenticating' = Authenticating \ {c} /\ c \in Authenticating
          BY <1>2, <2>6 DEF Authenticating, Busy
    <2> QED BY <2>1, <2>2, <2>3, <2>4, <2>5, <2>6, CountFollows
  <1>3. ASSUME NEW c \in Channels, Step(c)
        PROVE  unauth' = Cardinality(Reserving') /\ auth' = Cardinality(Authenticating')
    <2>0. \A d \in Channels \ {c} : chan'[d] = chan[d]
          BY <1>3, ChannelKept
    <2> USE <1>0 DEF ChannelType, Goto, Busy
    <2>1. CASE Reserve(c)
      <3>1. Busy(c)' = Busy(c) /\ ~chan[c].reserved /\ auth' = auth
            BY <2>1 DEF Reserve, Placed
      <3>2. CASE unauth' = unauth + 1 /\ chan'[c].reserved
            BY <1>1, <1>2, <2>0, <3>1, <3>2
      <3>3. CASE unauth' = unauth /\ chan'[c].reserved = chan[c].reserved
            BY <1>1, <1>2, <2>0, <3>1, <3>3
      <3> QED BY <2>1, <3>2, <3>3 DEF Reserve
    <2>2. CASE Auth(c)
      <3>1. /\ chan'[c].reserved = chan[c].reserved /\ unauth' = unauth /\ ~Busy(c)
            /\ \/ auth' = auth /\ ~Busy(c)'
               \/ auth' = auth + 1 /\ Busy(c)'
            BY <2>2 DEF Auth
      <3> QED BY <1>1, <1>2, <2>0, <3>1
    <2>3. CASE Succeed(c)
      <3>1. ~chan'[c].reserved /\ Busy(c)' /\ Busy(c) /\ auth' = auth
            BY <2>3 DEF Succeed
      <3>2. CASE chan[c].reserved
        <4>1. unauth > 0 /\ Cardinality(Reserving') = unauth - 1
              BY <1>1, <1>2, <2>0, <3>1, <3>2
        <4>2. unauth' = unauth - 1
              BY <2>3, <3>2, <4>1 DEF Succeed, GivenBack
        <4> QED BY <1>1, <1>2, <2>0, <3>1, <4>1, <4>2
      <3>3. CASE ~chan[c].reserved
        <4>1. unauth' = unauth
              BY <2>3, <3>3 DEF Succeed, GivenBack
        <4> QED BY <1>1, <1>2, <2>0, <3>1, <3>3, <4>1
      <3> QED BY <3>2, <3>3
    <2>4. CASE Release(c)
      <3>1. Busy(c) /\ ~Busy(c)' /\ chan'[c].reserved = chan[c].reserved /\ unauth' = unauth
            BY <2>4 DEF Release
      <3>2. auth > 0 /\ Cardinality(Authenticating') = auth - 1
            BY <1>1, <1>2, <2>0, <3>1
      <3>3. auth' = auth - 1
            BY <2>4, <3>2 DEF Release
      <3> QED BY <1>1, <1>2, <2>0, <3>1, <3>2, <3>3
    <2>5. ASSUME ~Reserve(c), ~Auth(c), ~Succeed(c), ~Release(c)
          PROVE  /\ UNCHANGED <<unauth, auth>>
                 /\ Busy(c)' = Busy(c) /\ chan'[c].reserved = chan[c].reserved
      <3>1. CASE Refuse(c)
            BY <3>1 DEF Refuse
      <3>2. CASE Break(c)
            BY <3>2 DEF Break
      <3>3. CASE Accept(c)
            BY <3>3 DEF Accept
      <3>4. CASE Wait(c)
            BY <3>4 DEF Wait
      <3>5. CASE Acquire(c)
            BY <3>5 DEF Acquire
      <3>6. CASE Decide(c)
            BY <3>6 DEF Decide
      <3>7. CASE Commit(c)
            BY <3>7 DEF Commit
      <3>8. CASE Confirm(c)
            BY <3>8 DEF Confirm
      <3>9. CASE Unlock(c)
            BY <3>9 DEF Unlock
      <3>10. CASE Forget(c)
            BY <3>10 DEF Forget
      <3> QED BY <1>3, <2>5, <3>1, <3>2, <3>3, <3>4, <3>5, <3>6, <3>7,
                 <3>8, <3>9, <3>10 DEF Step
    <2> QED BY <1>1, <1>2, <2>0, <2>1, <2>2, <2>3, <2>4, <2>5
  <1>4. ASSUME NEW c \in Channels, NEW k \in Connectors, Hello(c, k)
        PROVE  unauth' = Cardinality(Reserving') /\ auth' = Cardinality(Authenticating')
    <2>1. /\ UNCHANGED <<unauth, auth>>
          /\ Busy(c)' = Busy(c) /\ chan'[c].reserved = chan[c].reserved
          BY <1>0, <1>4 DEF Hello, Busy, ChannelType
    <2>2. \A d \in Channels \ {c} : chan'[d] = chan[d]
          BY <1>4, ChannelKept
    <2> QED BY <1>1, <1>2, <2>1, <2>2
  <1>5. ASSUME NEW c \in Channels, NEW state \in {"FAILED", "CLOSED"}, End(c, state)
        PROVE  unauth' = Cardinality(Reserving') /\ auth' = Cardinality(Authenticating')
    <2>0. \A d \in Channels \ {c} : chan'[d] = chan[d]
          BY <1>5, ChannelKept
    <2>1. ~chan'[c].reserved /\ Busy(c)' = Busy(c) /\ auth' = auth
          BY <1>0, <1>5 DEF End, Busy, ChannelType
    <2>2. CASE chan[c].reserved
      <3>1. unauth > 0 /\ Cardinality(Reserving') = unauth - 1
            BY <1>1, <1>2, <2>0, <2>1, <2>2
      <3>2. unauth' = unauth - 1
            BY <1>5, <2>2, <3>1 DEF End, GivenBack
      <3> QED BY <1>1, <1>2, <2>0, <2>1, <3>1, <3>2
    <2>3. CASE ~chan[c].reserved
      <3>1. unauth' = unauth
            BY <1>5, <2>3 DEF End, GivenBack
      <3> QED BY <1>1, <1>2, <2>0, <2>1, <2>3, <3>1
    <2> QED BY <2>2, <2>3
  <1>6. CASE UNCHANGED <<chan, unauth, auth>>
        BY <1>1, <1>6 DEF Reserving, Authenticating
  <1>7. ASSUME NEW k \in Connectors, NEW move \in Moves, Move(k, move[1], move[2])
        PROVE  UNCHANGED <<chan, unauth, auth>>
        BY <1>7 DEF Move
  <1>8. CASE Tick
        BY <1>6, <1>8 DEF Tick
  <1>9. CASE UNCHANGED vars
        BY <1>6, <1>9 DEF vars
  <1> QED BY <1>3, <1>4, <1>5, <1>6, <1>7, <1>8, <1>9 DEF Next, Step

(***************************************************************************)
(* The theorems.                                                           *)
(***************************************************************************)
\* The invariant holds at the start.
LEMMA InitInv == Init => IInv
  <1> SUFFICES ASSUME Init
               PROVE  IInv
      OBVIOUS
  <1>0. PICK left \in Messages : chan = [c \in Channels |-> NewChannel(left[c])]
        BY DEF Init
  <1>1. \A c \in Channels : chan[c] \in ChannelType /\ chan[c] = NewChannel(left[c])
        BY <1>0, HandshakeAssumption DEF NewChannel, ChannelType, Places
  <1>2. \A c \in Channels : chan[c].pc = "new" /\ chan[c].reserved = FALSE /\ chan[c].epoch = 0
    <2> TAKE c \in Channels
    <2>1. chan[c] = NewChannel(left[c])
          BY <1>1
    <2>2. \A m : /\ NewChannel(m).pc = "new" /\ NewChannel(m).epoch = 0
                 /\ NewChannel(m).reserved = FALSE
          BY DEF NewChannel
    <2> QED BY <2>1, <2>2
  <1>3. TypeOK
    <2>1. chan \in [Channels -> ChannelType]
          BY <1>0, <1>1
    <2>2. IsFiniteSet({})
          BY FS_EmptySet
    <2> QED BY <2>1, <2>2 DEF Init, TypeOK
  <1>4. Placed /\ LocksNamed /\ HoldersHold /\ Room
        BY <1>2 DEF Placed, LocksNamed, HoldersHold, Room, Busy, WithLock, Holding
  <1>5. RefsExact
    <2>1. \A k, l : Users(k, l) = {}
          BY <1>2 DEF Users, WithLock
    <2> QED BY <2>1, FS_EmptySet DEF Init, RefsExact
  <1>6. TakeoversBounded
        BY FS_EmptySet, HandshakeAssumption DEF Init, TakeoversBounded
  <1>7. BudgetExact
    <2>1. Reserving = {} /\ Authenticating = {}
          BY <1>2 DEF Reserving, Authenticating
    <2> QED BY <2>1, FS_EmptySet DEF Init, BudgetExact, Reserving, Authenticating
  <1> QED BY <1>3, <1>4, <1>5, <1>6, <1>7 DEF IInv, LockInv, GuardsCount

\* Every reachable state of the guard has the invariant.
THEOREM InductiveInvariant == Spec => []IInv
  <1>1. Init => IInv
        BY InitInv
  <1>2. IInv /\ [Next]_vars => IInv'
        BY TypeStep, PlacedStep, LockStep, HoldersStep, RoomStep, BudgetStep
        DEF IInv, LockInv, GuardsCount
  <1> QED BY <1>1, <1>2, PTL DEF Spec

\* The variables keep their types.
THEOREM TypeCorrect == Spec => []TypeOK
  <1>1. IInv => TypeOK
        BY DEF IInv
  <1> QED BY <1>1, InductiveInvariant, PTL

\* However many channels race to take connectors over, none is taken over more often than
\* its limit allows, and the two budgets are what the channels hold of them.
THEOREM GuardsCountHolds == Spec => []GuardsCount
  <1>1. IInv => GuardsCount
        BY DEF IInv
  <1> QED BY <1>1, InductiveInvariant, PTL

\* At most one channel at a time is between the check of a connector's session and the
\* record of its takeover.
OneActs == \A c, d \in Channels :
    Holding(c) /\ Holding(d) /\ chan[c].connector = chan[d].connector => c = d

\* The coordinator's lock excludes: its map forgets a lock only when nobody uses it.
THEOREM OneAtATime == Spec => []OneActs
  <1>1. IInv => OneActs
        BY OneHolder DEF IInv, OneActs
  <1> QED BY <1>1, InductiveInvariant, PTL

-----------------------------------------------------------------------------
\* The Bridge's configuration (ConfigStore), for all admins, keys, values and setups.

\* What an admin is: a record of these fields.
Fields == {"pc", "version", "seen", "life", "next", "made"}
Shaped(r) == /\ r = [f \in Fields |-> r[f]]
             /\ r.version \in Nat /\ r.life \in Nat

AdminType ==
    /\ admin = [a \in Admins |-> admin[a]]
    /\ \A a \in Admins : Shaped(admin[a])

NumbersType == setup \in Setups /\ up \in BOOLEAN /\ version \in Nat /\ life \in Nat \ {0}

\* An update is under way only under the mutex.
OneUpdates ==
    \A a \in Admins :
        /\ admin[a].pc \in {"idle", "ca", "save", "commit"}
        /\ IF admin[a].pc = "idle" THEN ~admin[a].made ELSE mutex = a /\ up

\* What an update is to save is a configuration with which the next process starts.
NextFits ==
    \A a \in Admins :
        /\ admin[a].pc # "idle" => Config!Valid(admin[a].next)
        /\ admin[a].pc \in {"save", "commit"} /\ Config!NeedsFiles(admin[a].next) => ca = "both"
        /\ admin[a].pc = "ca" => Config!NeedsFiles(admin[a].next)
        /\ admin[a].pc = "commit" => files = admin[a].next
        /\ admin[a].pc \in {"ca", "save"} /\ admin[a].made => ~Config!NeedsFiles(files)

\* What an admin has read is what the store has, for as long as its version is.
SeenIsShown ==
    \A a \in Admins :
        /\ admin[a].life <= life
        /\ admin[a].life = life => /\ admin[a].version <= version
                                   /\ admin[a].version = version => admin[a].seen = layers
        /\ admin[a].pc # "idle" => admin[a].version = version

ConfigInv == AdminType /\ NumbersType /\ OneUpdates /\ NextFits /\ SeenIsShown
             /\ Config!ShownIsSaved

\* A change of some of its fields leaves a record of the fields.
LEMMA ShapedUpdates ==
    ASSUME NEW r, Shaped(r), NEW x, NEW y, NEW n \in Nat, NEW l \in Nat
    PROVE  /\ Shaped([r EXCEPT !.pc = x])
           /\ Shaped([r EXCEPT !.made = x])
           /\ Shaped([r EXCEPT !.next = y, !.pc = x])
           /\ Shaped(Config!Idle)
           /\ Shaped([Config!Idle EXCEPT !.version = n, !.seen = x, !.life = l])
           /\ [r EXCEPT !.pc = x].pc = x
  <1>1. Shaped([r EXCEPT !.pc = x]) /\ [r EXCEPT !.pc = x].pc = x
        BY DEF Shaped, Fields
  <1>2. Shaped([r EXCEPT !.made = x])
        BY DEF Shaped, Fields
  <1>3. Shaped([r EXCEPT !.next = y, !.pc = x])
        BY DEF Shaped, Fields
  <1>4. Shaped(Config!Idle)
        BY DEF Shaped, Fields, Config!Idle
  <1>5. Shaped([Config!Idle EXCEPT !.version = n, !.seen = x, !.life = l])
        BY DEF Shaped, Fields, Config!Idle
  <1> QED BY <1>1, <1>2, <1>3, <1>4, <1>5

\* Every step leaves each admin a record.
LEMMA AdminTypeStep ==
    ASSUME AdminType, NumbersType, [Config!Next]_Config!vars
    PROVE  AdminType'
  <1>1. CASE UNCHANGED Config!vars
        BY <1>1 DEF Config!vars, AdminType
  <1>2. ASSUME NEW a \in Admins, NEW r, Shaped(r), admin' = [admin EXCEPT ![a] = r]
        PROVE  AdminType'
    <2>1. admin' = [b \in Admins |-> IF b = a THEN r ELSE admin[b]]
          BY <1>2 DEF AdminType
    <2> QED BY <2>1, <1>2 DEF AdminType
  <1>3. ASSUME NEW a \in Admins, Config!Read(a) PROVE AdminType'
    <2>1. PICK r : r = [Config!Idle EXCEPT !.version = version, !.seen = layers, !.life = life]
          OBVIOUS
    <2>2. Shaped(r)
          BY <2>1, ShapedUpdates DEF NumbersType, Shaped, Fields, Config!Idle
    <2> QED BY <1>2, <1>3, <2>1, <2>2 DEF Config!Read
  <1>4. ASSUME NEW a \in Admins, admin' = [admin EXCEPT ![a] = Config!Idle] PROVE AdminType'
    <2>1. Shaped(Config!Idle)
          BY DEF Shaped, Fields, Config!Idle
    <2> QED BY <1>2, <1>4, <2>1
  <1>5. ASSUME NEW a \in Admins, NEW p, admin' = [admin EXCEPT ![a].pc = p] PROVE AdminType'
    <2>1. PICK r : r = [admin[a] EXCEPT !.pc = p]
          OBVIOUS
    <2>2. Shaped(r)
          BY <2>1 DEF AdminType, Shaped, Fields
    <2> QED BY <1>2, <1>5, <2>1, <2>2
  <1>6. ASSUME NEW a \in Admins, NEW patch, Config!Update(a, patch) PROVE AdminType'
    <2>1. PICK y, p : admin' = [admin EXCEPT ![a].next = y, ![a].pc = p]
          BY <1>6 DEF Config!Update
    <2>2. PICK r : r = [admin[a] EXCEPT !.next = y, !.pc = p]
          OBVIOUS
    <2>3. Shaped(r)
          BY <2>2 DEF AdminType, Shaped, Fields
    <2>4. admin' = [admin EXCEPT ![a] = r]
          BY <2>1, <2>2 DEF AdminType
    <2> QED BY <1>2, <2>3, <2>4
  <1>7. ASSUME NEW a \in Admins, Config!Prepare(a) PROVE AdminType'
    <2>1. \/ admin' = [admin EXCEPT ![a].pc = "save"]
          \/ admin' = [admin EXCEPT ![a].made = TRUE]
          \/ admin' = [admin EXCEPT ![a] = Config!Idle]
          BY <1>7 DEF Config!Prepare, Config!Fails
    <2>2. ASSUME admin' = [admin EXCEPT ![a].made = TRUE] PROVE AdminType'
      <3>1. PICK r : r = [admin[a] EXCEPT !.made = TRUE]
            OBVIOUS
      <3>2. Shaped(r)
            BY <3>1 DEF AdminType, Shaped, Fields
      <3> QED BY <1>2, <2>2, <3>1, <3>2
    <2> QED BY <2>1, <2>2, <1>4, <1>5
  <1>8. CASE Config!Stop
    <2>1. admin' = [a \in Admins |-> IF admin[a].pc = "idle" THEN admin[a] ELSE Config!Idle]
          BY <1>8 DEF Config!Stop
    <2>2. Shaped(Config!Idle)
          BY DEF Shaped, Fields, Config!Idle
    <2> QED BY <2>1, <2>2 DEF AdminType
  <1>9. ASSUME UNCHANGED admin PROVE AdminType'
        BY <1>9 DEF AdminType
  <1>10. ASSUME NEW a \in Admins, Config!PrepareFails(a) \/ Config!SaveFails(a) \/ Config!Commit(a)
         PROVE  AdminType'
         BY <1>4, <1>10 DEF Config!PrepareFails, Config!SaveFails, Config!Commit, Config!Fails
  <1>11. ASSUME NEW a \in Admins, Config!Save(a) PROVE AdminType'
         BY <1>5, <1>11 DEF Config!Save
  <1>12. ASSUME NEW a \in Admins, NEW patch, Config!Refused(a, patch) PROVE AdminType'
         BY <1>4, <1>12 DEF Config!Refused
  <1>13. CASE Config!Reload
         BY <1>9, <1>13 DEF Config!Reload
  <1>14. CASE Config!Start
         BY <1>9, <1>14 DEF Config!Start
  <1> QED BY <1>1, <1>3, <1>6, <1>7, <1>8, <1>10, <1>11, <1>12, <1>13, <1>14, Zenon DEF Config!Next

\* The version and the starts stay numbers.
LEMMA NumbersStep ==
    ASSUME AdminType, NumbersType, [Config!Next]_Config!vars
    PROVE  NumbersType'
  <1>1. CASE UNCHANGED Config!vars
        BY <1>1 DEF Config!vars, NumbersType
  <1>2. ASSUME NEW a \in Admins,
               \/ Config!Read(a) \/ Config!Prepare(a) \/ Config!PrepareFails(a)
               \/ Config!Save(a) \/ Config!SaveFails(a)
               \/ \E patch : Config!Update(a, patch) \/ Config!Refused(a, patch)
        PROVE  NumbersType'
    <2>1. UNCHANGED <<setup, up, version, life>>
          BY <1>2, Zenon DEF Config!Read, Config!Prepare, Config!PrepareFails, Config!Save,
             Config!SaveFails, Config!Update, Config!Refused
    <2> QED BY <2>1 DEF NumbersType
  <1>3. ASSUME NEW a \in Admins, Config!Commit(a) PROVE NumbersType'
        BY <1>3 DEF Config!Commit, NumbersType
  <1>4. CASE Config!Reload
        BY <1>4 DEF Config!Reload, NumbersType
  <1>5. CASE Config!Stop
        BY <1>5 DEF Config!Stop, NumbersType
  <1>6. CASE Config!Start
        BY <1>6 DEF Config!Start, NumbersType
  <1> QED BY <1>1, <1>2, <1>3, <1>4, <1>5, <1>6, Zenon DEF Config!Next

\* What a step of an admin changes of the admins.
LEMMA AdminAt ==
    ASSUME AdminType, NEW a \in Admins, NEW b \in Admins
    PROVE  /\ Config!Fails(a) => admin'[b] = IF b = a THEN Config!Idle ELSE admin[b]
           /\ Config!Commit(a) => admin'[b] = IF b = a THEN Config!Idle ELSE admin[b]
           /\ Config!Save(a) =>
                 /\ b # a => admin'[b] = admin[b]
                 /\ admin'[a] = [admin[a] EXCEPT !.pc = "commit"]
           /\ \A patch : Config!Refused(a, patch) =>
                 admin'[b] = IF b = a THEN Config!Idle ELSE admin[b]
           /\ \A patch : Config!Update(a, patch) =>
                 /\ b # a => admin'[b] = admin[b]
                 /\ admin'[a] = [admin[a] EXCEPT !.next = Config!Patched(patch),
                       !.pc = IF Config!NeedsFiles(Config!Patched(patch)) THEN "ca" ELSE "save"]
  <1>1. DOMAIN admin = Admins
        BY DEF AdminType
  <1>2. Config!Fails(a) => admin'[b] = IF b = a THEN Config!Idle ELSE admin[b]
        BY <1>1 DEF Config!Fails
  <1>3. Config!Commit(a) => admin'[b] = IF b = a THEN Config!Idle ELSE admin[b]
        BY <1>1 DEF Config!Commit
  <1>4. Config!Save(a) => /\ b # a => admin'[b] = admin[b]
                          /\ admin'[a] = [admin[a] EXCEPT !.pc = "commit"]
        BY <1>1 DEF Config!Save
  <1>5. ASSUME NEW patch, Config!Refused(a, patch)
        PROVE  admin'[b] = IF b = a THEN Config!Idle ELSE admin[b]
        BY <1>1, <1>5 DEF Config!Refused
  <1>6. ASSUME NEW patch, Config!Update(a, patch)
        PROVE  /\ b # a => admin'[b] = admin[b]
               /\ admin'[a] = [admin[a] EXCEPT !.next = Config!Patched(patch),
                       !.pc = IF Config!NeedsFiles(Config!Patched(patch)) THEN "ca" ELSE "save"]
        BY <1>1, <1>6 DEF Config!Update
  <1> QED BY <1>2, <1>3, <1>4, <1>5, <1>6

\* Whoever updates is alone, and an update begins when nobody does.
LEMMA Alone ==
    ASSUME OneUpdates
    PROVE  /\ \A a, b \in Admins : admin[a].pc # "idle" /\ admin[b].pc # "idle" => a = b
           /\ mutex = None => \A a \in Admins : admin[a].pc = "idle"
  BY ServerAssumption DEF OneUpdates

\* How the place of an admin, and what it made, changes.
LEMMA PlaceAt ==
    ASSUME AdminType, NEW a \in Admins
    PROVE  /\ Config!Idle.pc = "idle" /\ Config!Idle.made = FALSE /\ Config!Idle.life = 0
           /\ Config!Read(a) =>
                 /\ admin'[a].pc = "idle" /\ admin'[a].made = FALSE
                 /\ admin'[a].version = version /\ admin'[a].seen = layers /\ admin'[a].life = life
                 /\ \A b \in Admins \ {a} : admin'[b] = admin[b]
           /\ \A p : admin' = [admin EXCEPT ![a].pc = p] =>
                 /\ admin'[a].pc = p /\ admin'[a].made = admin[a].made
                 /\ admin'[a].next = admin[a].next /\ admin'[a].version = admin[a].version
                 /\ admin'[a].seen = admin[a].seen /\ admin'[a].life = admin[a].life
                 /\ \A b \in Admins \ {a} : admin'[b] = admin[b]
           /\ admin' = [admin EXCEPT ![a].made = TRUE] =>
                 /\ admin'[a].pc = admin[a].pc
                 /\ admin'[a].next = admin[a].next /\ admin'[a].version = admin[a].version
                 /\ admin'[a].seen = admin[a].seen /\ admin'[a].life = admin[a].life
                 /\ \A b \in Admins \ {a} : admin'[b] = admin[b]
           /\ \A n, p : admin' = [admin EXCEPT ![a].next = n, ![a].pc = p] =>
                 /\ admin'[a].pc = p /\ admin'[a].made = admin[a].made
                 /\ admin'[a].next = n /\ admin'[a].version = admin[a].version
                 /\ admin'[a].seen = admin[a].seen /\ admin'[a].life = admin[a].life
                 /\ \A b \in Admins \ {a} : admin'[b] = admin[b]
  <1>1. DOMAIN admin = Admins /\ DOMAIN admin[a] = Fields
        BY DEF AdminType, Shaped
  <1>2. Config!Idle.pc = "idle" /\ Config!Idle.made = FALSE /\ Config!Idle.life = 0
        BY DEF Config!Idle
  <1>3. ASSUME Config!Read(a)
        PROVE  /\ admin'[a].pc = "idle" /\ admin'[a].made = FALSE
               /\ admin'[a].version = version /\ admin'[a].seen = layers /\ admin'[a].life = life
               /\ \A b \in Admins \ {a} : admin'[b] = admin[b]
        BY <1>1, <1>3 DEF Config!Read, Config!Idle
  <1>4. ASSUME NEW p, admin' = [admin EXCEPT ![a].pc = p]
        PROVE  /\ admin'[a].pc = p /\ admin'[a].made = admin[a].made
               /\ admin'[a].next = admin[a].next /\ admin'[a].version = admin[a].version
               /\ admin'[a].seen = admin[a].seen /\ admin'[a].life = admin[a].life
               /\ \A b \in Admins \ {a} : admin'[b] = admin[b]
        BY <1>1, <1>4 DEF Fields
  <1>5. ASSUME admin' = [admin EXCEPT ![a].made = TRUE]
        PROVE  /\ admin'[a].pc = admin[a].pc
               /\ admin'[a].next = admin[a].next /\ admin'[a].version = admin[a].version
               /\ admin'[a].seen = admin[a].seen /\ admin'[a].life = admin[a].life
               /\ \A b \in Admins \ {a} : admin'[b] = admin[b]
        BY <1>1, <1>5 DEF Fields
  <1>6. ASSUME NEW n, NEW p, admin' = [admin EXCEPT ![a].next = n, ![a].pc = p]
        PROVE  /\ admin'[a].pc = p /\ admin'[a].made = admin[a].made
               /\ admin'[a].next = n /\ admin'[a].version = admin[a].version
               /\ admin'[a].seen = admin[a].seen /\ admin'[a].life = admin[a].life
               /\ \A b \in Admins \ {a} : admin'[b] = admin[b]
        BY <1>1, <1>6 DEF Fields
  <1> QED BY <1>2, <1>3, <1>4, <1>5, <1>6

\* Prepare, one case for each of its disjuncts.
LEMMA PrepareCases ==
    ASSUME NEW a \in Admins, Config!Prepare(a)
    PROVE  /\ admin[a].pc = "ca" /\ UNCHANGED <<setup, files, up, layers, version, life>>
           /\ \/ /\ ca = "both" \/ (ca = "half" /\ admin[a].made)
                 /\ ca' = "both" /\ mutex' = mutex
                 /\ admin' = [admin EXCEPT ![a].pc = "save"]
              \/ /\ ca = "none" /\ ca' = "half" /\ mutex' = mutex
                 /\ admin' = [admin EXCEPT ![a].made = TRUE]
              \/ ca' = ca /\ Config!Fails(a)
  BY DEF Config!Prepare

\* Every step leaves at most one update under way.
LEMMA OneUpdatesStep ==
    ASSUME ConfigInv, [Config!Next]_Config!vars
    PROVE  OneUpdates'
  <1> USE DEF ConfigInv
  <1>1. CASE UNCHANGED Config!vars
        BY <1>1 DEF Config!vars, OneUpdates
  <1>2. ASSUME NEW a \in Admins, Config!Read(a) PROVE OneUpdates'
    <2>1. /\ admin'[a].pc = "idle" /\ admin'[a].made = FALSE
          /\ \A b \in Admins \ {a} : admin'[b] = admin[b]
          BY <1>2, PlaceAt
    <2>2. mutex' = mutex /\ up' = up
          BY <1>2 DEF Config!Read
    <2> QED BY <2>1, <2>2 DEF OneUpdates
  <1>3. ASSUME NEW a \in Admins, Config!Fails(a), up' = up, admin[a].pc # "idle" \/ mutex = None
        PROVE  OneUpdates'
    <2>1. \A b \in Admins : admin'[b] = IF b = a THEN Config!Idle ELSE admin[b]
          BY <1>3, AdminAt
    <2>2. \A b \in Admins \ {a} : admin[b].pc = "idle"
          BY <1>3, Alone
    <2>3. Config!Idle.pc = "idle" /\ Config!Idle.made = FALSE
          BY DEF Config!Idle
    <2> QED BY <2>1, <2>2, <2>3 DEF OneUpdates
  <1>4. ASSUME NEW a \in Admins, NEW p \in {"save", "commit"}, admin' = [admin EXCEPT ![a].pc = p],
               admin[a].pc # "idle", mutex' = mutex, up' = up
        PROVE  OneUpdates'
    <2>1. /\ admin'[a].pc = p
          /\ \A b \in Admins \ {a} : admin'[b] = admin[b]
          BY <1>4, PlaceAt
    <2> QED BY <2>1, <1>4 DEF OneUpdates
  <1>5. ASSUME NEW a \in Admins, Config!Prepare(a) PROVE OneUpdates'
    <2>1. CASE Config!Fails(a)
          BY <1>3, <1>5, <2>1, PrepareCases
    <2>2. CASE admin' = [admin EXCEPT ![a].pc = "save"] /\ mutex' = mutex
          BY <1>4, <1>5, <2>2, PrepareCases
    <2>3. CASE admin' = [admin EXCEPT ![a].made = TRUE] /\ mutex' = mutex
      <3>1. /\ admin'[a].pc = admin[a].pc
            /\ \A b \in Admins \ {a} : admin'[b] = admin[b]
            BY <2>3, PlaceAt
      <3>2. admin[a].pc = "ca" /\ up' = up
            BY <1>5, PrepareCases
      <3> QED BY <3>1, <3>2, <2>3 DEF OneUpdates
    <2> QED BY <1>5, <2>1, <2>2, <2>3, PrepareCases
  <1>6. ASSUME NEW a \in Admins, Config!PrepareFails(a) \/ Config!SaveFails(a) PROVE OneUpdates'
    <2>1. Config!Fails(a) /\ up' = up /\ admin[a].pc # "idle"
          BY <1>6 DEF Config!PrepareFails, Config!SaveFails
    <2> QED BY <2>1, <1>3
  <1>7. ASSUME NEW a \in Admins, Config!Save(a) PROVE OneUpdates'
    <2>1. /\ admin' = [admin EXCEPT ![a].pc = "commit"] /\ mutex' = mutex /\ up' = up
          /\ admin[a].pc # "idle"
          BY <1>7 DEF Config!Save
    <2> QED BY <2>1, <1>4
  <1>8. ASSUME NEW a \in Admins, Config!Commit(a) PROVE OneUpdates'
    <2>1. Config!Fails(a) /\ up' = up /\ admin[a].pc # "idle"
          BY <1>8 DEF Config!Commit, Config!Fails
    <2> QED BY <2>1, <1>3
  <1>9. ASSUME NEW a \in Admins, NEW patch, Config!Refused(a, patch) PROVE OneUpdates'
    <2>1. Config!Fails(a) /\ up' = up /\ mutex = None
          BY <1>9 DEF Config!Refused, Config!Fails, Config!Asks
    <2> QED BY <2>1, <1>3
  <1>10. ASSUME NEW a \in Admins, NEW patch, Config!Update(a, patch) PROVE OneUpdates'
    <2>1. mutex = None /\ mutex' = a /\ up /\ up' = up /\ admin[a].pc = "idle"
          BY <1>10 DEF Config!Update, Config!Asks
    <2>2. PICK n, p : /\ p \in {"ca", "save"}
                      /\ admin' = [admin EXCEPT ![a].next = n, ![a].pc = p]
          BY <1>10 DEF Config!Update
    <2>3. /\ admin'[a].pc = p
          /\ \A b \in Admins \ {a} : admin'[b] = admin[b]
      <3>1. DOMAIN admin = Admins /\ DOMAIN admin[a] = Fields
            BY DEF AdminType, Shaped
      <3> QED BY <2>2, <3>1 DEF Fields
    <2>4. \A b \in Admins \ {a} : admin[b].pc = "idle"
          BY <2>1, Alone
    <2> QED BY <2>1, <2>2, <2>3, <2>4 DEF OneUpdates
  <1>11. CASE Config!Reload
         BY <1>11 DEF Config!Reload, OneUpdates
  <1>12. CASE Config!Stop
    <2>1. \A b \in Admins : admin'[b] = IF admin[b].pc = "idle" THEN admin[b] ELSE Config!Idle
          BY <1>12 DEF Config!Stop
    <2>2. Config!Idle.pc = "idle" /\ Config!Idle.made = FALSE
          BY DEF Config!Idle
    <2> QED BY <2>1, <2>2 DEF OneUpdates
  <1>13. CASE Config!Start
    <2>1. admin' = admin /\ ~up
          BY <1>13 DEF Config!Start
    <2> QED BY <2>1 DEF OneUpdates
  <1> QED BY <1>1, <1>2, <1>5, <1>6, <1>7, <1>8, <1>9, <1>10, <1>11, <1>12, <1>13, Zenon
          DEF Config!Next

\* What can be and what needs the files depend on the setup, which stays.
LEMMA SameSetup ==
    ASSUME [Config!Next]_Config!vars
    PROVE  /\ setup' = setup
           /\ \A l : Config!Valid(l) <=> (Config!Valid(l))'
           /\ \A l : Config!NeedsFiles(l) <=> (Config!NeedsFiles(l))'
  <1>1. setup' = setup
        BY Zenon DEF Config!Next, Config!vars, Config!Read, Config!Prepare, Config!PrepareFails,
           Config!Save, Config!SaveFails, Config!Commit, Config!Update, Config!Refused,
           Config!Reload, Config!Stop, Config!Start
  <1>2. \A l : Config!Resolved(l) = (Config!Resolved(l))'
        BY <1>1 DEF Config!Resolved, Config!Environment
  <1>3. \A l : Config!Valid(l) <=> (Config!Valid(l))'
        BY <1>1 DEF Config!Valid, Config!Resolved, Config!Environment
  <1>4. \A l : Config!NeedsFiles(l) <=> (Config!NeedsFiles(l))'
        BY <1>1 DEF Config!NeedsFiles, Config!Resolved, Config!Environment
  <1> QED BY <1>1, <1>3, <1>4

\* Every step leaves what is to be saved a configuration with which a process starts.
LEMMA NextFitsStep ==
    ASSUME ConfigInv, [Config!Next]_Config!vars
    PROVE  NextFits'
  <1> USE DEF ConfigInv
  <1>0. /\ \A l : Config!Valid(l) <=> (Config!Valid(l))'
        /\ \A l : Config!NeedsFiles(l) <=> (Config!NeedsFiles(l))'
        BY SameSetup
  <1>1. CASE UNCHANGED Config!vars
        BY <1>0, <1>1 DEF Config!vars, NextFits
  <1>2. ASSUME \A b \in Admins : admin'[b].pc = "idle"
        PROVE  NextFits'
        BY <1>2 DEF NextFits
  <1>3. ASSUME NEW a \in Admins, Config!Read(a) PROVE NextFits'
    <2>1. /\ admin'[a].pc = "idle"
          /\ \A b \in Admins \ {a} : admin'[b] = admin[b]
          BY <1>3, PlaceAt
    <2>2. mutex = None /\ \A b \in Admins : admin[b].pc = "idle"
          BY <1>3, Alone DEF Config!Read
    <2> QED BY <1>2, <2>1, <2>2
  <1>4. ASSUME NEW a \in Admins, Config!Fails(a), admin[a].pc # "idle" \/ mutex = None
        PROVE  NextFits'
    <2>1. \A b \in Admins : admin'[b] = IF b = a THEN Config!Idle ELSE admin[b]
          BY <1>4, AdminAt
    <2>2. \A b \in Admins \ {a} : admin[b].pc = "idle"
          BY <1>4, Alone
    <2>3. Config!Idle.pc = "idle"
          BY DEF Config!Idle
    <2> QED BY <1>2, <2>1, <2>2, <2>3
  <1>5. ASSUME NEW a \in Admins, admin[a].pc # "idle",
               \A b \in Admins \ {a} : admin'[b] = admin[b],
               /\ admin'[a].pc # "idle" => (Config!Valid(admin[a].next))'
               /\ admin'[a].pc \in {"save", "commit"} /\ (Config!NeedsFiles(admin[a].next))'
                     => ca' = "both"
               /\ admin'[a].pc = "ca" => (Config!NeedsFiles(admin[a].next))'
               /\ admin'[a].pc = "commit" => files' = admin'[a].next
               /\ admin'[a].pc \in {"ca", "save"} /\ admin'[a].made => ~(Config!NeedsFiles(files))'
        PROVE  NextFits'
    <2>1. \A b \in Admins \ {a} : admin'[b].pc = "idle"
          BY <1>5, Alone
    <2> QED BY <1>5, <2>1 DEF NextFits
  <1>6. ASSUME NEW a \in Admins, Config!Prepare(a) PROVE NextFits'
    <2>0. admin[a].pc = "ca" /\ files' = files
          BY <1>6, PrepareCases
    <2>1. CASE Config!Fails(a)
          BY <1>4, <2>0, <2>1
    <2>2. CASE ca' = "both" /\ admin' = [admin EXCEPT ![a].pc = "save"]
      <3>1. /\ admin'[a].pc = "save" /\ admin'[a].made = admin[a].made
            /\ admin'[a].next = admin[a].next
            /\ \A b \in Admins \ {a} : admin'[b] = admin[b]
            BY <2>2, PlaceAt
      <3> QED BY <1>0, <1>5, <2>0, <2>2, <3>1 DEF NextFits
    <2>3. CASE ca = "none" /\ ca' = "half" /\ admin' = [admin EXCEPT ![a].made = TRUE]
      <3>1. /\ admin'[a].pc = admin[a].pc /\ admin'[a].next = admin[a].next
            /\ \A b \in Admins \ {a} : admin'[b] = admin[b]
            BY <2>3, PlaceAt
      <3>2. ~Config!NeedsFiles(files)
            BY <2>3 DEF Config!ShownIsSaved, Config!Startable
      <3> QED BY <1>0, <1>5, <2>0, <2>3, <3>1, <3>2 DEF NextFits
    <2> QED BY <1>6, <2>1, <2>2, <2>3, PrepareCases
  <1>7. ASSUME NEW a \in Admins, Config!PrepareFails(a) \/ Config!SaveFails(a) PROVE NextFits'
    <2>1. Config!Fails(a) /\ admin[a].pc # "idle"
          BY <1>7 DEF Config!PrepareFails, Config!SaveFails
    <2> QED BY <2>1, <1>4
  <1>8. ASSUME NEW a \in Admins, Config!Save(a) PROVE NextFits'
    <2>1. /\ admin' = [admin EXCEPT ![a].pc = "commit"] /\ files' = admin[a].next
          /\ admin[a].pc = "save" /\ ca' = ca
          BY <1>8 DEF Config!Save
    <2>2. /\ admin'[a].pc = "commit" /\ admin'[a].next = admin[a].next
          /\ \A b \in Admins \ {a} : admin'[b] = admin[b]
          BY <2>1, PlaceAt
    <2> QED BY <1>0, <1>5, <2>1, <2>2 DEF NextFits
  <1>9. ASSUME NEW a \in Admins, Config!Commit(a) PROVE NextFits'
    <2>1. Config!Fails(a) /\ admin[a].pc # "idle"
          BY <1>9 DEF Config!Commit, Config!Fails
    <2> QED BY <2>1, <1>4
  <1>10. ASSUME NEW a \in Admins, NEW patch, Config!Refused(a, patch) PROVE NextFits'
    <2>1. Config!Fails(a) /\ mutex = None
          BY <1>10 DEF Config!Refused, Config!Fails, Config!Asks
    <2> QED BY <2>1, <1>4
  <1>11. ASSUME NEW a \in Admins, NEW patch, Config!Update(a, patch) PROVE NextFits'
    <2>1. mutex = None /\ admin[a].pc = "idle" /\ UNCHANGED <<files, ca>>
          BY <1>11 DEF Config!Update, Config!Asks
    <2>2. PICK n : n = Config!Patched(patch)
          OBVIOUS
    <2>3. Config!Valid(n)
          BY <1>11, <2>2 DEF Config!Update, Config!Accepted
    <2>4. PICK p : /\ p = IF Config!NeedsFiles(n) THEN "ca" ELSE "save"
                   /\ admin' = [admin EXCEPT ![a].next = n, ![a].pc = p]
          BY <1>11, <2>2 DEF Config!Update
    <2>5. /\ admin'[a].pc = p /\ admin'[a].next = n /\ admin'[a].made = admin[a].made
          /\ \A b \in Admins \ {a} : admin'[b] = admin[b]
      <3>1. DOMAIN admin = Admins /\ DOMAIN admin[a] = Fields
            BY DEF AdminType, Shaped
      <3> QED BY <2>4, <3>1 DEF Fields
    <2>6. ~admin[a].made /\ \A b \in Admins : admin[b].pc = "idle"
          BY <2>1, Alone DEF OneUpdates
    <2>7. admin'[a].pc # "commit" /\ ~admin'[a].made
          BY <2>4, <2>5, <2>6
    <2>8. (Config!Valid(n))'
          BY <1>0, <2>3
    <2>9. Config!NeedsFiles(n) <=> (Config!NeedsFiles(n))'
          BY <1>0
    <2>10. (p = "ca" /\ (Config!NeedsFiles(n))') \/ (p = "save" /\ ~(Config!NeedsFiles(n))')
          BY <2>4, <2>9
    <2> QED BY <2>4, <2>5, <2>6, <2>7, <2>8, <2>10 DEF NextFits
  <1>12. CASE Config!Reload
         BY <1>0, <1>12 DEF Config!Reload, NextFits
  <1>13. CASE Config!Stop
    <2>1. \A b \in Admins : admin'[b] = IF admin[b].pc = "idle" THEN admin[b] ELSE Config!Idle
          BY <1>13 DEF Config!Stop
    <2>2. Config!Idle.pc = "idle"
          BY DEF Config!Idle
    <2> QED BY <1>2, <2>1, <2>2
  <1>14. CASE Config!Start
    <2>1. admin' = admin /\ ~up
          BY <1>14 DEF Config!Start
    <2>2. \A b \in Admins : admin'[b].pc = "idle"
          BY <2>1 DEF OneUpdates
    <2> QED BY <1>2, <2>2
  <1> QED BY <1>1, <1>3, <1>6, <1>7, <1>8, <1>9, <1>10, <1>11, <1>12, <1>13, <1>14, Zenon
          DEF Config!Next

\* Every step leaves what an admin has read what the store has, while its version is.
LEMMA SeenStep ==
    ASSUME ConfigInv, [Config!Next]_Config!vars
    PROVE  SeenIsShown'
  <1> USE DEF ConfigInv
  <1>1. CASE UNCHANGED Config!vars
        BY <1>1 DEF Config!vars, SeenIsShown
  <1>2. ASSUME NEW a \in Admins, UNCHANGED <<layers, version, life>>,
               \A b \in Admins \ {a} : admin'[b] = admin[b],
               admin'[a].version = admin[a].version, admin'[a].seen = admin[a].seen,
               admin'[a].life = admin[a].life,
               admin'[a].pc # "idle" => admin[a].version = version
        PROVE  SeenIsShown'
        BY <1>2 DEF SeenIsShown
  <1>3. ASSUME NEW a \in Admins, Config!Read(a) PROVE SeenIsShown'
    <2>1. /\ admin'[a].pc = "idle" /\ admin'[a].version = version
          /\ admin'[a].seen = layers /\ admin'[a].life = life
          /\ \A b \in Admins \ {a} : admin'[b] = admin[b]
          BY <1>3, PlaceAt
    <2>2. UNCHANGED <<layers, version, life>>
          BY <1>3 DEF Config!Read
    <2> QED BY <2>1, <2>2 DEF SeenIsShown, NumbersType
  <1>4. ASSUME NEW a \in Admins, Config!Fails(a), UNCHANGED <<layers, version, life>>
        PROVE  SeenIsShown'
    <2>1. \A b \in Admins : admin'[b] = IF b = a THEN Config!Idle ELSE admin[b]
          BY <1>4, AdminAt
    <2>2. Config!Idle.pc = "idle" /\ Config!Idle.life = 0
          BY DEF Config!Idle
    <2> QED BY <1>4, <2>1, <2>2 DEF SeenIsShown, NumbersType
  <1>5. ASSUME NEW a \in Admins, Config!Prepare(a) PROVE SeenIsShown'
    <2>0. admin[a].pc = "ca" /\ UNCHANGED <<layers, version, life>>
          BY <1>5, PrepareCases
    <2>1. CASE Config!Fails(a)
          BY <1>4, <2>0, <2>1
    <2>2. CASE admin' = [admin EXCEPT ![a].pc = "save"]
      <3>1. /\ admin'[a].version = admin[a].version /\ admin'[a].seen = admin[a].seen
            /\ admin'[a].life = admin[a].life
            /\ \A b \in Admins \ {a} : admin'[b] = admin[b]
            BY <2>2, PlaceAt
      <3> QED BY <1>2, <2>0, <3>1 DEF SeenIsShown
    <2>3. CASE admin' = [admin EXCEPT ![a].made = TRUE]
      <3>1. /\ admin'[a].version = admin[a].version /\ admin'[a].seen = admin[a].seen
            /\ admin'[a].life = admin[a].life
            /\ \A b \in Admins \ {a} : admin'[b] = admin[b]
            BY <2>3, PlaceAt
      <3> QED BY <1>2, <2>0, <3>1 DEF SeenIsShown
    <2> QED BY <1>5, <2>1, <2>2, <2>3, PrepareCases
  <1>6. ASSUME NEW a \in Admins, Config!PrepareFails(a) \/ Config!SaveFails(a) PROVE SeenIsShown'
    <2>1. Config!Fails(a) /\ UNCHANGED <<layers, version, life>>
          BY <1>6 DEF Config!PrepareFails, Config!SaveFails, Config!Restored
    <2> QED BY <2>1, <1>4
  <1>7. ASSUME NEW a \in Admins, Config!Save(a) PROVE SeenIsShown'
    <2>1. /\ admin' = [admin EXCEPT ![a].pc = "commit"] /\ admin[a].pc # "idle"
          /\ UNCHANGED <<layers, version, life>>
          BY <1>7 DEF Config!Save
    <2>2. /\ admin'[a].version = admin[a].version /\ admin'[a].seen = admin[a].seen
          /\ admin'[a].life = admin[a].life
          /\ \A b \in Admins \ {a} : admin'[b] = admin[b]
          BY <2>1, PlaceAt
    <2> QED BY <1>2, <2>1, <2>2 DEF SeenIsShown
  <1>8. ASSUME NEW a \in Admins, Config!Commit(a) PROVE SeenIsShown'
    <2>1. /\ admin[a].pc # "idle" /\ version' = version + 1 /\ life' = life
          BY <1>8 DEF Config!Commit
    <2>2. \A b \in Admins : admin'[b] = IF b = a THEN Config!Idle ELSE admin[b]
          BY <1>8, AdminAt
    <2>3. \A b \in Admins \ {a} : admin[b].pc = "idle"
          BY <2>1, Alone
    <2>4. Config!Idle.pc = "idle" /\ Config!Idle.life = 0
          BY DEF Config!Idle
    <2>5. \A b \in Admins : admin'[b].pc = "idle"
          BY <2>2, <2>3, <2>4
    <2>6. \A b \in Admins : admin[b].life = life => admin[b].version <= version
          BY DEF SeenIsShown
    <2>7. \A b \in Admins : admin'[b].life <= life
          BY <2>2, <2>4 DEF SeenIsShown, NumbersType
    <2>8. \A b \in Admins : admin[b].version \in Nat
          BY DEF AdminType, Shaped
    <2>9. ASSUME NEW b \in Admins, admin'[b].life = life
          PROVE  admin'[b].version <= version' /\ admin'[b].version # version'
      <3>1. admin'[b] = admin[b]
            BY <2>2, <2>4, <2>9 DEF NumbersType
      <3> QED BY <2>1, <2>6, <2>8, <2>9, <3>1 DEF NumbersType
    <2> QED BY <2>1, <2>5, <2>7, <2>9 DEF SeenIsShown
  <1>9. ASSUME NEW a \in Admins, NEW patch, Config!Refused(a, patch) PROVE SeenIsShown'
    <2>1. \A b \in Admins : admin'[b] = IF b = a THEN Config!Idle ELSE admin[b]
          BY <1>9, AdminAt
    <2>2. Config!Idle.pc = "idle" /\ Config!Idle.life = 0 /\ UNCHANGED <<layers, version, life>>
          BY <1>9 DEF Config!Idle, Config!Refused
    <2> QED BY <2>1, <2>2 DEF SeenIsShown, NumbersType
  <1>10. ASSUME NEW a \in Admins, NEW patch, Config!Update(a, patch) PROVE SeenIsShown'
    <2>1. UNCHANGED <<layers, version, life>> /\ admin[a].version = version
          BY <1>10 DEF Config!Update, Config!Accepted, Config!Matches
    <2>2. PICK n, p : admin' = [admin EXCEPT ![a].next = n, ![a].pc = p]
          BY <1>10 DEF Config!Update
    <2>3. /\ admin'[a].version = admin[a].version /\ admin'[a].seen = admin[a].seen
          /\ admin'[a].life = admin[a].life
          /\ \A b \in Admins \ {a} : admin'[b] = admin[b]
      <3>1. DOMAIN admin = Admins /\ DOMAIN admin[a] = Fields
            BY DEF AdminType, Shaped
      <3> QED BY <2>2, <3>1 DEF Fields
    <2> QED BY <1>2, <2>1, <2>3
  <1>11. CASE Config!Reload
    <2>1. version' = version + 1 /\ mutex = None /\ UNCHANGED <<admin, layers, life>>
          BY <1>11 DEF Config!Reload
    <2>2. \A b \in Admins : admin[b].pc = "idle"
          BY <2>1, Alone
    <2>3. \A b \in Admins : admin[b].version \in Nat
          BY DEF AdminType, Shaped
    <2>4. ASSUME NEW b \in Admins, admin[b].life = life
          PROVE  admin[b].version <= version' /\ admin[b].version # version'
          BY <2>1, <2>3, <2>4 DEF SeenIsShown, NumbersType
    <2> QED BY <2>1, <2>2, <2>4 DEF SeenIsShown
  <1>12. CASE Config!Stop
    <2>1. /\ \A b \in Admins : admin'[b] = IF admin[b].pc = "idle" THEN admin[b] ELSE Config!Idle
          /\ UNCHANGED <<layers, version, life>>
          BY <1>12 DEF Config!Stop
    <2>2. Config!Idle.pc = "idle" /\ Config!Idle.life = 0
          BY DEF Config!Idle
    <2> QED BY <2>1, <2>2 DEF SeenIsShown, NumbersType
  <1>13. CASE Config!Start
    <2>1. UNCHANGED admin /\ life' = life + 1 /\ ~up
          BY <1>13 DEF Config!Start
    <2>2. \A b \in Admins : admin[b].pc = "idle"
          BY <2>1 DEF OneUpdates
    <2>3. \A b \in Admins : admin[b].life \in Nat /\ admin[b].life <= life
          BY DEF SeenIsShown, AdminType, Shaped
    <2>4. \A b \in Admins : admin'[b].life <= life' /\ admin'[b].life # life'
          BY <2>1, <2>3 DEF NumbersType
    <2> QED BY <2>1, <2>2, <2>4 DEF SeenIsShown
  <1> QED BY <1>1, <1>3, <1>5, <1>6, <1>8, <1>7, <1>9, <1>10, <1>11, <1>12, <1>13, Zenon
          DEF Config!Next

\* Every step leaves the store with what is saved, and that one with which a process starts.
LEMMA ShownStep ==
    ASSUME ConfigInv, [Config!Next]_Config!vars
    PROVE  Config!ShownIsSaved'
  <1> USE DEF ConfigInv
  <1>0. /\ \A l : Config!Valid(l) <=> (Config!Valid(l))'
        /\ \A l : Config!NeedsFiles(l) <=> (Config!NeedsFiles(l))'
        BY SameSetup
  <1>a. /\ Config!Valid(files)
        /\ Config!NeedsFiles(files) => ca = "both"
        /\ Config!Shown
        BY DEF Config!ShownIsSaved, Config!Startable
  \* A step that leaves the files, and the CA's as far as they are needed.
  <1>b. ASSUME files' = files, Config!NeedsFiles(files) => ca' = "both"
        PROVE  Config!Startable'
    <2>1. Config!Valid(files)' /\ (Config!NeedsFiles(files)' => ca' = "both")
          BY <1>0, <1>a, <1>b
    <2> QED BY <2>1 DEF Config!Startable
  \* One that leaves what is shown, with no update between its two steps before or after.
  <1>c. ASSUME UNCHANGED <<files, layers>>, up,
               \A b \in Admins : admin[b].pc # "commit"
        PROVE  Config!Shown'
        BY <1>a, <1>c DEF Config!Shown
  <1>1. CASE UNCHANGED Config!vars
        BY <1>a, <1>b, <1>1 DEF Config!vars, Config!Shown, Config!ShownIsSaved
  <1>2. ASSUME NEW a \in Admins, Config!Read(a) PROVE Config!ShownIsSaved'
    <2>1. up /\ mutex = None /\ UNCHANGED <<files, ca, layers>>
          BY <1>2 DEF Config!Read
    <2>2. \A b \in Admins : admin[b].pc = "idle"
          BY <2>1, Alone
    <2> QED BY <1>a, <1>b, <1>c, <2>1, <2>2 DEF Config!ShownIsSaved
  <1>3. ASSUME NEW a \in Admins, admin[a].pc \in {"ca", "save"}, UNCHANGED <<files, layers>>,
               Config!NeedsFiles(files) => ca' = "both"
        PROVE  Config!ShownIsSaved'
    <2>1. up /\ \A b \in Admins : admin[b].pc # "commit"
          BY <1>3, Alone DEF OneUpdates
    <2> QED BY <1>b, <1>c, <1>3, <2>1 DEF Config!ShownIsSaved
  <1>4. ASSUME NEW a \in Admins, Config!Prepare(a) PROVE Config!ShownIsSaved'
    <2>1. admin[a].pc = "ca" /\ UNCHANGED <<files, layers>>
          BY <1>4, PrepareCases
    <2>2. Config!NeedsFiles(files) => ca' = "both"
          BY <1>4, <1>a, PrepareCases
    <2> QED BY <1>3, <2>1, <2>2
  <1>5. ASSUME NEW a \in Admins, Config!PrepareFails(a) PROVE Config!ShownIsSaved'
    <2>1. admin[a].pc = "ca" /\ UNCHANGED <<files, layers, ca>>
          BY <1>5 DEF Config!PrepareFails
    <2> QED BY <1>3, <1>a, <2>1
  <1>6. ASSUME NEW a \in Admins, Config!SaveFails(a) PROVE Config!ShownIsSaved'
    <2>1. /\ admin[a].pc = "save" /\ UNCHANGED <<files, layers>>
          /\ ca' = IF admin[a].made THEN "none" ELSE ca
          BY <1>6 DEF Config!SaveFails, Config!Restored
    <2>2. admin[a].made => ~Config!NeedsFiles(files)
          BY <2>1 DEF NextFits
    <2> QED BY <1>3, <1>a, <2>1, <2>2
  <1>7. ASSUME NEW a \in Admins, Config!Save(a) PROVE Config!ShownIsSaved'
    <2>1. /\ admin' = [admin EXCEPT ![a].pc = "commit"] /\ files' = admin[a].next
          /\ admin[a].pc = "save" /\ ca' = ca
          BY <1>7 DEF Config!Save
    <2>2. admin'[a].pc = "commit"
          BY <2>1, PlaceAt
    <2>3. PICK n : n = admin[a].next
          OBVIOUS
    <2>4. Config!Valid(n) /\ (Config!NeedsFiles(n) => ca = "both")
          BY <2>1, <2>3 DEF NextFits
    <2>5. (Config!Valid(n))' /\ ((Config!NeedsFiles(n))' => ca' = "both") /\ files' = n
          BY <1>0, <2>1, <2>3, <2>4
    <2>6. Config!Startable'
          BY <2>5 DEF Config!Startable
    <2> QED BY <2>2, <2>6 DEF Config!Shown, Config!ShownIsSaved
  <1>8. ASSUME NEW a \in Admins, Config!Commit(a) PROVE Config!ShownIsSaved'
    <2>1. admin[a].pc = "commit" /\ UNCHANGED <<files, ca>> /\ layers' = admin[a].next
          BY <1>8 DEF Config!Commit
    <2>2. layers' = files'
          BY <2>1 DEF NextFits
    <2> QED BY <1>a, <1>b, <2>1, <2>2 DEF Config!Shown, Config!ShownIsSaved
  <1>9. ASSUME NEW a \in Admins, NEW patch, Config!Refused(a, patch) \/ Config!Update(a, patch)
        PROVE  Config!ShownIsSaved'
    <2>1. up /\ mutex = None /\ UNCHANGED <<files, ca, layers>>
          BY <1>9 DEF Config!Refused, Config!Update, Config!Asks
    <2>2. \A b \in Admins : admin[b].pc = "idle"
          BY <2>1, Alone
    <2> QED BY <1>a, <1>b, <1>c, <2>1, <2>2 DEF Config!ShownIsSaved
  <1>10. CASE Config!Reload
    <2>1. up /\ mutex = None /\ UNCHANGED <<files, ca, layers>>
          BY <1>10 DEF Config!Reload
    <2>2. \A b \in Admins : admin[b].pc = "idle"
          BY <2>1, Alone
    <2> QED BY <1>a, <1>b, <1>c, <2>1, <2>2 DEF Config!ShownIsSaved
  <1>11. CASE Config!Stop
    <2>1. ~up' /\ UNCHANGED <<files, ca>>
          BY <1>11 DEF Config!Stop
    <2> QED BY <1>a, <1>b, <2>1 DEF Config!Shown, Config!ShownIsSaved
  <1>12. CASE Config!Start
    <2>1. /\ files' = files /\ layers' = files
          /\ Config!NeedsFiles(files) => ca' = "both"
          BY <1>12 DEF Config!Start
    <2> QED BY <1>b, <2>1 DEF Config!Shown, Config!ShownIsSaved
  <1> QED BY <1>1, <1>2, <1>4, <1>5, <1>6, <1>7, <1>8, <1>9, <1>10, <1>11, <1>12, Zenon
          DEF Config!Next

\* A process starts with an admin for each of those there are, and configured as its files say.
LEMMA ConfigInit ==
    ASSUME Config!Init
    PROVE  ConfigInv
  <1>1. admin = [a \in Admins |-> Config!Idle]
        BY DEF Config!Init
  <1>2. Shaped(Config!Idle)
        BY DEF Shaped, Fields, Config!Idle
  <1>3. AdminType
        BY <1>1, <1>2 DEF AdminType
  <1>4. \A a \in Admins : admin[a].pc = "idle" /\ ~admin[a].made /\ admin[a].life = 0
        BY <1>1 DEF Config!Idle
  <1>5. NumbersType /\ life = 1
        BY DEF Config!Init, NumbersType
  <1>6. OneUpdates /\ NextFits /\ SeenIsShown
        BY <1>4, <1>5 DEF OneUpdates, NextFits, SeenIsShown
  <1>7. Config!ShownIsSaved
        BY DEF Config!Init, Config!ShownIsSaved, Config!Shown, Config!Startable
  <1> QED BY <1>3, <1>5, <1>6, <1>7 DEF ConfigInv

\* The invariant of the configuration.
THEOREM ConfigSafe == Config!Spec => []ConfigInv
  <1>1. ConfigInv /\ [Config!Next]_Config!vars => ConfigInv'
    <2> SUFFICES ASSUME ConfigInv, [Config!Next]_Config!vars PROVE ConfigInv'
          OBVIOUS
    <2>1. AdminType' /\ NumbersType'
          BY AdminTypeStep, NumbersStep DEF ConfigInv
    <2> QED BY <2>1, OneUpdatesStep, NextFitsStep, SeenStep, ShownStep DEF ConfigInv
  <1>2. Config!Init => ConfigInv
        BY ConfigInit
  <1> QED BY <1>1, <1>2, PTL DEF Config!Spec

-----------------------------------------------------------------------------
\* The certificates (ServerCertificates).

\* What a loading has promised of the certificate in use: a managed one is looked at again
\* before it ends, or no later after it than the shortest interval exceeds the window, and
\* the operator's is that of the key, or the pair is younger than the last look at it.
Promised ==
    IF source.from = "managed" THEN due <= served.notAfter + Certificates!Overrun
    ELSE /\ due <= clock + ExternalInterval
         /\ served.root = key \/ since + ExternalInterval >= due

CertInv ==
    /\ clock \in Nat /\ since \in Nat /\ source \in CertSources
    /\ cached # None => cached.notAfter \in Nat
    /\ pc = "read" => source.from = "external"
    /\ pc \in {"init", "key", "issue"} => source.from = "managed"
    /\ pc = "serve" /\ ~missed => due \in Nat /\ served.notAfter \in Nat /\ Promised

\* How far a look may come after the end, for the sources the configuration allows.
LEMMA OverrunBounds ==
    ASSUME source \in CertSources
    PROVE  /\ source.renewBefore \in Nat /\ source.ttl \in Nat /\ source.renewBefore < source.ttl
           /\ Certificates!Overrun \in Nat
           /\ Certificates!Overrun >= MinInterval - source.renewBefore
  BY ServerAssumption DEF Certificates!Overrun, Certificates!Most

\* Every step leaves the promise kept.
LEMMA CertStep ==
    ASSUME CertInv, [Certificates!Next]_Certificates!vars
    PROVE  CertInv'
  <1> USE ServerAssumption
  <1>1. CASE UNCHANGED Certificates!vars
        BY <1>1 DEF CertInv, Promised, Certificates!vars, Certificates!files, Certificates!process,
           Certificates!Overrun
  <1>2. CASE Certificates!Start \/ Certificates!Fire
        BY <1>2 DEF CertInv, Certificates!Start, Certificates!Fire, Certificates!files
  <1>3. CASE Certificates!ReadCert
        BY <1>3 DEF CertInv, Certificates!ReadCert, Certificates!files
  <1>4. ASSUME Certificates!Failed, UNCHANGED <<clock, since, source>>
        PROVE  CertInv'
        BY <1>4 DEF CertInv, Certificates!Failed
  <1>5. CASE Certificates!ReadKey
    <2>1. CASE read # key
          BY <1>4, <1>5, <2>1 DEF Certificates!ReadKey, Certificates!files
    <2>2. CASE read = key
          BY <1>5, <2>2 DEF CertInv, Promised, Certificates!ReadKey, Certificates!files,
             Certificates!Loaded, Certificates!NextReloadInterval
    <2> QED BY <2>1, <2>2
  <1>6. CASE Certificates!Managed
    <2>1. CASE ~Certificates!ShouldRenew
      <3>1. /\ cached.notAfter \in Nat /\ cached.notAfter - source.renewBefore > clock
            BY <2>1, OverrunBounds DEF CertInv, Certificates!ShouldRenew
      <3>2. /\ source.from = "managed" /\ Certificates!Loaded(cached)
            /\ UNCHANGED <<clock, source, since, key, cached>>
            BY <1>6, <2>1 DEF Certificates!Managed, Certificates!files
      <3>3. due' \in Nat /\ due' <= cached.notAfter + Certificates!Overrun
            BY <3>1, <3>2, OverrunBounds DEF CertInv, Certificates!Loaded, Certificates!NextReloadInterval,
               Certificates!Least, Certificates!Most
      <3> QED BY <3>1, <3>2, <3>3 DEF CertInv, Promised, Certificates!Loaded, Certificates!Overrun
    <2>2. CASE Certificates!ShouldRenew /\ cert # key
          BY <1>4, <1>6, <2>2 DEF Certificates!Managed, Certificates!files
    <2>3. CASE Certificates!ShouldRenew /\ cert = key
          BY <1>6, <2>3 DEF CertInv, Certificates!Managed, Certificates!files
    <2> QED BY <2>1, <2>2, <2>3
  <1>7. CASE Certificates!WriteCert \/ Certificates!WriteKey
        BY <1>7 DEF CertInv, Certificates!WriteCert, Certificates!WriteKey
  <1>8. CASE Certificates!Issue
    <2>1. PICK c : c = [root |-> cert, notAfter |-> clock + source.ttl]
          OBVIOUS
    <2>2. /\ cached' = c /\ served' = c /\ pc' = "serve" /\ missed' = FALSE
          /\ due' = clock + Certificates!NextReloadInterval(c)
          /\ UNCHANGED <<clock, source, since, key>>
          BY <1>8, <2>1 DEF Certificates!Issue, Certificates!Loaded, Certificates!files
    <2>3. due' \in Nat /\ due' <= c.notAfter + Certificates!Overrun
          BY <1>8, <2>1, <2>2, OverrunBounds DEF CertInv, Certificates!Issue, Certificates!NextReloadInterval,
             Certificates!Least, Certificates!Most
    <2>4. c.notAfter \in Nat
          BY <2>1, OverrunBounds DEF CertInv
    <2> QED BY <1>8, <2>2, <2>3, <2>4 DEF CertInv, Promised, Certificates!Issue, Certificates!Overrun
  <1>9. CASE Certificates!Fault
        BY <1>4, <1>9 DEF Certificates!Fault, Certificates!files
  <1>10. CASE Certificates!Stop
         BY <1>10 DEF CertInv, Certificates!Stop, Certificates!files
  <1>11. CASE Certificates!Replace
         BY <1>11 DEF CertInv, Promised, Certificates!Replace, Certificates!process,
            Certificates!Overrun
  <1>12. CASE Certificates!Tick
         BY <1>12 DEF CertInv, Promised, Certificates!Tick, Certificates!process, Certificates!files,
            Certificates!Overrun
  <1> QED BY <1>1, <1>2, <1>3, <1>5, <1>6, <1>7, <1>8, <1>9, <1>10, <1>11, <1>12
          DEF Certificates!Next

\* The invariant of the certificates.
THEOREM CertificatesSafe == Certificates!Spec => []CertInv
  <1>1. Certificates!Init => CertInv
        BY DEF Certificates!Init, CertInv
  <1>2. CertInv /\ [Certificates!Next]_Certificates!vars => CertInv'
        BY CertStep
  <1> QED BY <1>1, <1>2, PTL DEF Certificates!Spec

-----------------------------------------------------------------------------
\* The connector tokens (TokenStore), for all tokens and requests.

RecordFields  == {"connector", "status", "expires", "secret"}
RequestFields == {"pc", "op", "token", "connector", "expires", "fresh", "tries", "next"}
Serving == {"create", "rotate", "revoke", "list", "material", "store", "rename", "swap"}

Tabled(records) == \A t \in DOMAIN records : DOMAIN records[t] = RecordFields

\* What was answered holds of some records.
Honour(records) == \A answer \in told : Token!Honoured(answer, records)

\* One request at a time is beyond its wait, and holds the service's mutex.
OneServed ==
    /\ DOMAIN req = Requests
    /\ \A r \in Requests : /\ DOMAIN req[r] = RequestFields
                           /\ req[r].pc \in Serving \cup {"waiting", "done"}
                           /\ req[r].pc \in Serving => service = r

\* What a request has learned of the memory is still so, and what it is to write keeps every
\* answer, and the one it is going to get.
LearnedFits(r) ==
    /\ req[r].pc \in {"create", "rotate", "revoke"} => req[r].op = req[r].pc
    /\ req[r].pc = "list" => req[r].op = "rotate" /\ req[r].token \in DOMAIN memory
    /\ req[r].pc \in {"material", "store"} =>
          /\ (req[r].op = "create" /\ req[r].pc = "store") => req[r].fresh \notin DOMAIN memory
          /\ req[r].op = "rotate" => /\ req[r].token \in DOMAIN memory /\ req[r].next = memory
                                     /\ req[r].pc = "store" => req[r].fresh \notin DOMAIN memory
          /\ req[r].op = "revoke" =>
                /\ req[r].pc = "store" /\ req[r].token \in DOMAIN memory
                /\ req[r].next = Token!One(req[r].token, [memory[req[r].token] EXCEPT !.status = "revoked"])
          /\ req[r].op \in {"create", "rotate", "revoke"}

WritingFits(r) ==
    req[r].pc \in {"rename", "swap"} =>
        /\ Tabled(req[r].next) /\ Honour(req[r].next)
        /\ \A answer \in Token!Outcome(r) : Token!Honoured(answer, req[r].next)
        /\ req[r].pc = "swap" => file = req[r].next

TokensInv ==
    /\ OneServed
    /\ Tabled(memory) /\ Tabled(file) /\ Honour(memory) /\ Honour(file)
    /\ \A r \in Requests : LearnedFits(r) /\ WritingFits(r)

\* What is to be written keeps the answers and has the request's own.
LEMMA WrittenFits ==
    ASSUME TokensInv, NEW r \in Requests, req[r].pc = "store"
    PROVE  /\ Tabled(Token!Written(r)) /\ Honour(Token!Written(r))
           /\ \A answer \in Token!Outcome(r) : Token!Honoured(answer, Token!Written(r))
  <1> USE ServerAssumption
  <1>1. PICK t, n, w, mem, new : /\ t = req[r].token /\ n = req[r].fresh /\ w = Token!Written(r)
                                 /\ mem = memory /\ new = Token!NewRecord(r)
        OBVIOUS
  <1>2. PICK revoked : revoked = [mem[t] EXCEPT !.status = "revoked"]
        OBVIOUS
  <1>3. /\ Tabled(memory) /\ Honour(memory) /\ LearnedFits(r)
        /\ req[r].op \in {"create", "rotate", "revoke"}
        BY DEF TokensInv, LearnedFits
  <1>4. DOMAIN new = RecordFields /\ new.secret = r /\ r # "revoked"
        BY <1>1 DEF Token!NewRecord, RecordFields
  <1>5. t \in DOMAIN mem => /\ DOMAIN revoked = RecordFields /\ revoked.status = "revoked"
                            /\ revoked.secret = mem[t].secret
        BY <1>1, <1>2, <1>3 DEF Tabled, RecordFields
  <1>6. ASSUME NEW m, DOMAIN mem \subseteq DOMAIN m,
               \A u \in DOMAIN mem : m[u] = mem[u] \/ (u = t /\ m[u] = revoked)
        PROVE  \A answer \in told : Token!Honoured(answer, m)
    <2>1. ASSUME NEW answer \in told
          PROVE  Token!Honoured(answer, m)
      <3>1. Token!Honoured(answer, memory)
            BY <1>3 DEF Honour
      <3>2. answer.token \in DOMAIN mem
            BY <1>1, <3>1 DEF Token!Honoured
      <3>3. CASE m[answer.token] = mem[answer.token]
            BY <1>1, <1>6, <3>1, <3>2, <3>3 DEF Token!Honoured
      <3>4. CASE answer.token = t /\ m[t] = revoked
            BY <1>1, <1>5, <1>6, <3>1, <3>2, <3>4 DEF Token!Honoured
      <3> QED BY <1>6, <3>2, <3>3, <3>4
    <2> QED BY <2>1
  <1>7. CASE req[r].op = "create"
    <2>1. w = Token!Over(Token!One(n, new), mem) /\ n \notin DOMAIN mem
          BY <1>1, <1>3, <1>7 DEF Token!Written, LearnedFits
    <2>2. /\ DOMAIN w = {n} \cup DOMAIN mem /\ w[n] = new
          /\ \A u \in DOMAIN mem : w[u] = mem[u]
          BY <2>1 DEF Token!Over, Token!One
    <2>3. Tabled(w)
          BY <1>1, <1>3, <1>4, <2>2 DEF Tabled
    <2>4. Honour(w)
          BY <1>6, <2>2 DEF Honour
    <2>5. \A answer \in Token!Outcome(r) : answer = [token |-> n, as |-> r]
          BY <1>1, <1>7 DEF Token!Outcome
    <2>6. Token!Honoured([token |-> n, as |-> r], w)
          BY <1>4, <2>2 DEF Token!Honoured
    <2> QED BY <1>1, <2>3, <2>4, <2>5, <2>6
  <1>8. CASE req[r].op = "rotate"
    <2>1. PICK base : base = [mem EXCEPT ![t].status = "revoked"]
          OBVIOUS
    <2>2. /\ w = Token!Over(Token!One(n, new), base)
          /\ n \notin DOMAIN mem /\ t \in DOMAIN mem
          BY <1>1, <1>3, <1>8, <2>1 DEF Token!Written, LearnedFits
    <2>3. /\ DOMAIN base = DOMAIN mem /\ base[t] = revoked
          /\ \A u \in DOMAIN mem \ {t} : base[u] = mem[u]
          BY <1>2, <2>1, <2>2
    <2>4. /\ DOMAIN w = {n} \cup DOMAIN mem /\ w[n] = new
          /\ w[t] = revoked /\ \A u \in DOMAIN mem \ {t} : w[u] = mem[u]
          BY <2>2, <2>3 DEF Token!Over, Token!One
    <2>5. Tabled(w)
          BY <1>1, <1>3, <1>4, <1>5, <2>2, <2>4 DEF Tabled
    <2>6. Honour(w)
          BY <1>6, <2>2, <2>4 DEF Honour
    <2>7. \A answer \in Token!Outcome(r) :
             answer = [token |-> n, as |-> r] \/ answer = [token |-> t, as |-> "revoked"]
          BY <1>1, <1>8 DEF Token!Outcome
    <2>8. Token!Honoured([token |-> n, as |-> r], w)
          BY <1>4, <2>4 DEF Token!Honoured
    <2>9. Token!Honoured([token |-> t, as |-> "revoked"], w)
          BY <1>5, <2>2, <2>4 DEF Token!Honoured
    <2> QED BY <1>1, <2>5, <2>6, <2>7, <2>8, <2>9
  <1>9. CASE req[r].op = "revoke"
    <2>1. w = Token!Over(Token!One(t, revoked), mem) /\ t \in DOMAIN mem
          BY <1>1, <1>2, <1>3, <1>9 DEF Token!Written, LearnedFits
    <2>2. /\ DOMAIN w = DOMAIN mem /\ w[t] = revoked
          /\ \A u \in DOMAIN mem \ {t} : w[u] = mem[u]
          BY <2>1 DEF Token!Over, Token!One
    <2>3. Tabled(w)
          BY <1>1, <1>3, <1>5, <2>1, <2>2 DEF Tabled
    <2>4. Honour(w)
          BY <1>6, <2>2 DEF Honour
    <2>5. \A answer \in Token!Outcome(r) : answer = [token |-> t, as |-> "revoked"]
          BY <1>1, <1>9 DEF Token!Outcome
    <2>6. Token!Honoured([token |-> t, as |-> "revoked"], w)
          BY <1>5, <2>1, <2>2 DEF Token!Honoured
    <2> QED BY <1>1, <2>3, <2>4, <2>5, <2>6
  <1> QED BY <1>3, <1>7, <1>8, <1>9

\* A request's step that changes no records is as good as what the request is afterwards.
LEMMA OneSteps ==
    ASSUME TokensInv, NEW r \in Requests, service = r \/ service = None,
           NEW q, DOMAIN q = RequestFields, q.pc \in Serving \cup {"waiting", "done"},
           q.pc \in Serving => service' = r,
           req' = [req EXCEPT ![r] = q],
           memory' = memory, file' = file, told' = told,
           LearnedFits(r)', WritingFits(r)'
    PROVE  TokensInv'
  <1> USE ServerAssumption
  <1>1. req'[r] = q /\ DOMAIN req' = Requests /\ \A s \in Requests \ {r} : req'[s] = req[s]
        BY DEF TokensInv, OneServed
  <1>2. ASSUME NEW s \in Requests, s # r
        PROVE  req[s].pc \notin Serving
        BY <1>2 DEF TokensInv, OneServed
  <1>3. OneServed'
        BY <1>1, <1>2 DEF TokensInv, OneServed
  <1>4. ASSUME NEW s \in Requests, s # r
        PROVE  LearnedFits(s)' /\ WritingFits(s)'
    <2>1. req'[s] = req[s] /\ req[s].pc \notin Serving
          BY <1>1, <1>2, <1>4
    <2> QED BY <2>1 DEF LearnedFits, WritingFits, Serving
  <1>5. Tabled(memory)' /\ Tabled(file)' /\ Honour(memory)' /\ Honour(file)'
        BY DEF TokensInv, Tabled, Honour
  <1> QED BY <1>3, <1>4, <1>5 DEF TokensInv

\* Every step of the requests, a crash and time keep it so.
LEMMA TokensStep ==
    ASSUME TokensInv, [Token!Next]_Token!vars
    PROVE  TokensInv'
  <1> USE ServerAssumption
  <1>1. CASE UNCHANGED Token!vars
    <2>1. /\ tokenClock' = tokenClock /\ memory' = memory /\ file' = file /\ service' = service
          /\ store' = store /\ req' = req /\ told' = told
          BY <1>1 DEF Token!vars
    <2> QED BY <2>1 DEF TokensInv, OneServed, Tabled, Honour, LearnedFits, WritingFits,
                        Token!Outcome
  <1>2. CASE Token!Tick
    <2>1. /\ memory' = memory /\ file' = file /\ service' = service
          /\ store' = store /\ req' = req /\ told' = told
          BY <1>2 DEF Token!Tick
    <2> QED BY <2>1 DEF TokensInv, OneServed, Tabled, Honour, LearnedFits, WritingFits,
                        Token!Outcome
  <1>3. CASE Token!Crash
    <2>1. /\ memory' = file /\ file' = file /\ told' = told
          /\ req' = [r \in Requests |-> IF req[r].pc = "waiting" THEN req[r]
                                        ELSE [Token!Waiting EXCEPT !.pc = "done"]]
          BY <1>3 DEF Token!Crash
    <2>2. ASSUME NEW r \in Requests
          PROVE  DOMAIN req'[r] = RequestFields /\ req'[r].pc \in {"waiting", "done"}
          BY <2>1 DEF TokensInv, OneServed, Token!Waiting, RequestFields
    <2>3. OneServed'
          BY <2>1, <2>2 DEF OneServed, Serving
    <2>4. \A r \in Requests : LearnedFits(r)' /\ WritingFits(r)'
          BY <2>2 DEF LearnedFits, WritingFits
    <2>5. Tabled(memory)' /\ Tabled(file)' /\ Honour(memory)' /\ Honour(file)'
          BY <2>1 DEF TokensInv, Tabled, Honour
    <2> QED BY <2>3, <2>4, <2>5 DEF TokensInv
  <1>4. ASSUME NEW r \in Requests
        PROVE  /\ DOMAIN req[r] = RequestFields /\ DOMAIN req = Requests
               /\ req[r].pc \in Serving => service = r
               /\ LearnedFits(r) /\ WritingFits(r)
        BY DEF TokensInv, OneServed
  <1>5. ASSUME NEW r \in Requests, NEW op \in {"create", "rotate", "revoke"}, NEW t, NEW k, NEW expires,
               Token!Enter(r, op, t, k, expires)
        PROVE  TokensInv'
    <2>1. PICK q : q = [req[r] EXCEPT !.pc = op, !.op = op, !.token = t, !.connector = k,
                                      !.expires = expires]
          OBVIOUS
    <2>2. /\ DOMAIN q = RequestFields /\ q.pc = op /\ q.op = op
          BY <1>4, <2>1 DEF RequestFields
    <2>3. /\ req' = [req EXCEPT ![r] = q] /\ service = None /\ service' = r
          /\ memory' = memory /\ file' = file /\ told' = told
          BY <1>5, <2>1 DEF Token!Enter, Token!MayEnter
    <2>4. req'[r] = q
          BY <1>4, <2>3
    <2>5. LearnedFits(r)' /\ WritingFits(r)'
          BY <1>5, <2>2, <2>4 DEF LearnedFits, WritingFits
    <2> QED BY <1>5, <2>2, <2>3, <2>5, OneSteps DEF Serving
  <1>6. ASSUME NEW r \in Requests, req[r].pc \in Serving, Token!Refused(r)
        PROVE  TokensInv'
    <2>1. PICK q : q = [req[r] EXCEPT !.pc = "done"]
          OBVIOUS
    <2>2. DOMAIN q = RequestFields /\ q.pc = "done"
          BY <1>4, <2>1 DEF RequestFields
    <2>3. /\ req' = [req EXCEPT ![r] = q] /\ service = r
          /\ memory' = memory /\ file' = file /\ told' = told
          BY <1>4, <1>6, <2>1 DEF Token!Refused, Token!Answer, Token!Goto
    <2>4. req'[r] = q
          BY <1>4, <2>3
    <2>5. LearnedFits(r)' /\ WritingFits(r)'
          BY <2>2, <2>4 DEF LearnedFits, WritingFits
    <2> QED BY <2>2, <2>3, <2>5, OneSteps DEF Serving
  <1>7. ASSUME NEW r \in Requests, Token!Create(r)
        PROVE  TokensInv'
    <2>1. req[r].pc = "create" /\ service = r
          BY <1>4, <1>7 DEF Token!Create, Serving
    <2>2. CASE Token!Refused(r)
          BY <1>6, <2>1, <2>2 DEF Serving
    <2>3. CASE Token!Goto(r, "material") /\ UNCHANGED <<tokenClock, memory, file, service, store, told, crashes>>
      <3>1. PICK q : q = [req[r] EXCEPT !.pc = "material"]
            OBVIOUS
      <3>2. DOMAIN q = RequestFields /\ q.pc = "material" /\ q.op = "create"
            BY <1>4, <2>1, <3>1 DEF RequestFields, LearnedFits
      <3>3. /\ req' = [req EXCEPT ![r] = q]
            /\ memory' = memory /\ file' = file /\ told' = told /\ service' = service
            BY <2>3, <3>1 DEF Token!Goto
      <3>4. req'[r] = q
            BY <1>4, <3>3
      <3>5. LearnedFits(r)' /\ WritingFits(r)'
            BY <3>2, <3>4 DEF LearnedFits, WritingFits
      <3> QED BY <2>1, <3>2, <3>3, <3>5, OneSteps DEF Serving
    <2> QED BY <1>7, <2>2, <2>3 DEF Token!Create
  <1>8. ASSUME NEW r \in Requests, Token!Rotate(r)
        PROVE  TokensInv'
    <2>1. req[r].pc = "rotate" /\ service = r
          BY <1>4, <1>8 DEF Token!Rotate, Serving
    <2>2. CASE Token!Refused(r)
          BY <1>6, <2>1, <2>2 DEF Serving
    <2>3. CASE ~Token!Refused(r)
      <3>1. PICK q : q = [req[r] EXCEPT !.pc = "list", !.connector = memory[req[r].token].connector,
                                        !.expires = memory[req[r].token].expires]
            OBVIOUS
      <3>2. DOMAIN q = RequestFields /\ q.pc = "list" /\ q.op = "rotate" /\ q.token = req[r].token
            BY <1>4, <2>1, <3>1 DEF RequestFields, LearnedFits
      <3>3. /\ req' = [req EXCEPT ![r] = q] /\ req[r].token \in DOMAIN memory
            /\ memory' = memory /\ file' = file /\ told' = told /\ service' = service
            BY <1>4, <1>8, <2>3, <3>1 DEF Token!Rotate, Token!Known, RequestFields
      <3>4. req'[r] = q
            BY <1>4, <3>3
      <3>5. LearnedFits(r)' /\ WritingFits(r)'
            BY <3>2, <3>3, <3>4 DEF LearnedFits, WritingFits
      <3> QED BY <2>1, <3>2, <3>3, <3>5, OneSteps DEF Serving
    <2> QED BY <2>2, <2>3
  <1>9. ASSUME NEW r \in Requests, Token!List(r)
        PROVE  TokensInv'
    <2>1. req[r].pc = "list" /\ service = r
          BY <1>4, <1>9 DEF Token!List, Serving
    <2>2. PICK q : q = [req[r] EXCEPT !.pc = "material", !.next = memory]
          OBVIOUS
    <2>3. /\ DOMAIN q = RequestFields /\ q.pc = "material" /\ q.op = "rotate"
          /\ q.token = req[r].token /\ q.token \in DOMAIN memory /\ q.next = memory
          BY <1>4, <2>1, <2>2 DEF RequestFields, LearnedFits
    <2>4. /\ req' = [req EXCEPT ![r] = q]
          /\ memory' = memory /\ file' = file /\ told' = told /\ service' = service
          BY <1>4, <1>9, <2>2 DEF Token!List, RequestFields
    <2>5. req'[r] = q
          BY <1>4, <2>4
    <2>6. LearnedFits(r)' /\ WritingFits(r)'
          BY <2>3, <2>4, <2>5 DEF LearnedFits, WritingFits
    <2> QED BY <2>1, <2>3, <2>4, <2>6, OneSteps DEF Serving
  <1>10. ASSUME NEW r \in Requests, NEW t, Token!Generate(r, t)
         PROVE  TokensInv'
    <2>1. req[r].pc = "material" /\ service = r
          BY <1>4, <1>10 DEF Token!Generate, Serving
    <2>2. memory' = memory /\ file' = file
          BY <1>10 DEF Token!Generate
    <2>3. CASE Token!Known(t) /\ Token!Answer(r, {})
      <3>1. PICK q : q = [req[r] EXCEPT !.pc = "done"]
            OBVIOUS
      <3>2. DOMAIN q = RequestFields /\ q.pc = "done"
            BY <1>4, <3>1 DEF RequestFields
      <3>3. req' = [req EXCEPT ![r] = q] /\ told' = told
            BY <2>3, <3>1 DEF Token!Answer, Token!Goto
      <3>4. req'[r] = q
            BY <1>4, <3>3
      <3>5. LearnedFits(r)' /\ WritingFits(r)'
            BY <3>2, <3>4 DEF LearnedFits, WritingFits
      <3> QED BY <2>1, <2>2, <3>2, <3>3, <3>5, OneSteps DEF Serving
    <2>4. CASE req' = [req EXCEPT ![r].tries = @ + 1] /\ UNCHANGED <<service, told>>
      <3>1. PICK q : q = [req[r] EXCEPT !.tries = @ + 1]
            OBVIOUS
      <3>2. /\ DOMAIN q = RequestFields /\ q.pc = "material" /\ q.op = req[r].op
            /\ q.token = req[r].token /\ q.next = req[r].next
            BY <1>4, <2>1, <3>1 DEF RequestFields
      <3>3. req' = [req EXCEPT ![r] = q] /\ told' = told /\ service' = service
            BY <1>4, <2>4, <3>1 DEF RequestFields
      <3>4. req'[r] = q
            BY <1>4, <3>3
      <3>5. LearnedFits(r)' /\ WritingFits(r)'
            BY <1>4, <2>1, <2>2, <3>2, <3>4 DEF LearnedFits, WritingFits
      <3> QED BY <2>1, <2>2, <3>2, <3>3, <3>5, OneSteps DEF Serving
    <2>5. CASE /\ ~Token!Known(t) /\ req' = [req EXCEPT ![r].pc = "store", ![r].fresh = t]
               /\ UNCHANGED <<service, told>>
      <3>1. PICK q : q = [req[r] EXCEPT !.pc = "store", !.fresh = t]
            OBVIOUS
      <3>2. /\ DOMAIN q = RequestFields /\ q.pc = "store" /\ q.op = req[r].op /\ q.fresh = t
            /\ q.token = req[r].token /\ q.next = req[r].next
            BY <1>4, <3>1 DEF RequestFields
      <3>3. req' = [req EXCEPT ![r] = q] /\ told' = told /\ service' = service
            BY <1>4, <2>5, <3>1 DEF RequestFields
      <3>4. req'[r] = q
            BY <1>4, <3>3
      <3>5. LearnedFits(r)' /\ WritingFits(r)'
            BY <1>4, <2>1, <2>2, <2>5, <3>2, <3>4 DEF LearnedFits, WritingFits, Token!Known
      <3> QED BY <2>1, <2>2, <3>2, <3>3, <3>5, OneSteps DEF Serving
    <2> QED BY <1>10, <2>3, <2>4, <2>5 DEF Token!Generate
  <1>11. ASSUME NEW r \in Requests, Token!Revoke(r)
         PROVE  TokensInv'
    <2>1. req[r].pc = "revoke" /\ service = r
          BY <1>4, <1>11 DEF Token!Revoke, Serving
    <2>2. CASE Token!Refused(r)
          BY <1>6, <2>1, <2>2 DEF Serving
    <2>3. CASE ~Token!Refused(r)
      <3>1. PICK next : next = Token!One(req[r].token, [memory[req[r].token] EXCEPT !.status = "revoked"])
            OBVIOUS
      <3>2. PICK q : q = [req[r] EXCEPT !.pc = "store", !.next = next]
            OBVIOUS
      <3>3. /\ DOMAIN q = RequestFields /\ q.pc = "store" /\ q.op = "revoke"
            /\ q.token = req[r].token /\ q.next = next
            BY <1>4, <2>1, <3>2 DEF RequestFields, LearnedFits
      <3>4. /\ req' = [req EXCEPT ![r] = q] /\ req[r].token \in DOMAIN memory
            /\ memory' = memory /\ file' = file /\ told' = told /\ service' = service
            BY <1>4, <1>11, <2>3, <3>1, <3>2 DEF Token!Revoke, Token!Known, RequestFields
      <3>5. req'[r] = q
            BY <1>4, <3>4
      <3>6. LearnedFits(r)' /\ WritingFits(r)'
            BY <3>1, <3>3, <3>4, <3>5 DEF LearnedFits, WritingFits
      <3> QED BY <2>1, <3>3, <3>4, <3>6, OneSteps DEF Serving
    <2> QED BY <2>2, <2>3
  <1>12. ASSUME NEW r \in Requests, Token!Take(r)
         PROVE  TokensInv'
    <2>1. req[r].pc = "store" /\ service = r
          BY <1>4, <1>12 DEF Token!Take, Serving
    <2>2. PICK w : w = Token!Written(r)
          OBVIOUS
    <2>3. PICK q : q = [req[r] EXCEPT !.pc = "rename", !.next = w]
          OBVIOUS
    <2>4. /\ DOMAIN q = RequestFields /\ q.pc = "rename" /\ q.op = req[r].op
          /\ q.token = req[r].token /\ q.fresh = req[r].fresh /\ q.next = w
          BY <1>4, <2>3 DEF RequestFields
    <2>5. /\ req' = [req EXCEPT ![r] = q]
          /\ memory' = memory /\ file' = file /\ told' = told /\ service' = service
          BY <1>4, <1>12, <2>2, <2>3 DEF Token!Take, RequestFields
    <2>6. req'[r] = q
          BY <1>4, <2>5
    <2>7. Tabled(w) /\ Honour(w) /\ \A answer \in Token!Outcome(r) : Token!Honoured(answer, w)
          BY <2>1, <2>2, WrittenFits
    <2>8. LearnedFits(r)' /\ WritingFits(r)'
      <3>1. Token!Outcome(r)' = Token!Outcome(r)
            BY <2>4, <2>6 DEF Token!Outcome
      <3> QED BY <2>4, <2>5, <2>6, <2>7, <3>1 DEF LearnedFits, WritingFits, Tabled, Honour
    <2> QED BY <2>1, <2>4, <2>5, <2>8, OneSteps DEF Serving
  <1>13. ASSUME NEW r \in Requests, NEW s \in Requests, req[r].pc \in Serving, s # r
         PROVE  req[s].pc \notin Serving
         BY <1>13 DEF TokensInv, OneServed
  <1>14. ASSUME NEW r \in Requests, Token!Rename(r)
         PROVE  TokensInv'
    <2>1. /\ req[r].pc = "rename" /\ file' = req[r].next /\ req' = [req EXCEPT ![r].pc = "swap"]
          /\ memory' = memory /\ told' = told /\ service' = service
          BY <1>14 DEF Token!Rename, Token!Goto
    <2>2. /\ DOMAIN req' = Requests /\ req'[r].pc = "swap" /\ DOMAIN req'[r] = RequestFields
          /\ req'[r].op = req[r].op /\ req'[r].token = req[r].token /\ req'[r].fresh = req[r].fresh
          /\ req'[r].next = req[r].next
          /\ \A s \in Requests \ {r} : req'[s] = req[s]
          BY <1>4, <2>1 DEF RequestFields
    <2>3. \A s \in Requests \ {r} : req[s].pc \notin Serving
          BY <1>13, <2>1 DEF Serving
    <2>4. OneServed'
          BY <2>1, <2>2 DEF TokensInv, OneServed, Serving
    <2>5. Tabled(file') /\ \A answer \in told : Token!Honoured(answer, file')
          BY <1>4, <2>1 DEF WritingFits, Honour
    <2>6. \A answer \in Token!Outcome(r)' : Token!Honoured(answer, file')
          BY <1>4, <2>1, <2>2 DEF WritingFits, Token!Outcome
    <2>7. LearnedFits(r)' /\ WritingFits(r)'
          BY <2>1, <2>2, <2>5, <2>6 DEF LearnedFits, WritingFits, Tabled, Honour
    <2>8. \A s \in Requests \ {r} : LearnedFits(s)' /\ WritingFits(s)'
          BY <2>2, <2>3 DEF LearnedFits, WritingFits, Serving
    <2>9. Tabled(memory)' /\ Honour(memory)'
          BY <2>1 DEF TokensInv, Tabled, Honour
    <2> QED BY <2>1, <2>4, <2>5, <2>7, <2>8, <2>9 DEF TokensInv, Tabled, Honour
  <1>15. ASSUME NEW r \in Requests, Token!WriteFails(r)
         PROVE  TokensInv'
    <2>1. PICK q : q = [req[r] EXCEPT !.pc = "done"]
          OBVIOUS
    <2>2. DOMAIN q = RequestFields /\ q.pc = "done"
          BY <1>4, <2>1 DEF RequestFields
    <2>3. /\ req' = [req EXCEPT ![r] = q] /\ service = r
          /\ memory' = memory /\ file' = file /\ told' = told
          BY <1>4, <1>15, <2>1 DEF Token!WriteFails, Token!Answer, Token!Goto, Serving
    <2>4. req'[r] = q
          BY <1>4, <2>3
    <2>5. LearnedFits(r)' /\ WritingFits(r)'
          BY <2>2, <2>4 DEF LearnedFits, WritingFits
    <2> QED BY <2>2, <2>3, <2>5, OneSteps DEF Serving
  <1>16. ASSUME NEW r \in Requests, Token!Swap(r)
         PROVE  TokensInv'
    <2>1. /\ req[r].pc = "swap" /\ memory' = req[r].next /\ req' = [req EXCEPT ![r].pc = "done"]
          /\ file' = file /\ told' = told \cup Token!Outcome(r) /\ service' = None
          BY <1>16 DEF Token!Swap, Token!Answer, Token!Goto
    <2>2. /\ DOMAIN req' = Requests /\ req'[r].pc = "done" /\ DOMAIN req'[r] = RequestFields
          /\ \A s \in Requests \ {r} : req'[s] = req[s]
          BY <1>4, <2>1 DEF RequestFields
    <2>3. \A s \in Requests \ {r} : req[s].pc \notin Serving
          BY <1>13, <2>1 DEF Serving
    <2>4. OneServed'
          BY <2>1, <2>2, <2>3 DEF TokensInv, OneServed, Serving
    <2>5. Tabled(memory') /\ file' = memory' /\ \A answer \in told' : Token!Honoured(answer, memory')
          BY <1>4, <2>1 DEF WritingFits, Honour
    <2>6. \A s \in Requests : LearnedFits(s)' /\ WritingFits(s)'
          BY <2>2, <2>3 DEF LearnedFits, WritingFits, Serving
    <2> QED BY <2>4, <2>5, <2>6 DEF TokensInv, Tabled, Honour
  <1>17. ASSUME Token!Next
         PROVE  TokensInv'
    <2>1. CASE Token!Crash \/ Token!Tick
          BY <1>2, <1>3, <2>1
    <2>2. ASSUME NEW r \in Requests,
                 \/ \E k \in TokenConnectors, expires \in 0..TokenBounds.time :
                       Token!Enter(r, "create", None, k, expires)
                 \/ \E t \in Tokens, op \in {"rotate", "revoke"} : Token!Enter(r, op, t, None, 0)
          PROVE  TokensInv'
          BY <1>5, <2>2
    <2>3. ASSUME NEW r \in Requests,
                 \/ Token!Create(r) \/ Token!Rotate(r) \/ Token!List(r) \/ Token!Revoke(r)
                 \/ \E t \in Tokens : Token!Generate(r, t)
                 \/ Token!Take(r) \/ Token!Rename(r) \/ Token!WriteFails(r) \/ Token!Swap(r)
          PROVE  TokensInv'
          BY <1>7, <1>8, <1>9, <1>10, <1>11, <1>12, <1>14, <1>15, <1>16, <2>3
    <2> QED BY <1>17, <2>1, <2>2, <2>3, Zenon DEF Token!Next
  <1> QED BY <1>1, <1>17

\* Every answer about a token holds for good, in memory and in the file, across whatever other
\* requests do and across crashes.
THEOREM TokensSafe == Token!Spec => []TokensInv
  <1>1. Token!Init => TokensInv
    <2> SUFFICES ASSUME Token!Init PROVE TokensInv
        OBVIOUS
    <2>1. /\ file \in InitialRecords /\ memory = file /\ told = {}
          /\ req = [r \in Requests |-> Token!Waiting]
          BY DEF Token!Init
    <2>2. ASSUME NEW r \in Requests
          PROVE  DOMAIN req[r] = RequestFields /\ req[r].pc = "waiting"
          BY <2>1 DEF Token!Waiting, RequestFields
    <2>3. OneServed /\ \A r \in Requests : LearnedFits(r) /\ WritingFits(r)
          BY <2>1, <2>2 DEF OneServed, LearnedFits, WritingFits, Serving
    <2>4. Tabled(memory) /\ Tabled(file) /\ Honour(memory) /\ Honour(file)
          BY <2>1, ServerAssumption DEF Tabled, Honour, RecordFields
    <2> QED BY <2>3, <2>4 DEF TokensInv
  <1>2. TokensInv /\ [Token!Next]_Token!vars => TokensInv'
        BY TokensStep
  <1> QED BY <1>1, <1>2, PTL DEF Token!Spec

-----------------------------------------------------------------------------
\* The admin API (AdminApi), for all workloads and limits.

\* A nonempty set of natural numbers has a least one.
LEMMA SmallestThere ==
    ASSUME NEW S \in SUBSET Nat, S # {}
    PROVE  \E n \in S : \A m \in S : n <= m
  <1>1. PICK n \in S : \A m \in S : ~(<<m, n>> \in OpToRel(<, Nat))
        BY NatLessThanWellFounded, WFMin
  <1>2. ASSUME NEW m \in S, m < n
        PROVE  FALSE
        BY <1>1, <1>2 DEF OpToRel
  <1> QED BY <1>2

CallFields == {"pc", "op", "browser", "token", "arg", "sound", "start", "at", "user", "late",
               "before", "events", "searched", "page", "more"}

\* The requests that have their response.
Replied == {c \in Admin!Calls : call[c].pc \in {"answered", "done"}}

CallsFit ==
    /\ uses.calls \in Nat /\ adminClock \in Nat /\ begun \in 0..uses.calls
    /\ DOMAIN call = Admin!Calls
    /\ \A c \in Admin!Calls :
          /\ DOMAIN call[c] = CallFields
          /\ call[c].start \in 0..adminClock /\ call[c].at \in 0..adminClock
          /\ c > begun => call[c].pc = "unborn"
          /\ call[c].searched => call[c].pc = "answered"

\* Every session there is, or was, or that a browser still has the cookie of, is one of a
\* request that has its response; one that is over is not among those there are, and a
\* request that is late for it gets no further.
SessionsFit ==
    /\ DOMAIN jar = DOMAIN uses.logins
    /\ DOMAIN sessions \subseteq Replied /\ over \subseteq Replied
    /\ \A b \in DOMAIN jar : jar[b] \in Replied \cup {None}
    /\ \A c \in Admin!Calls : call[c].token \in Replied \cup {None}
    /\ \A s \in over : s \notin DOMAIN sessions
    /\ \A c \in Admin!Calls : call[c].late =>
          \/ call[c].pc = "begun" /\ call[c].token \in over
          \/ call[c].pc = "leaving"

\* The step of one request: what it may change of it.
Moved(c, q) ==
    /\ uses' = uses /\ begun' = begun /\ adminClock' = adminClock
    /\ call' = [call EXCEPT ![c] = q]
    /\ DOMAIN q = CallFields
    /\ q.start \in 0..adminClock /\ q.at \in 0..adminClock
    /\ q.token \in {call[c].token, None}
    /\ q.before = 0 \/ (q.before = call[c].before /\ q.start = call[c].start)
    /\ q.op = "search" => call[c].op = "search" /\ q.arg = call[c].arg
    /\ c \in Replied => q.pc \in {"answered", "done"}
    /\ q.late => q.pc = "leaving"
    /\ q.searched => q.pc = "answered" /\ Admin!Search(c)

Acts(c) ==
    \/ Admin!Forbid(c) \/ Admin!Log(c)
    \/ Admin!Login(c) \/ Admin!Session(c) \/ Admin!Logout(c) \/ Admin!Leave(c) \/ Admin!Admit(c)
    \/ Admin!Read(c) \/ Admin!Operate(c) \/ Admin!Manage(c) \/ Admin!Search(c)
    \/ Admin!Stream(c) \/ Admin!Push(c) \/ Admin!Hangup(c)
    \/ Admin!Export(c) \/ Admin!Download(c)

\* A request begins.
Begins == \E b \in DOMAIN uses.logins : \E op, arg, sound :
             Admin!Begin(b, op, arg, sound) /\ (op = "search" => arg \in Nat)

\* A response is a move.
LEMMA AnsweredMoves ==
    ASSUME CallsFit, NEW c \in Admin!Calls, Admin!Answered(c),
           uses' = uses, begun' = begun, adminClock' = adminClock
    PROVE  \E q : Moved(c, q) /\ q.pc = "answered"
  <1>1. PICK q : q = [Admin!Unborn EXCEPT !.pc = "answered", !.start = call[c].start]
        OBVIOUS
  <1>2. /\ DOMAIN q = CallFields /\ q.pc = "answered" /\ q.start = call[c].start /\ q.at = 0
        /\ q.token = None /\ q.before = 0 /\ q.op = "none" /\ q.late = FALSE /\ q.searched = FALSE
        BY <1>1 DEF Admin!Unborn, CallFields
  <1>3. call' = [call EXCEPT ![c] = q]
        BY <1>1 DEF Admin!Answered
  <1>4. 0 \in 0..adminClock
        BY DEF CallsFit
  <1>5. q.start \in 0..adminClock
        BY <1>2, <1>4 DEF CallsFit
  <1>6. Moved(c, q)
        BY <1>2, <1>3, <1>4, <1>5 DEF Moved
  <1> QED BY <1>2, <1>6

\* So is the end of a request.
LEMMA DoneMoves ==
    ASSUME CallsFit, NEW c \in Admin!Calls, call' = [call EXCEPT ![c] = [Admin!Unborn EXCEPT !.pc = "done"]],
           uses' = uses, begun' = begun, adminClock' = adminClock
    PROVE  \E q : Moved(c, q)
  <1>1. PICK q : q = [Admin!Unborn EXCEPT !.pc = "done"]
        OBVIOUS
  <1>2. /\ DOMAIN q = CallFields /\ q.pc = "done" /\ q.start = 0 /\ q.at = 0
        /\ q.token = None /\ q.before = 0 /\ q.op = "none" /\ q.late = FALSE /\ q.searched = FALSE
        BY <1>1 DEF Admin!Unborn, CallFields
  <1>3. call' = [call EXCEPT ![c] = q]
        BY <1>1
  <1>4. 0 \in 0..adminClock
        BY DEF CallsFit
  <1>5. q.start \in 0..adminClock
        BY <1>2, <1>4 DEF CallsFit
  <1>6. Moved(c, q)
        BY <1>2, <1>3, <1>4, <1>5 DEF Moved
  <1> QED BY <1>2, <1>6

\* A change of some fields of an admitted request is a move.
LEMMA FieldsMove ==
    ASSUME CallsFit, NEW c \in Admin!Calls, NEW q, DOMAIN q = CallFields,
           call' = [call EXCEPT ![c] = q],
           c \notin Replied, ~q.late, q.at \in 0..adminClock,
           q.token \in {call[c].token, None}, q.start = call[c].start, q.before = call[c].before,
           q.op = call[c].op, q.arg = call[c].arg,
           q.searched => q.pc = "answered" /\ Admin!Search(c),
           uses' = uses, begun' = begun, adminClock' = adminClock
    PROVE  Moved(c, q)
  BY DEF Moved, CallsFit

\* Every step of a request is a move of it.
LEMMA Movements ==
    ASSUME CallsFit, SessionsFit, NEW c \in 1..begun, Acts(c)
    PROVE  c \in Admin!Calls /\ \E q : Moved(c, q)
  <1>1. c \in Admin!Calls /\ DOMAIN call[c] = CallFields
        BY DEF CallsFit, Admin!Calls
  <1>2. /\ call[c].at \in 0..adminClock
        /\ call[c].searched => call[c].pc = "answered"
        /\ call[c].late => \/ call[c].pc = "begun" /\ call[c].token \in over
                           \/ call[c].pc = "leaving"
        BY <1>1 DEF CallsFit, SessionsFit
  <1>3. Admin!Log(c) => \E q : Moved(c, q)
        BY <1>1, DoneMoves DEF Admin!Log
  <1>4. Admin!Session(c) => \E q : Moved(c, q)
        BY <1>1, DoneMoves DEF Admin!Session
  <1>5. Admin!Forbid(c) \/ Admin!Login(c) \/ Admin!Leave(c) \/ Admin!Read(c) \/ Admin!Operate(c)
          \/ Admin!Manage(c) \/ Admin!Hangup(c) \/ Admin!Export(c) \/ Admin!Download(c)
          => \E q : Moved(c, q)
        BY <1>1, AnsweredMoves DEF Admin!Forbid, Admin!Login, Admin!Leave, Admin!Read, Admin!Operate,
           Admin!Manage, Admin!Hangup, Admin!Export, Admin!Download, Admin!rest
  <1>6. ASSUME Admin!Logout(c)
        PROVE  \E q : Moved(c, q)
    <2>1. /\ call[c].pc = "begun"
          /\ uses' = uses /\ begun' = begun /\ adminClock' = adminClock
          BY <1>6 DEF Admin!Logout
    <2>2. PICK token : /\ token \in {call[c].token, None}
                       /\ call' = [call EXCEPT ![c] = [call[c] EXCEPT !.pc = "leaving", !.token = token]]
          BY <1>1, <1>6 DEF Admin!Logout, CallFields, CallsFit
    <2>3. PICK q : q = [call[c] EXCEPT !.pc = "leaving", !.token = token]
          OBVIOUS
    <2>4. /\ DOMAIN q = CallFields /\ q.pc = "leaving" /\ q.start = call[c].start /\ q.at = call[c].at
          /\ q.token = token /\ q.before = call[c].before /\ q.op = call[c].op /\ q.arg = call[c].arg
          /\ q.searched = call[c].searched
          BY <1>1, <2>3 DEF CallFields
    <2> QED BY <1>1, <1>2, <2>1, <2>2, <2>3, <2>4 DEF Moved, CallsFit, Replied
  <1>7. ASSUME Admin!Admit(c)
        PROVE  \E q : Moved(c, q)
    <2>1. /\ call[c].pc = "begun"
          /\ uses' = uses /\ begun' = begun /\ adminClock' = adminClock
          BY <1>7 DEF Admin!Admit
    <2>2. CASE Admin!Answered(c)
          BY <1>1, <2>1, <2>2, AnsweredMoves
    <2>3. CASE ~Admin!Answered(c)
      <3>1. PICK t \in Admin!ReadTimes(c) :
               /\ Admin!Resolves(c, t)
               /\ call' = [call EXCEPT ![c].pc = "admitted", ![c].at = t,
                                       ![c].user = sessions[call[c].token].user]
            BY <1>7, <2>3 DEF Admin!Admit
      <3>2. PICK q : q = [call[c] EXCEPT !.pc = "admitted", !.at = t,
                                         !.user = sessions[call[c].token].user]
            OBVIOUS
      <3>3. /\ DOMAIN q = CallFields /\ q.pc = "admitted" /\ q.start = call[c].start /\ q.at = t
            /\ q.token = call[c].token /\ q.before = call[c].before /\ q.op = call[c].op
            /\ q.arg = call[c].arg /\ q.searched = call[c].searched /\ q.late = call[c].late
            BY <1>1, <3>2 DEF CallFields
      <3>4. call' = [call EXCEPT ![c] = q]
            BY <1>1, <3>1, <3>2 DEF CallFields, CallsFit
      <3>5. t \in 0..adminClock
            BY <1>1, <1>2 DEF Admin!ReadTimes, CallsFit
      <3>6. call[c].token \in DOMAIN sessions
            BY <3>1 DEF Admin!Resolves, Admin!Unexpired, Admin!Restrict
      <3>7. ~call[c].late
            BY <1>2, <2>1, <3>6 DEF SessionsFit
      <3>8. c \notin Replied
            BY <2>1 DEF Replied
      <3> QED BY <1>1, <1>2, <2>1, <3>3, <3>4, <3>5, <3>7, <3>8, FieldsMove
    <2> QED BY <2>2, <2>3
  <1>8. ASSUME Admin!Search(c) \/ Admin!Stream(c) \/ Admin!Push(c)
        PROVE  \E q : Moved(c, q)
    <2>1. /\ call[c].pc \in {"admitted", "streaming"}
          /\ uses' = uses /\ begun' = begun /\ adminClock' = adminClock
          BY <1>8 DEF Admin!Search, Admin!Stream, Admin!Push, Admin!Runs, Admin!rest
    <2>2. PICK q : /\ call' = [call EXCEPT ![c] = q] /\ DOMAIN q = CallFields
                   /\ q.start = call[c].start /\ q.at = call[c].at
                   /\ q.token = call[c].token /\ q.before = call[c].before /\ q.op = call[c].op
                   /\ q.arg = call[c].arg /\ q.late = call[c].late
                   /\ q.searched => call[c].searched \/ (q.pc = "answered" /\ Admin!Search(c))
      <3>1. CASE Admin!Search(c)
        <4>1. PICK page, more : call' = [call EXCEPT ![c].pc = "answered", ![c].searched = TRUE,
                                                     ![c].page = page, ![c].more = more]
              BY <3>1 DEF Admin!Search
        <4>2. PICK q : q = [call[c] EXCEPT !.pc = "answered", !.searched = TRUE,
                                           !.page = page, !.more = more]
              OBVIOUS
        <4>3. call' = [call EXCEPT ![c] = q]
              BY <1>1, <4>1, <4>2 DEF CallFields, CallsFit
        <4>4. /\ DOMAIN q = CallFields /\ q.pc = "answered"
              /\ q.start = call[c].start /\ q.at = call[c].at
              /\ q.token = call[c].token /\ q.before = call[c].before /\ q.op = call[c].op
              /\ q.arg = call[c].arg /\ q.late = call[c].late
              BY <1>1, <4>2 DEF CallFields
        <4> QED BY <3>1, <4>3, <4>4
      <3>2. CASE Admin!Stream(c)
        <4>1. PICK q : q = [call[c] EXCEPT !.pc = "streaming", !.events = 1]
              OBVIOUS
        <4>2. call' = [call EXCEPT ![c] = q]
              BY <1>1, <3>2, <4>1 DEF CallFields, CallsFit, Admin!Stream
        <4>3. /\ DOMAIN q = CallFields /\ q.searched = call[c].searched
              /\ q.start = call[c].start /\ q.at = call[c].at
              /\ q.token = call[c].token /\ q.before = call[c].before /\ q.op = call[c].op
              /\ q.arg = call[c].arg /\ q.late = call[c].late
              BY <1>1, <4>1 DEF CallFields
        <4> QED BY <4>2, <4>3
      <3>3. CASE Admin!Push(c)
        <4>1. PICK q : q = [call[c] EXCEPT !.events = @ + 1]
              OBVIOUS
        <4>2. call' = [call EXCEPT ![c] = q]
              BY <1>1, <3>3, <4>1 DEF CallFields, CallsFit, Admin!Push
        <4>3. /\ DOMAIN q = CallFields /\ q.searched = call[c].searched
              /\ q.start = call[c].start /\ q.at = call[c].at
              /\ q.token = call[c].token /\ q.before = call[c].before /\ q.op = call[c].op
              /\ q.arg = call[c].arg /\ q.late = call[c].late
              BY <1>1, <4>1 DEF CallFields
        <4> QED BY <4>2, <4>3
      <3> QED BY <1>8, <3>1, <3>2, <3>3
    <2>3. c \notin Replied /\ ~call[c].late /\ ~call[c].searched
          BY <1>2, <2>1 DEF Replied
    <2> QED BY <1>1, <1>2, <2>1, <2>2, <2>3, FieldsMove
  <1> QED BY <1>1, <1>3, <1>4, <1>5, <1>6, <1>7, <1>8 DEF Acts

\* What there can be in a step: a beginning, a move, or time.
LEMMA AdminSteps ==
    ASSUME CallsFit, [Admin!Next]_Admin!vars
    PROVE  \/ UNCHANGED Admin!vars \/ Admin!Tick
           \/ Begins \/ \E c \in 1..begun : Acts(c)
  <1>1. ASSUME NEW b \in DOMAIN uses.logins,
               \/ \E login \in uses.logins[b], sound \in uses.sound : Admin!Begin(b, "login", login, sound)
               \/ \E op \in {"logout", "operate", "manage", "export"}, sound \in uses.sound :
                      Admin!Begin(b, op, None, sound)
               \/ \E op \in {"session", "read", "stream"} : Admin!Begin(b, op, None, TRUE)
               \/ \E from \in 0..adminClock : Admin!Begin(b, "search", from, TRUE)
               \/ \E n \in DOMAIN links : Admin!Begin(b, "download", n, TRUE)
        PROVE  Begins
    <2>1. ASSUME NEW op, NEW arg, NEW sound, Admin!Begin(b, op, arg, sound), op # "search"
          PROVE  Begins
          BY <2>1 DEF Begins
    <2>2. ASSUME NEW from \in 0..adminClock, Admin!Begin(b, "search", from, TRUE)
          PROVE  Begins
      <3>1. from \in Nat
            BY DEF CallsFit
      <3> QED BY <2>2, <3>1 DEF Begins
    <2>3. ASSUME NEW op \in {"logout", "operate", "manage", "export", "session", "read", "stream"}
          PROVE  op # "search"
          OBVIOUS
    <2> QED BY <1>1, <2>1, <2>2, <2>3
  <1>2. ASSUME NEW c \in 1..begun,
               \/ Admin!Forbid(c) \/ Admin!Log(c)
               \/ Admin!Login(c) \/ Admin!Session(c) \/ Admin!Logout(c) \/ Admin!Leave(c) \/ Admin!Admit(c)
               \/ Admin!Read(c) \/ Admin!Operate(c) \/ Admin!Manage(c) \/ Admin!Search(c)
               \/ Admin!Stream(c) \/ Admin!Push(c) \/ Admin!Hangup(c)
               \/ Admin!Export(c) \/ Admin!Download(c)
        PROVE  Acts(c)
        BY <1>2, Zenon DEF Acts
  <1> QED BY <1>1, <1>2, Zenon DEF Admin!Next

\* A step keeps what there is to know of the requests.
LEMMA CallsStep ==
    ASSUME CallsFit, SessionsFit, [Admin!Next]_Admin!vars
    PROVE  CallsFit' /\ uses' = uses /\ Admin!Calls' = Admin!Calls
  <1>1. CASE UNCHANGED Admin!vars
    <2>1. uses' = uses /\ adminClock' = adminClock /\ begun' = begun /\ call' = call
          BY <1>1 DEF Admin!vars, Admin!rest
    <2> QED BY <2>1 DEF CallsFit, Admin!Calls
  <1>2. CASE Admin!Tick
    <2>1. uses' = uses /\ adminClock' = adminClock + 1 /\ begun' = begun /\ call' = call
          BY <1>2 DEF Admin!Tick
    <2>2. \A n \in 0..adminClock : n \in 0..(adminClock + 1)
          BY DEF CallsFit
    <2> QED BY <2>1, <2>2 DEF CallsFit, Admin!Calls
  <1>3. ASSUME NEW b \in DOMAIN uses.logins, NEW op, NEW arg, NEW sound, Admin!Begin(b, op, arg, sound)
        PROVE  CallsFit' /\ uses' = uses /\ Admin!Calls' = Admin!Calls
    <2>1. PICK c, late, before : /\ c = begun + 1 /\ c \in Admin!Calls /\ begun' = c
             /\ call' = [call EXCEPT ![c] =
                   [Admin!Unborn EXCEPT !.pc = "begun", !.op = op, !.browser = b, !.token = jar[b],
                                        !.arg = arg, !.sound = sound, !.start = adminClock,
                                        !.at = adminClock, !.late = late, !.before = before]]
             /\ uses' = uses /\ adminClock' = adminClock
          BY <1>3 DEF Admin!Begin
    <2>2. PICK q : q = [Admin!Unborn EXCEPT !.pc = "begun", !.op = op, !.browser = b, !.token = jar[b],
                                        !.arg = arg, !.sound = sound, !.start = adminClock,
                                        !.at = adminClock, !.late = late, !.before = before]
          OBVIOUS
    <2>3. /\ DOMAIN q = CallFields /\ q.start = adminClock /\ q.at = adminClock /\ q.searched = FALSE
          BY <2>2 DEF Admin!Unborn, CallFields
    <2>4. call' = [call EXCEPT ![c] = q]
          BY <2>1, <2>2
    <2>5. begun' \in 0..uses.calls /\ \A d \in Admin!Calls : d > begun' => d > begun /\ d # c
          BY <2>1 DEF CallsFit, Admin!Calls
    <2>6. adminClock \in 0..adminClock
          BY DEF CallsFit
    <2> QED BY <2>1, <2>3, <2>4, <2>5, <2>6 DEF CallsFit, Admin!Calls
  <1>4. ASSUME NEW c \in 1..begun, Acts(c)
        PROVE  CallsFit' /\ uses' = uses /\ Admin!Calls' = Admin!Calls
    <2>1. PICK q : Moved(c, q)
          BY <1>4, Movements
    <2>2. c \in Admin!Calls /\ ~(c > begun)
          BY DEF CallsFit, Admin!Calls
    <2>3. /\ uses' = uses /\ adminClock' = adminClock /\ begun' = begun
          /\ DOMAIN call' = Admin!Calls /\ call'[c] = q
          /\ \A d \in Admin!Calls \ {c} : call'[d] = call[d]
          BY <2>1, <2>2 DEF Moved, CallsFit
    <2>4. /\ DOMAIN q = CallFields /\ q.start \in 0..adminClock /\ q.at \in 0..adminClock
          /\ q.searched => q.pc = "answered"
          BY <2>1 DEF Moved
    <2> QED BY <2>2, <2>3, <2>4 DEF CallsFit, Admin!Calls
  <1> QED BY <1>1, <1>2, <1>3, <1>4, AdminSteps DEF Begins

\* What a step of a request may do to the sessions and their cookies.
Turned(c, q) ==
    /\ \A s \in DOMAIN sessions' : s \in DOMAIN sessions \/ (s = c /\ c \notin Replied /\ q.pc = "answered")
    /\ \A s \in over' : s \in over \/ (s \in Replied /\ s \notin DOMAIN sessions')
    /\ DOMAIN jar' = DOMAIN jar
    /\ \A b \in DOMAIN jar : jar'[b] \in {jar[b], None} \/ (jar'[b] = c /\ q.pc = "answered")

\* A look leaves sessions there were.
LEMMA LooksKeep ==
    \A c, t : DOMAIN Admin!Looked(c, t) \subseteq DOMAIN sessions
  BY DEF Admin!Looked, Admin!Unexpired, Admin!Restrict

\* A cookie is set to a session, or stays.
LEMMA CookieKeeps ==
    ASSUME NEW c, NEW s, Admin!Cookie(c, s)
    PROVE  DOMAIN jar' = DOMAIN jar /\ \A b \in DOMAIN jar : jar'[b] \in {jar[b], s}
  BY DEF Admin!Cookie

\* What every step of a request does to them.
LEMMA Turns ==
    ASSUME CallsFit, SessionsFit, NEW c \in Admin!Calls, Acts(c), NEW q, Moved(c, q)
    PROVE  Turned(c, q)
  <1>1. ASSUME sessions' = sessions, over' = over, jar' = jar
        PROVE  Turned(c, q)
        BY <1>1 DEF Turned
  <1>2. Admin!Forbid(c) \/ Admin!Log(c) \/ Admin!Read(c) \/ Admin!Operate(c) \/ Admin!Manage(c)
           \/ Admin!Search(c) \/ Admin!Stream(c) \/ Admin!Push(c) \/ Admin!Hangup(c)
           \/ Admin!Export(c) \/ Admin!Download(c)
           => sessions' = sessions /\ over' = over /\ jar' = jar
        BY DEF Admin!Forbid, Admin!Log, Admin!Read, Admin!Operate, Admin!Manage, Admin!Search,
               Admin!Stream, Admin!Push, Admin!Hangup, Admin!Export, Admin!Download, Admin!rest
  <1>3. CASE Admin!Login(c)
    <2>1. c \notin Replied /\ over' = over
          BY <1>3 DEF Admin!Login, Replied
    <2>2. q.pc = "answered"
      <3>1. call' = [call EXCEPT ![c] = [Admin!Unborn EXCEPT !.pc = "answered", !.start = call[c].start]]
            BY <1>3 DEF Admin!Login, Admin!Answered
      <3>2. call'[c] = q
            BY DEF Moved, CallsFit
      <3>3. call'[c] = [Admin!Unborn EXCEPT !.pc = "answered", !.start = call[c].start]
            BY <3>1 DEF CallsFit
      <3> QED BY <3>2, <3>3 DEF Admin!Unborn
    <2>3. CASE UNCHANGED <<sessions, jar>>
          BY <1>1, <2>1, <2>3
    <2>4. CASE sessions' = Admin!Created(c) /\ Admin!Cookie(c, c)
      <3>1. DOMAIN sessions' \subseteq DOMAIN sessions \cup {c}
            BY <2>4 DEF Admin!Created, Admin!Unexpired, Admin!Restrict
      <3>2. DOMAIN jar' = DOMAIN jar /\ \A b \in DOMAIN jar : jar'[b] \in {jar[b], c}
            BY <2>4, CookieKeeps
      <3> QED BY <2>1, <2>2, <3>1, <3>2 DEF Turned
    <2> QED BY <1>3, <2>3, <2>4 DEF Admin!Login
  <1>4. CASE Admin!Session(c)
    <2>1. PICK t : sessions' = Admin!Looked(c, t) /\ (jar' = jar \/ Admin!Cookie(c, None))
          BY <1>4 DEF Admin!Session
    <2>2. over' = over
          BY <1>4 DEF Admin!Session
    <2>3. DOMAIN jar' = DOMAIN jar /\ \A b \in DOMAIN jar : jar'[b] \in {jar[b], None}
          BY <2>1, CookieKeeps
    <2> QED BY <2>1, <2>2, <2>3, LooksKeep DEF Turned
  <1>5. CASE Admin!Logout(c) \/ Admin!Admit(c)
    <2>1. PICK t : sessions' = Admin!Looked(c, t)
          BY <1>5 DEF Admin!Logout, Admin!Admit
    <2>2. over' = over /\ jar' = jar
          BY <1>5 DEF Admin!Logout, Admin!Admit
    <2> QED BY <2>1, <2>2, LooksKeep DEF Turned
  <1>6. CASE Admin!Leave(c)
    <2>1. /\ DOMAIN sessions' = DOMAIN sessions \ {call[c].token}
          /\ over' = over \cup ({call[c].token} \ {None})
          /\ Admin!Cookie(c, None)
          BY <1>6 DEF Admin!Leave, Admin!Left, Admin!Restrict
    <2>2. DOMAIN jar' = DOMAIN jar /\ \A b \in DOMAIN jar : jar'[b] \in {jar[b], None}
          BY <2>1, CookieKeeps
    <2>3. call[c].token \in Replied \cup {None}
          BY DEF SessionsFit
    <2> QED BY <2>1, <2>2, <2>3 DEF Turned
  <1> QED BY <1>1, <1>2, <1>3, <1>4, <1>5, <1>6 DEF Acts

\* A step keeps what there is to know of the sessions.
LEMMA SessionsStep ==
    ASSUME CallsFit, SessionsFit, [Admin!Next]_Admin!vars
    PROVE  SessionsFit'
  <1> USE ServerAssumption
  <1>1. CASE UNCHANGED Admin!vars \/ Admin!Tick
    <2>1. /\ uses' = uses /\ call' = call
          /\ sessions' = sessions /\ over' = over /\ jar' = jar
          BY <1>1 DEF Admin!vars, Admin!rest, Admin!Tick
    <2> QED BY <2>1 DEF SessionsFit, Replied, Admin!Calls
  <1>2. ASSUME NEW b \in DOMAIN uses.logins, NEW op, NEW arg, NEW sound, Admin!Begin(b, op, arg, sound)
        PROVE  SessionsFit'
    <2>1. PICK c, late, before : /\ c = begun + 1 /\ c \in Admin!Calls /\ late = (jar[b] \in over)
             /\ call' = [call EXCEPT ![c] =
                   [Admin!Unborn EXCEPT !.pc = "begun", !.op = op, !.browser = b, !.token = jar[b],
                                        !.arg = arg, !.sound = sound, !.start = adminClock,
                                        !.at = adminClock, !.late = late, !.before = before]]
             /\ uses' = uses /\ sessions' = sessions /\ over' = over /\ jar' = jar
          BY <1>2 DEF Admin!Begin
    <2>2. PICK q : q = [Admin!Unborn EXCEPT !.pc = "begun", !.op = op, !.browser = b, !.token = jar[b],
                                        !.arg = arg, !.sound = sound, !.start = adminClock,
                                        !.at = adminClock, !.late = late, !.before = before]
          OBVIOUS
    <2>3. q.pc = "begun" /\ q.token = jar[b] /\ q.late = late
          BY <2>2 DEF Admin!Unborn
    <2>4. /\ DOMAIN call' = DOMAIN call /\ call'[c] = q
          /\ \A d \in Admin!Calls \ {c} : call'[d] = call[d]
          BY <2>1, <2>2 DEF CallsFit
    <2>5. Admin!Calls' = Admin!Calls /\ call[c].pc = "unborn"
          BY <2>1 DEF CallsFit, Admin!Calls
    <2>6. Replied' = Replied
          BY <2>3, <2>4, <2>5 DEF Replied
    <2>7. jar[b] \in Replied \cup {None}
          BY DEF SessionsFit
    <2>8. ASSUME NEW d \in Admin!Calls
          PROVE  /\ call'[d].token \in Replied \cup {None}
                 /\ call'[d].late => \/ call'[d].pc = "begun" /\ call'[d].token \in over
                                     \/ call'[d].pc = "leaving"
          BY <2>1, <2>3, <2>4, <2>7 DEF SessionsFit
    <2> QED BY <2>1, <2>5, <2>6, <2>8 DEF SessionsFit
  <1>3. ASSUME NEW c \in 1..begun, Acts(c)
        PROVE  SessionsFit'
    <2>1. c \in Admin!Calls
          BY DEF CallsFit, Admin!Calls
    <2>2. PICK q : Moved(c, q)
          BY <1>3, Movements
    <2>3. Turned(c, q)
          BY <1>3, <2>1, <2>2, Turns
    <2>4. /\ call'[c] = q /\ uses' = uses /\ Admin!Calls' = Admin!Calls
          /\ \A d \in Admin!Calls \ {c} : call'[d] = call[d]
          BY <2>1, <2>2 DEF Moved, CallsFit, Admin!Calls
    <2>5. /\ q.token \in {call[c].token, None}
          /\ c \in Replied => q.pc \in {"answered", "done"}
          /\ q.late => q.pc = "leaving"
          BY <2>2 DEF Moved
    <2>6. Replied \subseteq Replied' /\ (q.pc = "answered" => c \in Replied')
          BY <2>1, <2>4, <2>5 DEF Replied
    <2>7. DOMAIN jar' = DOMAIN uses'.logins
          BY <2>3, <2>4 DEF Turned, SessionsFit
    <2>8. DOMAIN sessions' \subseteq Replied' /\ over' \subseteq Replied'
          BY <2>3, <2>6 DEF Turned, SessionsFit
    <2>9. \A b \in DOMAIN jar' : jar'[b] \in Replied' \cup {None}
          BY <2>3, <2>6 DEF Turned, SessionsFit
    <2>10. ASSUME NEW d \in Admin!Calls
           PROVE  call'[d].token \in Replied' \cup {None}
      <3>1. call[d].token \in Replied \cup {None}
            BY DEF SessionsFit
      <3> QED BY <2>4, <2>5, <2>6, <3>1
    <2>11. ASSUME NEW s \in over'
           PROVE  s \notin DOMAIN sessions'
           BY <2>3, <2>11 DEF Turned, SessionsFit
    <2>12. ASSUME NEW d \in Admin!Calls, call'[d].late
           PROVE  \/ call'[d].pc = "begun" /\ call'[d].token \in over'
                  \/ call'[d].pc = "leaving"
      <3>1. CASE d = c
            BY <2>4, <2>5, <2>12, <3>1
      <3>2. CASE d # c
        <4>1. over \subseteq over'
              BY <1>3 DEF Acts, Admin!Forbid, Admin!Log, Admin!Login, Admin!Session, Admin!Logout,
                 Admin!Leave, Admin!Admit, Admin!Read, Admin!Operate, Admin!Manage, Admin!Search,
                 Admin!Stream, Admin!Push, Admin!Hangup, Admin!Export, Admin!Download, Admin!rest
        <4> QED BY <2>4, <2>12, <3>2, <4>1 DEF SessionsFit
      <3> QED BY <3>1, <3>2
    <2> QED BY <2>4, <2>7, <2>8, <2>9, <2>10, <2>11, <2>12 DEF SessionsFit
  <1> QED BY <1>1, <1>2, <1>3, AdminSteps DEF Begins

Elements(s) == {s[n] : n \in 1..Len(s)}

\* An export is one of those that a link was answered for, and as the link says; one that
\* was taken is not there any more.
LinksFit ==
    /\ links \in Seq(Elements(links))
    /\ \A n \in 1..Len(links) : links[n].expires \in Nat
    /\ \A n \in DOMAIN exports : /\ n \in 1..Len(links)
                                 /\ exports[n].user = links[n].user
                                 /\ exports[n].expires = links[n].expires
    /\ \A d \in taken : d.export \in 1..Len(links) /\ d.export \notin DOMAIN exports
    /\ Admin!LinksHold /\ Admin!LinksEnd

\* A sequence with one more element.
LEMMA Appends ==
    ASSUME NEW s, NEW e, s \in Seq(Elements(s))
    PROVE  /\ Append(s, e) \in Seq(Elements(Append(s, e)))
           /\ Len(s) \in Nat /\ Len(Append(s, e)) = Len(s) + 1
           /\ \A n \in 1..Len(s) : Append(s, e)[n] = s[n]
           /\ Append(s, e)[Len(s) + 1] = e
  <1> DEFINE E == Elements(s) \cup {e}
  <1>1. Len(s) \in Nat /\ s \in [1..Len(s) -> Elements(s)]
        BY LenProperties
  <1>2. s \in Seq(E)
        BY <1>1
  <1>3. /\ Append(s, e) \in Seq(E) /\ Len(Append(s, e)) = Len(s) + 1
        /\ \A n \in 1..Len(s) : Append(s, e)[n] = s[n]
        /\ Append(s, e)[Len(s) + 1] = e
        BY <1>2, AppendProperties
  <1>4. PICK a : a = Append(s, e)
        OBVIOUS
  <1>5. a \in [1..Len(a) -> E] /\ Len(a) \in Nat
        BY <1>3, <1>4, LenProperties
  <1>6. a \in [1..Len(a) -> Elements(a)]
        BY <1>5 DEF Elements
  <1>7. a \in Seq(Elements(a))
        BY <1>5, <1>6
  <1> QED BY <1>1, <1>3, <1>4, <1>7

\* The same numbers.
LEMMA AdminCounts == \A S : Admin!Cardinality(S) = Cardinality(S)
  BY Zenon DEF Admin!Cardinality, Cardinality

\* As many of the newest fit, and one that is left out has so many newer ones.
LEMMA NewestFit ==
    ASSUME NEW n \in Nat, NEW all, all \subseteq 1..n
    PROVE  /\ Admin!Newest(all) \subseteq all /\ IsFiniteSet(Admin!Newest(all))
           /\ Cardinality(Admin!Newest(all)) <= ExportLimit
           /\ n \in all => n \in Admin!Newest(all)
           /\ \A m \in all \ Admin!Newest(all) : n - m >= ExportLimit
  <1> USE ServerAssumption
  <1>0. PICK new : new = Admin!Newest(all)
        OBVIOUS
  <1>1. new = {m \in all : Cardinality({k \in all : k > m}) < ExportLimit}
        BY <1>0, AdminCounts, Zenon DEF Admin!Newest
  <1>2. IsFiniteSet(1..n)
    <2>1. 1 \in Int /\ n \in Int
          OBVIOUS
    <2> QED BY <2>1, FS_Interval
  <1>3. new \subseteq all /\ IsFiniteSet(all) /\ IsFiniteSet(new)
    <2>1. new \in SUBSET all
          BY <1>1
    <2>2. all \in SUBSET (1..n)
          OBVIOUS
    <2>3. IsFiniteSet(all)
          BY <1>2, <2>2, FS_Subset
    <2> QED BY <2>1, <2>3, FS_Subset
  <1>4. Cardinality(new) <= ExportLimit
    <2>1. CASE new = {}
          BY <2>1, FS_EmptySet
    <2>2. CASE new # {}
      <3>1. new \in SUBSET Nat
        <4>1. \A k \in new : k \in 1..n
              BY <1>3
        <4> QED BY <4>1
      <3>2. PICK m \in new : \A k \in new : m <= k
            BY <2>2, <3>1, SmallestThere
      <3>3. PICK more : more = {k \in all : k > m}
            OBVIOUS
      <3>4. Cardinality(more) < ExportLimit
            BY <1>1, <3>2, <3>3
      <3>5. (new \ {m}) \in SUBSET more
            BY <1>3, <3>1, <3>2, <3>3
      <3>6. IsFiniteSet(more) /\ Cardinality(more) \in Nat
        <4>1. more \in SUBSET all
              BY <3>3
        <4> QED BY <1>3, <4>1, FS_Subset, FS_CardinalityType
      <3>7. Cardinality(new \ {m}) <= Cardinality(more)
            BY <3>5, <3>6, FS_Subset
      <3>8. Cardinality(new \ {m}) = Cardinality(new) - 1 /\ Cardinality(new) \in Nat
            BY <1>3, <3>2, FS_RemoveElement, FS_CardinalityType
      <3> QED BY <3>4, <3>6, <3>7, <3>8
    <2> QED BY <2>1, <2>2
  <1>5. n \in all => n \in new
    <2>1. {k \in all : k > n} = {}
      <3>1. \A k \in all : k \in 1..n
            OBVIOUS
      <3>2. \A k \in 1..n : ~(k > n)
            OBVIOUS
      <3> QED BY <3>1, <3>2
    <2> QED BY <1>1, <2>1, FS_EmptySet
  <1>6. ASSUME NEW m \in all \ new
        PROVE  n - m >= ExportLimit
    <2>1. PICK more : more = {k \in all : k > m}
          OBVIOUS
    <2>2. ~(Cardinality(more) < ExportLimit)
          BY <1>1, <2>1
    <2>3. m \in 1..n /\ more \in SUBSET ((m + 1)..n)
      <3>1. \A k \in all : k \in 1..n
            OBVIOUS
      <3>2. \A k \in more : k \in 1..n /\ k > m
            BY <2>1, <3>1
      <3>3. \A k \in 1..n : k > m => k \in (m + 1)..n
            BY <3>1
      <3> QED BY <3>1, <3>2, <3>3
    <2>4. IsFiniteSet((m + 1)..n) /\ Cardinality((m + 1)..n) = n - m
      <3>1. m + 1 \in Int /\ n \in Int
            BY <2>3
      <3>2. /\ IsFiniteSet((m + 1)..n)
            /\ Cardinality((m + 1)..n) = IF m + 1 > n THEN 0 ELSE n - (m + 1) + 1
            BY <3>1, FS_Interval
      <3> QED BY <2>3, <3>1, <3>2
    <2>5. Cardinality(more) <= n - m /\ IsFiniteSet(more)
          BY <2>3, <2>4, FS_Subset
    <2>6. Cardinality(more) \in Nat
          BY <2>5, FS_CardinalityType
    <2> QED BY <2>2, <2>3, <2>5, <2>6
  <1> QED BY <1>0, <1>3, <1>4, <1>5, <1>6

\* What expired at a time no later than now leaves the exports.
LEMMA SweptIs ==
    ASSUME LinksFit, NEW t
    PROVE  /\ DOMAIN Admin!Unexpired(exports, t) = {n \in DOMAIN exports : exports[n].expires > t}
           /\ \A n \in DOMAIN Admin!Unexpired(exports, t) : Admin!Unexpired(exports, t)[n] = exports[n]
           /\ Admin!Swept(t) = DOMAIN Admin!Unexpired(exports, t)
  <1>1. order = DOMAIN exports
        BY DEF LinksFit, Admin!LinksEnd
  <1> QED BY <1>1 DEF Admin!Unexpired, Admin!Restrict, Admin!Swept

\* A new export leaves the links good, but for those it takes the room of.
LEMMA ExportFits ==
    ASSUME CallsFit, LinksFit, NEW c \in Admin!Calls, Admin!Export(c)
    PROVE  LinksFit'
  <1> USE ServerAssumption
  <1>1. PICK t \in Admin!ReadTimes(c) :
           Admin!Stored(c, t) /\ links' = Append(links, [user |-> call[c].user, expires |-> t + ExportTTL])
        BY DEF Admin!Export
  <1>2. taken' = taken /\ adminClock' = adminClock
        BY DEF Admin!Export
  <1>3. t \in Nat /\ t <= adminClock /\ adminClock \in Nat
        BY DEF Admin!ReadTimes, CallsFit
  <1>4. PICK user : user = call[c].user
        OBVIOUS
  <1>5. PICK e : e = [user |-> user, expires |-> t + ExportTTL]
        OBVIOUS
  <1>6. PICK n : n = Len(links) + 1
        OBVIOUS
  <1>7. /\ links' \in Seq(Elements(links')) /\ n \in Nat /\ Len(links') = n /\ Len(links) = n - 1
        /\ \A m \in 1..(n - 1) : links'[m] = links[m]
        /\ links'[n] = e
    <2>1. links' = Append(links, e) /\ links \in Seq(Elements(links))
          BY <1>1, <1>4, <1>5 DEF LinksFit
    <2> QED BY <1>6, <2>1, Appends
  <1>8. PICK there : there = Admin!Unexpired(exports, t)
        OBVIOUS
  <1>9. /\ DOMAIN there = {m \in DOMAIN exports : exports[m].expires > t}
        /\ \A m \in DOMAIN there : there[m] = exports[m]
        /\ Admin!Swept(t) = DOMAIN there
        BY <1>8, SweptIs
  <1>10. DOMAIN there \subseteq 1..(n - 1)
         BY <1>7, <1>9 DEF LinksFit
  <1>11. PICK all, new : all = DOMAIN there \cup {n} /\ new = Admin!Newest(all)
         OBVIOUS
  <1>12. /\ order' = new
         /\ exports' = [m \in all \ (all \ new) |-> IF m = n THEN e ELSE there[m]]
         BY <1>1, <1>4, <1>5, <1>6, <1>8, <1>9, <1>11 DEF Admin!Stored
  <1>13. all \subseteq 1..n /\ n \in all /\ new = Admin!Newest(all)
         BY <1>7, <1>10, <1>11
  <1>14. /\ new \subseteq all /\ IsFiniteSet(new) /\ Cardinality(new) <= ExportLimit /\ n \in new
         /\ \A m \in all \ new : n - m >= ExportLimit
    <2>1. n \in Nat
          BY <1>7
    <2>2. /\ Admin!Newest(all) \subseteq all /\ IsFiniteSet(Admin!Newest(all))
          /\ Cardinality(Admin!Newest(all)) <= ExportLimit
          /\ n \in all => n \in Admin!Newest(all)
          /\ \A m \in all \ Admin!Newest(all) : n - m >= ExportLimit
          BY <1>13, <2>1, NewestFit
    <2> QED BY <1>13, <2>2
  <1>15. DOMAIN exports' = new /\ \A m \in new : exports'[m] = IF m = n THEN e ELSE there[m]
         BY <1>12, <1>14
  <1>16. ASSUME NEW m \in 1..n
         PROVE  links'[m].expires \in Nat
    <2>1. CASE m = n
          BY <1>3, <1>5, <1>7, <2>1
    <2>2. CASE m \in 1..(n - 1)
          BY <1>7, <2>2 DEF LinksFit
    <2> QED BY <1>7, <2>1, <2>2
  <1>17. ASSUME NEW m \in new
         PROVE  m \in 1..n /\ exports'[m].user = links'[m].user /\ exports'[m].expires = links'[m].expires
    <2>1. m \in 1..n
          BY <1>13, <1>14
    <2>2. CASE m = n
          BY <1>7, <1>15, <2>1, <2>2
    <2>3. CASE m # n
      <3>1. m \in DOMAIN there /\ m \in DOMAIN exports /\ m \in 1..(n - 1)
            BY <1>9, <1>10, <1>11, <1>14, <2>3
      <3>2. exports'[m] = exports[m] /\ links'[m] = links[m]
            BY <1>7, <1>9, <1>15, <2>3, <3>1
      <3> QED BY <2>1, <3>1, <3>2 DEF LinksFit
    <2> QED BY <2>2, <2>3
  <1>18. ASSUME NEW d \in taken'
         PROVE  d.export \in 1..n /\ d.export \notin new /\ links'[d.export].user = d.user
    <2>1. /\ d.export \in 1..(n - 1) /\ d.export \notin DOMAIN exports
          /\ links[d.export].user = d.user
          BY <1>2, <1>7 DEF LinksFit, Admin!LinksEnd
    <2>2. d.export # n /\ d.export \notin DOMAIN there
          BY <1>7, <1>9, <2>1
    <2>3. d.export \notin all
          BY <1>11, <2>2
    <2>4. links'[d.export] = links[d.export] /\ d.export \in 1..n
          BY <1>7, <2>1
    <2> QED BY <1>14, <2>1, <2>3, <2>4
  <1>19. ASSUME NEW m \in 1..n
         PROVE  \/ m \in new /\ exports'[m].user = links'[m].user
                \/ links'[m].expires <= adminClock
                \/ \E d \in taken' : d.export = m
                \/ n - m >= ExportLimit
    <2>1. CASE m = n
          BY <1>14, <1>17, <2>1
    <2>2. CASE m \in 1..(n - 1)
      <3>1. links'[m] = links[m] /\ m \in DOMAIN links
            BY <1>7, <2>2 DEF LinksFit
      <3>2. \/ m \in DOMAIN exports
            \/ links[m].expires <= adminClock
            \/ \E d \in taken : d.export = m
            \/ (n - 1) - m >= ExportLimit
            BY <1>7, <3>1 DEF LinksFit, Admin!LinksHold
      <3>3. CASE m \in DOMAIN exports /\ m \notin DOMAIN there
        <4>1. ~(exports[m].expires > t)
              BY <1>9, <3>3
        <4>2. exports[m].expires = links[m].expires /\ links[m].expires \in Nat
              BY <1>7, <2>2, <3>3 DEF LinksFit
        <4> QED BY <1>3, <3>1, <4>1, <4>2
      <3>4. CASE m \in DOMAIN there /\ m \in new
            BY <1>17, <3>4
      <3>5. CASE m \in DOMAIN there /\ m \notin new
            BY <1>11, <1>14, <3>5
      <3>6. CASE (n - 1) - m >= ExportLimit
            BY <1>7, <2>2, <3>6
      <3> QED BY <1>2, <3>1, <3>2, <3>3, <3>4, <3>5, <3>6
    <2> QED BY <1>7, <2>1, <2>2
  <1>20. DOMAIN links' = 1..n
         BY <1>7
  <1>21. Admin!LinksHold'
         BY <1>2, <1>7, <1>15, <1>19, <1>20 DEF Admin!LinksHold
  <1>22. Admin!LinksEnd'
    <2>1. \A d, e2 \in taken' : d.export = e2.export => d = e2
          BY <1>2 DEF LinksFit, Admin!LinksEnd
    <2>2. order' = DOMAIN exports' /\ Cardinality(order') <= ExportLimit
          BY <1>12, <1>14, <1>15
    <2> QED BY <1>18, <2>1, <2>2, AdminCounts, Zenon DEF Admin!LinksEnd
  <1> QED BY <1>7, <1>15, <1>16, <1>17, <1>18, <1>21, <1>22 DEF LinksFit

\* A look for an export takes what expired, and what it finds: the links stay as good as
\* they say.
LEMMA DownloadFits ==
    ASSUME CallsFit, LinksFit, NEW c \in Admin!Calls, Admin!Download(c)
    PROVE  LinksFit'
  <1>1. PICK t \in Admin!ReadTimes(c) :
           /\ Admin!Consumed(c, t)
           /\ taken' = IF Admin!Good(c, t)
                         THEN taken \cup {[export |-> call[c].arg, user |-> call[c].user, by |-> c]}
                         ELSE taken
        BY DEF Admin!Download
  <1>2. links' = links /\ adminClock' = adminClock
        BY DEF Admin!Download
  <1>3. t \in Nat /\ t <= adminClock /\ adminClock \in Nat
        BY DEF Admin!ReadTimes, CallsFit
  <1>4. PICK x, user : x = call[c].arg /\ user = call[c].user
        OBVIOUS
  <1>5. PICK there, gone : /\ there = Admin!Unexpired(exports, t)
                           /\ gone = IF Admin!Good(c, t) THEN {x} ELSE {}
        OBVIOUS
  <1>6. /\ DOMAIN there = {m \in DOMAIN exports : exports[m].expires > t}
        /\ \A m \in DOMAIN there : there[m] = exports[m]
        /\ Admin!Swept(t) = DOMAIN there
        BY <1>5, SweptIs
  <1>7. /\ DOMAIN exports' = DOMAIN there \ gone
        /\ \A m \in DOMAIN exports' : exports'[m] = exports[m]
        /\ order' = DOMAIN exports'
        BY <1>1, <1>4, <1>5, <1>6 DEF Admin!Consumed, Admin!Restrict
  <1>8. DOMAIN exports' \subseteq DOMAIN exports
        BY <1>6, <1>7
  <1>9. x \in gone => x \in DOMAIN exports /\ exports[x].user = user
        BY <1>4, <1>5, <1>6 DEF Admin!Good
  <1>10. PICK e : e = [export |-> x, user |-> user, by |-> c]
         OBVIOUS
  <1>11. /\ e.export = x /\ e.user = user
         /\ taken' = taken \cup (IF x \in gone THEN {e} ELSE {})
         /\ gone \subseteq {x}
         BY <1>1, <1>4, <1>5, <1>10
  <1>12. ASSUME NEW d \in taken'
         PROVE  /\ d.export \in 1..Len(links) /\ d.export \notin DOMAIN exports'
                /\ links[d.export].user = d.user
    <2>1. CASE d \in taken
          BY <1>8, <2>1 DEF LinksFit, Admin!LinksEnd
    <2>2. CASE d = e /\ x \in gone
          BY <1>7, <1>9, <1>11, <2>2 DEF LinksFit
    <2> QED BY <1>11, <2>1, <2>2
  <1>13. ASSUME NEW d1 \in taken', NEW d2 \in taken', d1.export = d2.export
         PROVE  d1 = d2
    <2>1. CASE d1 \in taken /\ d2 \in taken
          BY <1>13, <2>1 DEF LinksFit, Admin!LinksEnd
    <2>2. CASE d1 = e /\ d2 = e
          BY <2>2
    <2>3. ASSUME NEW d \in taken, x \in gone
          PROVE  d.export # x
          BY <1>9, <2>3 DEF LinksFit
    <2> QED BY <1>11, <1>13, <2>1, <2>2, <2>3
  <1>14. ASSUME NEW m \in 1..Len(links)
         PROVE  \/ m \in DOMAIN exports' /\ exports'[m].user = links[m].user
                \/ links[m].expires <= adminClock
                \/ \E d \in taken' : d.export = m
                \/ Len(links) - m >= ExportLimit
    <2>1. m \in DOMAIN links
          BY DEF LinksFit
    <2>2. \/ m \in DOMAIN exports
          \/ links[m].expires <= adminClock
          \/ \E d \in taken : d.export = m
          \/ Len(links) - m >= ExportLimit
          BY <2>1 DEF LinksFit, Admin!LinksHold
    <2>3. CASE m \in DOMAIN exports /\ m \notin DOMAIN there
      <3>1. ~(exports[m].expires > t)
            BY <1>6, <2>3
      <3>2. exports[m].expires = links[m].expires /\ links[m].expires \in Nat
            BY <2>3 DEF LinksFit
      <3> QED BY <1>3, <3>1, <3>2
    <2>4. CASE m \in DOMAIN there /\ m \notin gone
          BY <1>6, <1>7, <2>4 DEF LinksFit
    <2>5. CASE m \in gone
          BY <1>11, <2>5
    <2>6. taken \subseteq taken'
          BY <1>11
    <2> QED BY <2>2, <2>3, <2>4, <2>5, <2>6
  <1>15. DOMAIN links = 1..Len(links)
         BY DEF LinksFit
  <1>16. Admin!LinksHold'
         BY <1>2, <1>14, <1>15 DEF Admin!LinksHold
  <1>17. Cardinality(order') <= ExportLimit
    <2>1. Cardinality(order) <= ExportLimit /\ order = DOMAIN exports
          BY AdminCounts, Zenon DEF LinksFit, Admin!LinksEnd
    <2>2. order \in SUBSET (1..Len(links)) /\ Len(links) \in Int /\ 1 \in Int
      <3>1. order \in SUBSET (1..Len(links))
            BY <2>1 DEF LinksFit
      <3>2. Len(links) \in Nat
            BY LenProperties DEF LinksFit
      <3> QED BY <3>1, <3>2
    <2>3. IsFiniteSet(order)
          BY <2>2, FS_Interval, FS_Subset
    <2>4. order' \in SUBSET order
          BY <1>7, <1>8, <2>1
    <2>5. /\ IsFiniteSet(order') /\ Cardinality(order') <= Cardinality(order)
          BY <2>3, <2>4, FS_Subset
    <2>6. Cardinality(order') \in Nat /\ Cardinality(order) \in Nat
          BY <2>3, <2>5, FS_CardinalityType
    <2> QED BY <2>1, <2>5, <2>6, ServerAssumption
  <1>18. Admin!LinksEnd'
    <2>1. \A d1, d2 \in taken' : d1.export = d2.export => d1 = d2
          BY <1>13
    <2>2. \A d \in taken' : links'[d.export].user = d.user
          BY <1>2, <1>12
    <2> QED BY <1>7, <1>17, <2>1, <2>2, AdminCounts, Zenon DEF Admin!LinksEnd
  <1> QED BY <1>2, <1>7, <1>8, <1>12, <1>16, <1>18 DEF LinksFit

\* A step keeps what there is to know of the links.
LEMMA LinksStep ==
    ASSUME CallsFit, LinksFit, [Admin!Next]_Admin!vars
    PROVE  LinksFit'
  <1>1. ASSUME links' = links, exports' = exports, order' = order, taken' = taken,
               adminClock' = adminClock \/ adminClock' = adminClock + 1
        PROVE  LinksFit'
    <2>1. adminClock \in Nat
          BY DEF CallsFit
    <2>2. Admin!LinksEnd'
          BY <1>1, AdminCounts DEF LinksFit, Admin!LinksEnd
    <2>3. Admin!LinksHold'
      <3>1. DOMAIN links = 1..Len(links)
            BY DEF LinksFit
      <3>2. \A n \in DOMAIN links : links[n].expires <= adminClock => links[n].expires <= adminClock'
            BY <1>1, <2>1, <3>1 DEF LinksFit
      <3> QED BY <1>1, <3>2 DEF LinksFit, Admin!LinksHold
    <2> QED BY <1>1, <2>2, <2>3 DEF LinksFit
  <1>2. CASE UNCHANGED Admin!vars \/ Admin!Tick
        BY <1>1, <1>2 DEF Admin!vars, Admin!rest, Admin!Tick
  <1>3. CASE Begins
        BY <1>1, <1>3 DEF Begins, Admin!Begin
  <1>4. ASSUME NEW c \in 1..begun, Acts(c)
        PROVE  LinksFit'
    <2>1. c \in Admin!Calls
          BY DEF CallsFit, Admin!Calls
    <2>2. CASE Admin!Export(c)
          BY <2>1, <2>2, ExportFits
    <2>3. CASE Admin!Download(c)
          BY <2>1, <2>3, DownloadFits
    <2>4. CASE ~Admin!Export(c) /\ ~Admin!Download(c)
      <3>1. /\ links' = links /\ exports' = exports /\ order' = order /\ taken' = taken
            /\ adminClock' = adminClock
            BY <1>4, <2>4 DEF Acts, Admin!Forbid, Admin!Log, Admin!Login, Admin!Session, Admin!Logout,
               Admin!Leave, Admin!Admit, Admin!Read, Admin!Operate, Admin!Manage, Admin!Search,
               Admin!Stream, Admin!Push, Admin!Hangup, Admin!rest
      <3> QED BY <1>1, <3>1
    <2> QED BY <2>2, <2>3, <2>4
  <1> QED BY <1>2, <1>3, <1>4, AdminSteps

LogRecord == [call : Nat, start : Nat]

\* The log is the end of all records there were, as much as fits; those there were when a
\* request began are no younger than it.
LogFits ==
    /\ logged \in Seq(LogRecord) /\ log \in Seq(LogRecord)
    /\ Len(log) <= LogLimit /\ Len(log) <= Len(logged)
    /\ Len(log) = Len(logged) \/ Len(log) = LogLimit
    /\ \A i \in 1..Len(log) : log[i] = logged[Len(logged) - Len(log) + i]
    /\ \A n \in 1..Len(logged) : logged[n].start <= adminClock
    /\ \A c \in Admin!Calls :
          /\ call[c].before \in 0..Len(logged)
          /\ \A n \in 1..call[c].before : logged[n].start <= call[c].start
          /\ call[c].op = "search" => call[c].arg \in Nat
    /\ Admin!SearchesHold

\* What a search that has no more shows.
Shows(c, q) ==
    \A n \in 1..call[c].before :
        \/ logged[n].start < call[c].arg
        \/ logged[n] \in q.page
        \/ Len(logged) - n >= LogLimit

\* Records say when.
LEMMA RecordsTimed ==
    ASSUME LogFits
    PROVE  \A n \in 1..Len(logged) : logged[n].start \in Nat
  <1>1. ASSUME NEW n \in 1..Len(logged)
        PROVE  logged[n].start \in Nat
    <2>1. logged[n] \in LogRecord
          BY ElementOfSeq DEF LogFits
    <2> QED BY <2>1 DEF LogRecord
  <1> QED BY <1>1

\* A page that is the last has everything of its window.
LEMMA LastPage ==
    ASSUME NEW places, IsFiniteSet(places), places \subseteq Nat, ~Admin!MoreAfter(places, 0),
           NEW i \in places
    PROVE  log[i] \in Admin!Page(places, 0)
  <1> USE ServerAssumption
  <1>1. PICK before : before = {j \in places : j < i}
        OBVIOUS
  <1>2. before \in SUBSET (places \ {i})
        BY <1>1
  <1>3. /\ IsFiniteSet(places \ {i}) /\ Cardinality(places \ {i}) = Cardinality(places) - 1
        /\ Cardinality(places) \in Nat
        BY FS_RemoveElement, FS_CardinalityType
  <1>4. IsFiniteSet(before) /\ Cardinality(before) <= Cardinality(places) - 1 /\ Cardinality(before) \in Nat
    <2>1. IsFiniteSet(before) /\ Cardinality(before) <= Cardinality(places \ {i})
          BY <1>2, <1>3, FS_Subset
    <2>2. Cardinality(before) \in Nat
          BY <2>1, FS_CardinalityType
    <2> QED BY <1>3, <2>1, <2>2
  <1>5. ~(0 + PageLimit < Cardinality(places))
        BY AdminCounts, Zenon DEF Admin!MoreAfter
  <1>6. Cardinality(before) \in 0..(0 + PageLimit - 1)
        BY <1>3, <1>4, <1>5
  <1>7. Admin!Cardinality({j \in places : j < i}) \in 0..(0 + PageLimit - 1)
        BY <1>1, <1>6, AdminCounts
  <1> QED BY <1>7 DEF Admin!Page

\* A search shows every record of its window that was there when it began, and is still.
LEMMA SearchShows ==
    ASSUME CallsFit, LogFits, NEW c \in Admin!Calls, Admin!Search(c), NEW q, Moved(c, q), ~q.more
    PROVE  Shows(c, q)
  <1> USE ServerAssumption
  <1>1. call[c].op = "search"
        BY DEF Admin!Search, Admin!Runs
  <1>2. PICK from, to : from = call[c].arg /\ to = call[c].start
        OBVIOUS
  <1>3. from \in Nat /\ to \in Nat /\ DOMAIN call[c] = CallFields /\ call'[c] = q
        BY <1>1, <1>2 DEF CallsFit, LogFits, Moved
  <1>4. PICK places : places = Admin!Window(from, to)
        OBVIOUS
  <1>5. call' = [call EXCEPT ![c].pc = "answered", ![c].searched = TRUE,
                             ![c].page = Admin!Page(places, 0), ![c].more = Admin!MoreAfter(places, 0)]
        BY <1>2, <1>4 DEF Admin!Search
  <1>6. q.page = Admin!Page(places, 0) /\ q.more = Admin!MoreAfter(places, 0)
    <2>1. PICK page, more : page = Admin!Page(places, 0) /\ more = Admin!MoreAfter(places, 0)
          OBVIOUS
    <2>2. call' = [call EXCEPT ![c].pc = "answered", ![c].searched = TRUE,
                               ![c].page = page, ![c].more = more]
          BY <1>5, <2>1
    <2>3. q.page = page /\ q.more = more
          BY <1>3, <2>2 DEF CallsFit, CallFields
    <2> QED BY <2>1, <2>3
  <1>7. /\ places = {i \in 1..Len(log) : log[i].start >= from /\ log[i].start <= to}
        /\ Len(log) \in Nat /\ Len(logged) \in Nat
    <2>1. Len(log) \in Nat /\ Len(logged) \in Nat /\ DOMAIN log = 1..Len(log)
          BY LenProperties DEF LogFits
    <2> QED BY <1>4, <2>1 DEF Admin!Window
  <1>8. IsFiniteSet(places) /\ places \subseteq Nat
    <2>1. places \in SUBSET (1..Len(log)) /\ 1 \in Int /\ Len(log) \in Int
          BY <1>7
    <2>2. IsFiniteSet(1..Len(log))
          BY <2>1, FS_Interval
    <2>3. IsFiniteSet(places)
          BY <2>1, <2>2, FS_Subset
    <2> QED BY <2>1, <2>3
  <1>9. ASSUME NEW n \in 1..call[c].before, ~(logged[n].start < from), ~(Len(logged) - n >= LogLimit)
        PROVE  logged[n] \in q.page
    <2>1. n \in 1..Len(logged) /\ logged[n].start <= to
          BY <1>2, <1>7 DEF LogFits
    <2>2. logged[n].start \in Nat
          BY <2>1, RecordsTimed
    <2>3. PICK i : i = n - (Len(logged) - Len(log))
          OBVIOUS
    <2>4. i \in 1..Len(log) /\ n = Len(logged) - Len(log) + i
          BY <1>7, <1>9, <2>1, <2>3 DEF LogFits
    <2>5. log[i] = logged[n]
          BY <2>4 DEF LogFits
    <2>6. i \in places
      <3>1. log[i].start >= from /\ log[i].start <= to
            BY <1>3, <1>9, <2>1, <2>2, <2>5
      <3> QED BY <1>7, <2>4, <3>1
    <2>7. ~Admin!MoreAfter(places, 0)
          BY <1>6
    <2>8. log[i] \in Admin!Page(places, 0)
          BY <1>8, <2>6, <2>7, LastPage
    <2> QED BY <1>6, <2>5, <2>8
  <1> QED BY <1>2, <1>9 DEF Shows

\* Nothing changes of the log, and the clock does not go back.
LEMMA LogStays ==
    ASSUME CallsFit, LogFits, logged' = logged, log' = log, uses' = uses,
           adminClock' = adminClock \/ adminClock' = adminClock + 1,
           NEW c \in Admin!Calls, NEW q, call' = [call EXCEPT ![c] = q],
           q.before \in 0..Len(logged), \A n \in 1..q.before : logged[n].start <= q.start,
           q.op = "search" => q.arg \in Nat,
           q.op = "search" /\ q.searched /\ ~q.more =>
              q.before = call[c].before /\ q.arg = call[c].arg /\ Shows(c, q)
    PROVE  LogFits'
  <1>1. /\ call'[c] = q /\ Admin!Calls' = Admin!Calls
        /\ \A d \in Admin!Calls \ {c} : call'[d] = call[d]
        BY DEF CallsFit, Admin!Calls
  <1>2. \A n \in 1..Len(logged) : logged[n].start <= adminClock'
    <2>1. ASSUME NEW n \in 1..Len(logged)
          PROVE  logged[n].start <= adminClock'
      <3>1. logged[n].start \in Nat /\ logged[n].start <= adminClock /\ adminClock \in Nat
            BY RecordsTimed DEF LogFits, CallsFit
      <3> QED BY <3>1
    <2> QED BY <2>1
  <1>3. ASSUME NEW d \in Admin!Calls
        PROVE  /\ call'[d].before \in 0..Len(logged)
               /\ \A n \in 1..call'[d].before : logged[n].start <= call'[d].start
               /\ call'[d].op = "search" => call'[d].arg \in Nat
    <2>1. CASE d = c
          BY <1>1, <2>1
    <2>2. CASE d # c
          BY <1>1, <2>2 DEF LogFits
    <2> QED BY <2>1, <2>2
  <1>4. ASSUME NEW d \in Admin!Calls, call'[d].op = "search", call'[d].searched, ~call'[d].more,
               NEW n \in 1..call'[d].before
        PROVE  \/ logged[n].start < call'[d].arg
               \/ logged[n] \in call'[d].page
               \/ Len(logged) - n >= LogLimit
    <2>1. CASE d = c
          BY <1>1, <1>4, <2>1 DEF Shows
    <2>2. CASE d # c
          BY <1>1, <1>4, <2>2 DEF LogFits, Admin!SearchesHold
    <2> QED BY <2>1, <2>2
  <1>5. Admin!SearchesHold'
        BY <1>1, <1>4 DEF Admin!SearchesHold
  <1> QED BY <1>1, <1>2, <1>3, <1>5 DEF LogFits

\* A record takes the place of the oldest when the log is full.
LEMMA AppendedFits ==
    ASSUME NEW items \in Seq(LogRecord), NEW all \in Seq(LogRecord), NEW record \in LogRecord,
           Len(items) <= LogLimit, Len(items) <= Len(all),
           Len(items) = Len(all) \/ Len(items) = LogLimit,
           \A i \in 1..Len(items) : items[i] = all[Len(all) - Len(items) + i]
    PROVE  \A after, next : after = Admin!Appended(items, record) /\ next = Append(all, record) =>
              /\ after \in Seq(LogRecord) /\ next \in Seq(LogRecord)
              /\ Len(after) <= LogLimit /\ Len(after) <= Len(next)
              /\ Len(after) = Len(next) \/ Len(after) = LogLimit
              /\ \A i \in 1..Len(after) : after[i] = next[Len(next) - Len(after) + i]
              /\ Len(next) = Len(all) + 1
              /\ \A n \in 1..Len(all) : next[n] = all[n]
              /\ next[Len(all) + 1] = record
  <1> USE ServerAssumption
  <1> TAKE after, next
  <1> HAVE after = Admin!Appended(items, record) /\ next = Append(all, record)
  <1>1. PICK base : base = IF Len(items) >= LogLimit THEN Tail(items) ELSE items
        OBVIOUS
  <1>2. after = Append(base, record)
        BY <1>1 DEF Admin!Appended
  <1>3. Len(items) \in Nat /\ Len(all) \in Nat
        BY LenProperties
  <1>4. /\ next \in Seq(LogRecord) /\ Len(next) = Len(all) + 1
        /\ \A n \in 1..Len(all) : next[n] = all[n]
        /\ next[Len(all) + 1] = record
        BY AppendProperties
  <1>5. /\ base \in Seq(LogRecord) /\ Len(base) \in Nat /\ Len(base) < LogLimit
        /\ Len(base) <= Len(all)
        /\ Len(base) = Len(all) \/ Len(base) = LogLimit - 1
        /\ \A i \in 1..Len(base) : base[i] = all[Len(all) - Len(base) + i]
    <2>1. CASE Len(items) >= LogLimit
      <3>1. items # <<>> /\ base = Tail(items) /\ Len(items) = LogLimit
        <4>1. Len(items) # 0
              BY <1>3, <2>1
        <4> QED BY <1>1, <1>3, <2>1, <4>1, EmptySeq
      <3>2. /\ base \in Seq(LogRecord) /\ Len(base) = LogLimit - 1
            /\ \A i \in 1..Len(base) : base[i] = items[i + 1]
            BY <3>1, HeadTailProperties
      <3>3. ASSUME NEW i \in 1..Len(base)
            PROVE  base[i] = all[Len(all) - Len(base) + i]
        <4>1. i + 1 \in 1..Len(items) /\ Len(all) - Len(items) + (i + 1) = Len(all) - Len(base) + i
          <5>1. LogLimit \in Nat /\ Len(items) = LogLimit /\ Len(base) = LogLimit - 1
                BY <3>1, <3>2
          <5>2. i \in Nat /\ i >= 1 /\ i <= LogLimit - 1
                BY <5>1
          <5> QED BY <1>3, <5>1, <5>2
        <4>2. items[i + 1] = all[Len(all) - Len(items) + (i + 1)]
              BY <4>1
        <4> QED BY <3>2, <4>1, <4>2
      <3> QED BY <1>3, <3>1, <3>2, <3>3
    <2>2. CASE ~(Len(items) >= LogLimit)
          BY <1>1, <1>3, <2>2
    <2> QED BY <2>1, <2>2
  <1>6. /\ after \in Seq(LogRecord) /\ Len(after) = Len(base) + 1
        /\ \A n \in 1..Len(base) : after[n] = base[n]
        /\ after[Len(base) + 1] = record
        BY <1>2, <1>5, AppendProperties
  <1>7. ASSUME NEW i \in 1..Len(after)
        PROVE  after[i] = next[Len(next) - Len(after) + i]
    <2>1. Len(next) - Len(after) = Len(all) - Len(base)
          BY <1>3, <1>4, <1>5, <1>6
    <2>2. CASE i = Len(base) + 1
          BY <1>3, <1>4, <1>5, <1>6, <2>1, <2>2
    <2>3. CASE i \in 1..Len(base)
      <3>1. Len(all) - Len(base) + i \in 1..Len(all)
            BY <1>3, <1>5, <2>3
      <3> QED BY <1>4, <1>5, <1>6, <2>1, <2>3, <3>1
    <2>4. i = Len(base) + 1 \/ i \in 1..Len(base)
          BY <1>5, <1>6
    <2> QED BY <2>2, <2>3, <2>4
  <1>8. /\ Len(after) <= LogLimit /\ Len(after) <= Len(next)
        /\ Len(after) = Len(next) \/ Len(after) = LogLimit
        BY <1>3, <1>4, <1>5, <1>6
  <1> QED BY <1>4, <1>6, <1>7, <1>8

\* A step keeps what there is to know of the log.
LEMMA LogStep ==
    ASSUME CallsFit, SessionsFit, LogFits, [Admin!Next]_Admin!vars
    PROVE  LogFits'
  <1>1. CASE UNCHANGED Admin!vars \/ Admin!Tick
    <2>1. /\ logged' = logged /\ log' = log /\ uses' = uses /\ call' = call
          /\ adminClock' = adminClock \/ adminClock' = adminClock + 1
          BY <1>1 DEF Admin!vars, Admin!rest, Admin!Tick
    <2>2. \A n \in 1..Len(logged) : logged[n].start <= adminClock'
      <3>1. ASSUME NEW n \in 1..Len(logged)
            PROVE  logged[n].start <= adminClock'
        <4>1. logged[n].start \in Nat /\ logged[n].start <= adminClock /\ adminClock \in Nat
              BY RecordsTimed DEF LogFits, CallsFit
        <4> QED BY <2>1, <4>1
      <3> QED BY <3>1
    <2>3. Admin!SearchesHold' /\ Admin!Calls' = Admin!Calls
          BY <2>1 DEF LogFits, Admin!SearchesHold, Admin!Calls
    <2> QED BY <2>1, <2>2, <2>3 DEF LogFits
  <1>2. ASSUME NEW b \in DOMAIN uses.logins, NEW op, NEW arg, NEW sound, Admin!Begin(b, op, arg, sound),
               op = "search" => arg \in Nat
        PROVE  LogFits'
    <2>1. PICK c, late : /\ c \in Admin!Calls
             /\ call' = [call EXCEPT ![c] =
                   [Admin!Unborn EXCEPT !.pc = "begun", !.op = op, !.browser = b, !.token = jar[b],
                                        !.arg = arg, !.sound = sound, !.start = adminClock,
                                        !.at = adminClock, !.late = late, !.before = Len(logged)]]
             /\ uses' = uses /\ logged' = logged /\ log' = log /\ adminClock' = adminClock
          BY <1>2 DEF Admin!Begin
    <2>2. PICK q : q = [Admin!Unborn EXCEPT !.pc = "begun", !.op = op, !.browser = b, !.token = jar[b],
                                        !.arg = arg, !.sound = sound, !.start = adminClock,
                                        !.at = adminClock, !.late = late, !.before = Len(logged)]
          OBVIOUS
    <2>3. /\ q.op = op /\ q.arg = arg /\ q.start = adminClock /\ q.before = Len(logged)
          /\ q.searched = FALSE
          BY <2>2 DEF Admin!Unborn
    <2>4. Len(logged) \in Nat
          BY LenProperties DEF LogFits
    <2>5. call' = [call EXCEPT ![c] = q]
          BY <2>1, <2>2
    <2>6. q.before \in 0..Len(logged) /\ \A n \in 1..q.before : logged[n].start <= q.start
          BY <2>3, <2>4 DEF LogFits
    <2> QED BY <1>2, <2>1, <2>3, <2>5, <2>6, LogStays
  <1>3. ASSUME NEW c \in 1..begun, Acts(c)
        PROVE  LogFits'
    <2>1. c \in Admin!Calls
          BY DEF CallsFit, Admin!Calls
    <2>2. PICK q : Moved(c, q)
          BY <1>3, Movements
    <2>3. /\ uses' = uses /\ adminClock' = adminClock /\ call' = [call EXCEPT ![c] = q]
          /\ q.before = 0 \/ (q.before = call[c].before /\ q.start = call[c].start)
          /\ q.op = "search" => call[c].op = "search" /\ q.arg = call[c].arg
          /\ q.searched => Admin!Search(c)
          BY <2>2 DEF Moved
    <2>4. Len(logged) \in Nat
          BY LenProperties DEF LogFits
    <2>5. /\ q.before \in 0..Len(logged) /\ \A n \in 1..q.before : logged[n].start <= q.start
          /\ q.op = "search" => q.arg \in Nat
          BY <2>1, <2>3, <2>4 DEF LogFits
    <2>6. CASE ~Admin!Log(c)
      <3>1. logged' = logged /\ log' = log
            BY <1>3, <2>6 DEF Acts, Admin!Forbid, Admin!Login, Admin!Session, Admin!Logout,
               Admin!Leave, Admin!Admit, Admin!Read, Admin!Operate, Admin!Manage, Admin!Search,
               Admin!Stream, Admin!Push, Admin!Hangup, Admin!Export, Admin!Download, Admin!rest
      <3>2. ASSUME q.op = "search", q.searched, ~q.more
            PROVE  q.before = call[c].before /\ q.arg = call[c].arg /\ Shows(c, q)
        <4>1. Shows(c, q)
              BY <2>1, <2>2, <2>3, <3>2, SearchShows
        <4>2. q.before = call[c].before
          <5>1. DOMAIN call[c] = CallFields /\ call'[c] = q
                BY <2>1, <2>3 DEF CallsFit
          <5>2. PICK page, more : call' = [call EXCEPT ![c].pc = "answered", ![c].searched = TRUE,
                                                       ![c].page = page, ![c].more = more]
            <6>1. Admin!Search(c)
                  BY <2>3, <3>2
            <6> QED BY <6>1 DEF Admin!Search
          <5>3. PICK r : r = [call[c] EXCEPT !.pc = "answered", !.searched = TRUE,
                                              !.page = page, !.more = more]
                OBVIOUS
          <5>4. r.before = call[c].before
                BY <5>1, <5>3 DEF CallFields
          <5>5. call'[c] = r
                BY <2>1, <5>1, <5>2, <5>3 DEF CallFields, CallsFit
          <5> QED BY <5>1, <5>4, <5>5
        <4> QED BY <2>3, <3>2, <4>1, <4>2
      <3> QED BY <2>1, <2>3, <2>5, <3>1, <3>2, LogStays
    <2>7. CASE Admin!Log(c)
      <3>1. PICK record : record = Admin!Record(c)
            OBVIOUS
      <3>2. record \in LogRecord /\ record.start <= adminClock
        <4>1. c \in Nat /\ call[c].start \in Nat /\ call[c].start <= adminClock
              BY <2>1 DEF CallsFit, Admin!Calls
        <4> QED BY <3>1, <4>1 DEF Admin!Record, LogRecord
      <3>3. log' = Admin!Appended(log, record) /\ logged' = Append(logged, record)
            BY <2>7, <3>1 DEF Admin!Log
      <3>4. /\ log' \in Seq(LogRecord) /\ logged' \in Seq(LogRecord)
            /\ Len(log') <= LogLimit /\ Len(log') <= Len(logged')
            /\ Len(log') = Len(logged') \/ Len(log') = LogLimit
            /\ \A i \in 1..Len(log') : log'[i] = logged'[Len(logged') - Len(log') + i]
            /\ Len(logged') = Len(logged) + 1
            /\ \A n \in 1..Len(logged) : logged'[n] = logged[n]
            /\ logged'[Len(logged) + 1] = record
        <4>1. PICK old, all, new, next : /\ old = log /\ all = logged /\ new = log' /\ next = logged'
              OBVIOUS
        <4>2. /\ old \in Seq(LogRecord) /\ all \in Seq(LogRecord)
              /\ Len(old) <= LogLimit /\ Len(old) <= Len(all)
              /\ Len(old) = Len(all) \/ Len(old) = LogLimit
              /\ \A i \in 1..Len(old) : old[i] = all[Len(all) - Len(old) + i]
              /\ new = Admin!Appended(old, record) /\ next = Append(all, record)
              BY <3>3, <4>1 DEF LogFits
        <4> DEFINE Good(after, result) ==
                 /\ after \in Seq(LogRecord) /\ result \in Seq(LogRecord)
                 /\ Len(after) <= LogLimit /\ Len(after) <= Len(result)
                 /\ Len(after) = Len(result) \/ Len(after) = LogLimit
                 /\ \A i \in 1..Len(after) : after[i] = result[Len(result) - Len(after) + i]
                 /\ Len(result) = Len(all) + 1
                 /\ \A n \in 1..Len(all) : result[n] = all[n]
                 /\ result[Len(all) + 1] = record
        <4>3. \A after, result :
                 after = Admin!Appended(old, record) /\ result = Append(all, record) => Good(after, result)
              BY <3>2, <4>2, AppendedFits
        <4> HIDE DEF Good
        <4>4. Good(new, next)
              BY <4>2, <4>3
        <4> QED BY <4>1, <4>4 DEF Good
      <3>5. ~q.searched
            BY <2>3, <2>7 DEF Admin!Log, Admin!Search, Admin!Runs
      <3>6. /\ call'[c] = q /\ Admin!Calls' = Admin!Calls
            /\ \A d \in Admin!Calls \ {c} : call'[d] = call[d]
            BY <2>1, <2>3 DEF CallsFit, Admin!Calls
      <3>7. \A n \in 1..Len(logged') : logged'[n].start <= adminClock'
        <4>1. ASSUME NEW n \in 1..Len(logged')
              PROVE  logged'[n].start <= adminClock'
          <5>1. CASE n = Len(logged) + 1
                BY <2>3, <3>2, <3>4, <5>1
          <5>2. CASE n \in 1..Len(logged)
                BY <2>3, <3>4, <5>2 DEF LogFits
          <5> QED BY <2>4, <3>4, <5>1, <5>2
        <4> QED BY <4>1
      <3>8. ASSUME NEW d \in Admin!Calls
            PROVE  /\ call'[d].before \in 0..Len(logged)
                   /\ \A n \in 1..call'[d].before : logged[n].start <= call'[d].start
                   /\ call'[d].op = "search" => call'[d].arg \in Nat
        <4>1. CASE d = c
              BY <2>5, <3>6, <4>1
        <4>2. CASE d # c
              BY <3>6, <4>2 DEF LogFits
        <4> QED BY <4>1, <4>2
      <3>9. ASSUME NEW d \in Admin!Calls
            PROVE  /\ call'[d].before \in 0..Len(logged')
                   /\ \A n \in 1..call'[d].before : n \in 1..Len(logged) /\ logged'[n] = logged[n]
            BY <2>4, <3>4, <3>8
      <3>10. ASSUME NEW d \in Admin!Calls, call'[d].op = "search", call'[d].searched, ~call'[d].more,
                    NEW n \in 1..call'[d].before
             PROVE  \/ logged'[n].start < call'[d].arg
                    \/ logged'[n] \in call'[d].page
                    \/ Len(logged') - n >= LogLimit
        <4>1. d # c /\ call'[d] = call[d]
              BY <3>5, <3>6, <3>10
        <4>2. logged'[n] = logged[n] /\ n \in Int
              BY <3>9
        <4>3. \/ logged[n].start < call[d].arg
              \/ logged[n] \in call[d].page
              \/ Len(logged) - n >= LogLimit
              BY <3>10, <4>1 DEF LogFits, Admin!SearchesHold
        <4>4. Len(logged) - n >= LogLimit => Len(logged') - n >= LogLimit
              BY <2>4, <3>4, <4>2, ServerAssumption
        <4> QED BY <4>1, <4>2, <4>3, <4>4
      <3>11. Admin!SearchesHold'
             BY <3>6, <3>10 DEF Admin!SearchesHold
      <3> QED BY <3>4, <3>6, <3>7, <3>8, <3>9, <3>11 DEF LogFits
    <2> QED BY <2>6, <2>7
  <1> QED BY <1>1, <1>2, <1>3, AdminSteps DEF Begins

AdminInv == CallsFit /\ SessionsFit /\ LinksFit /\ LogFits

\* What the admin API answers holds: a logout ends its session, a link is good until it
\* expires, is used once or makes room, and a search shows what was there.
THEOREM AdminSafe == Admin!Spec => []AdminInv
  <1> USE ServerAssumption
  <1>1. Admin!Init => AdminInv
    <2> SUFFICES ASSUME Admin!Init PROVE AdminInv
        OBVIOUS
    <2>1. /\ uses \in Workloads /\ adminClock = 0 /\ begun = 0
          /\ call = [c \in Admin!Calls |-> Admin!Unborn]
          /\ sessions = <<>> /\ exports = <<>> /\ order = {} /\ log = <<>>
          /\ jar = [b \in DOMAIN uses.logins |-> None]
          /\ links = <<>> /\ taken = {} /\ over = {} /\ logged = <<>>
          BY DEF Admin!Init
    <2>2. DOMAIN sessions = {} /\ DOMAIN exports = {} /\ DOMAIN links = {}
          BY <2>1
    <2>3. Len(links) = 0 /\ Len(log) = 0 /\ Len(logged) = 0
          BY <2>1
    <2>4. ASSUME NEW c \in Admin!Calls
          PROVE  /\ DOMAIN call[c] = CallFields /\ call[c].pc = "unborn" /\ call[c].token = None
                 /\ call[c].start = 0 /\ call[c].at = 0 /\ call[c].before = 0 /\ call[c].op = "none"
                 /\ call[c].late = FALSE /\ call[c].searched = FALSE
          BY <2>1 DEF Admin!Unborn, CallFields
    <2>5. CallsFit
      <3>1. uses.calls \in Nat
            BY <2>1
      <3>2. adminClock \in Nat /\ 0 \in 0..adminClock /\ begun \in 0..uses.calls
            BY <2>1, <3>1
      <3> QED BY <2>1, <2>4, <3>1, <3>2 DEF CallsFit
    <2>6. SessionsFit
          BY <2>1, <2>2, <2>4 DEF SessionsFit
    <2>7. LinksFit
      <3>1. links \in Seq(Elements(links))
            BY <2>1, EmptySeq
      <3>2. Cardinality(order) <= ExportLimit
            BY <2>1, FS_EmptySet
      <3>3. Admin!LinksEnd
            BY <2>1, <2>2, <3>2, AdminCounts DEF Admin!LinksEnd
      <3>4. Admin!LinksHold
            BY <2>2 DEF Admin!LinksHold
      <3> QED BY <2>1, <2>2, <2>3, <3>1, <3>3, <3>4 DEF LinksFit
    <2>8. LogFits
      <3>1. logged \in Seq(LogRecord) /\ log \in Seq(LogRecord)
            BY <2>1, EmptySeq
      <3>2. Admin!SearchesHold
            BY <2>4 DEF Admin!SearchesHold
      <3>3. LogLimit \in Nat /\ 1..0 = {} /\ 0 \in 0..0
            OBVIOUS
      <3>4. /\ Len(log) <= LogLimit /\ Len(log) <= Len(logged) /\ Len(log) = Len(logged)
            /\ \A i \in 1..Len(log) : log[i] = logged[Len(logged) - Len(log) + i]
            /\ \A n \in 1..Len(logged) : logged[n].start <= adminClock
            BY <2>3, <3>3
      <3>5. \A c \in Admin!Calls :
               /\ call[c].before \in 0..Len(logged)
               /\ \A n \in 1..call[c].before : logged[n].start <= call[c].start
               /\ call[c].op = "search" => call[c].arg \in Nat
            BY <2>3, <2>4, <3>3
      <3> QED BY <3>1, <3>2, <3>4, <3>5 DEF LogFits
    <2> QED BY <2>5, <2>6, <2>7, <2>8 DEF AdminInv
  <1>2. AdminInv /\ [Admin!Next]_Admin!vars => AdminInv'
        BY CallsStep, SessionsStep, LinksStep, LogStep DEF AdminInv
  <1> QED BY <1>1, <1>2, PTL DEF Admin!Spec

-----------------------------------------------------------------------------
\* The five parts side by side: each of them behaves as its module says.
LEMMA PartsRun == ServerSpec => Spec /\ Config!Spec /\ Certificates!Spec /\ Token!Spec /\ Admin!Spec
  <1>1. ServerInit => Init /\ Config!Init /\ Certificates!Init /\ Token!Init /\ Admin!Init
        BY DEF ServerInit
  <1>2. ASSUME [ServerNext]_allVars
        PROVE  /\ [Next]_vars
               /\ [Config!Next]_Config!vars
               /\ [Certificates!Next]_Certificates!vars
               /\ [Token!Next]_Token!vars
               /\ [Admin!Next]_Admin!vars
    <2>1. UNCHANGED configVars => UNCHANGED Config!vars
          BY DEF Config!vars, configVars
    <2>2. UNCHANGED certVars => UNCHANGED Certificates!vars
          BY DEF certVars, Certificates!vars, Certificates!files, Certificates!process
    <2>3. UNCHANGED tokenVars => UNCHANGED Token!vars
          BY DEF Token!vars, tokenVars
    <2>4. UNCHANGED adminVars => UNCHANGED Admin!vars
          BY DEF Admin!vars, Admin!rest, adminVars
    <2>5. CASE UNCHANGED allVars
      <3>1. /\ UNCHANGED vars /\ UNCHANGED configVars /\ UNCHANGED certVars
            /\ UNCHANGED tokenVars /\ UNCHANGED adminVars
            BY <2>5 DEF allVars
      <3> QED BY <2>1, <2>2, <2>3, <2>4, <3>1
    <2>6. CASE ServerNext
      <3>1. /\ Next \/ UNCHANGED vars
            /\ Config!Next \/ UNCHANGED configVars
            /\ Certificates!Next \/ UNCHANGED certVars
            /\ Token!Next \/ UNCHANGED tokenVars
            /\ Admin!Next \/ UNCHANGED adminVars
            BY <2>6, Zenon DEF ServerNext
      <3> QED BY <2>1, <2>2, <2>3, <2>4, <3>1
    <2> QED BY <1>2, <2>5, <2>6
  <1> QED BY <1>1, <1>2, PTL
          DEF ServerSpec, Spec, Config!Spec, Certificates!Spec, Token!Spec, Admin!Spec

\* However many channels race to take connectors over, none is taken over more often than
\* its limit allows, and the two budgets are what the channels hold of them.
THEOREM ServerGuardsCount == ServerSpec => []GuardsCount
  BY PartsRun, GuardsCountHolds, PTL

\* Whatever fails on the way of an update, and wherever the process stops, the store shows
\* what is saved, and a process starts with it.
THEOREM ServerShownIsSaved == ServerSpec => []ShownIsSaved
  <1>1. ConfigInv => ShownIsSaved
        BY DEF ConfigInv, ShownIsSaved
  <1> QED BY <1>1, PartsRun, ConfigSafe, PTL

\* What was answered holds: a token that was created, rotated or revoked stays so, also over
\* a crash; a session that was ended serves no later request; a link is good until it
\* expires, is used or makes room, and is used once; a search has shown everything.
THEOREM ServerAnswersHold == ServerSpec => []AnswersHold
  <1>1. TokensInv => Token!AnswersHold
        BY DEF TokensInv, Honour, Token!AnswersHold
  <1>2. ASSUME AdminInv
        PROVE  Admin!AnswersHold
    <2>1. Admin!LogoutsHold
          BY <1>2 DEF AdminInv, SessionsFit, Admin!LogoutsHold
    <2>2. Admin!LinksHold /\ Admin!LinksEnd
          BY <1>2 DEF AdminInv, LinksFit
    <2>3. Admin!SearchesHold
          BY <1>2 DEF AdminInv, LogFits
    <2> QED BY <2>1, <2>2, <2>3 DEF Admin!AnswersHold
  <1>3. TokensInv /\ AdminInv => AnswersHold
        BY <1>1, <1>2 DEF AnswersHold
  <1> QED BY <1>3, PartsRun, TokensSafe, AdminSafe, PTL

\* No update of a life of the process replaces one that its author had not read.
THEOREM ServerUpdatesAreSeen == ServerSpec => UpdatesAreSeen
  <1>1. ASSUME ConfigInv, [Config!Next]_Config!vars
        PROVE  [\A a \in Admins : Config!Commit(a) /\ admin[a].life = life
                                    => admin[a].seen = layers]_Config!vars
    <2>1. ASSUME NEW a \in Admins, Config!Commit(a), admin[a].life = life
          PROVE  admin[a].seen = layers
          BY <1>1, <2>1 DEF ConfigInv, SeenIsShown, Config!Commit
    <2> QED BY <2>1
  <1> QED BY <1>1, PartsRun, ConfigSafe, PTL DEF Config!Spec, UpdatesAreSeen, Config!UpdatesAreSeen

\* A connection is given a certificate that has not expired, or for less than what the
\* shortest interval exceeds the renewal window, or the operator's within one interval,
\* unless the last loading failed: for every life and every window Validate accepts.
THEOREM ServerServedIsFresh == ServerSpec => []ServedIsFresh
  <1>1. CertInv => ServedIsFresh
        BY ServerAssumption, OverrunBounds DEF CertInv, Promised, ServedIsFresh,
           Certificates!ServedIsFresh, Certificates!Fresh
  <1> QED BY <1>1, PartsRun, CertificatesSafe, PTL

==============================================================================
