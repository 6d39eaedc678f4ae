------------------------- MODULE AgentDesktop_proofs -------------------------
(***************************************************************************)
(* Proofs about the desktop host: the supervision of the agent (AgentHost), *)
(* for any processes, any of the user's commands and any number of commands *)
(* and faults; and the local connection (LocalRpc), for any clients, calls  *)
(* and pieces that wait.                                                    *)
(***************************************************************************)
EXTENDS AgentDesktop, Sequences, SequenceTheorems, TLAPS

\* The stages of a start before its process is recorded as the child.
Launching == {"prepare", "spawn", "adopt"}

\* Only one thread is in start_agent_sequence.
OneStart == ~raced => ~(at["user"] \in Starting /\ at["monitor"] \in Starting)

\* A start that has yet to record its process finds no child to overwrite: the look
\* that let it in found none, and nobody else records one.
Vacant ==
    ~raced => \A t \in Threads : at[t] \in Launching => supervisor.child = None

\* A command that calls the agent has a client in hand.
Asking == at["user"] = "asking" => held["user"] # None

IInv == TypeOK /\ Asking /\ OneStart /\ Vacant /\ NoneForgotten

(***************************************************************************)
(* Type correctness.                                                       *)
(***************************************************************************)
Records ==
    [desired : {"running", "stopped"},
     connection : {"disconnected", "reconnecting", "resyncing", "connected"},
     expecting : BOOLEAN, pending : BOOLEAN, retry : {"none", "waiting", "due"},
     child : Procs \cup {None}, client : Procs \cup {None}]

\* A fault is taken from those that are left.
LEMMA FaultTypes ==
    ASSUME TypeOK, UseFault
    PROVE  left' \in [commands : 0 .. MaxCommands, faults : 0 .. MaxFaults]
  <1>1. left \in [commands : 0 .. MaxCommands, faults : 0 .. MaxFaults]
        BY DEF TypeOK
  <1>2. left.faults - 1 \in 0 .. MaxFaults
        BY <1>1, HostAssumption DEF UseFault
  <1> QED BY <1>1, <1>2 DEF UseFault

\* A command is taken from those that are left.
LEMMA CommandTypes ==
    ASSUME TypeOK, left.commands > 0
    PROVE  [left EXCEPT !.commands = @ - 1] \in
               [commands : 0 .. MaxCommands, faults : 0 .. MaxFaults]
  <1>1. left \in [commands : 0 .. MaxCommands, faults : 0 .. MaxFaults]
        BY DEF TypeOK
  <1>2. left.commands - 1 \in 0 .. MaxCommands
        BY <1>1, HostAssumption
  <1> QED BY <1>1, <1>2

\* What a failed attempt records.
LEMMA RecordedTypes ==
    ASSUME TypeOK
    PROVE  /\ Recorded(supervisor) \in Records
           /\ [Recorded(supervisor) EXCEPT !.child = None, !.client = None] \in Records
  BY DEF TypeOK, Records, Recorded, Wants

\* What a failure after the spawn leaves.
LEMMA GiveUpTypes ==
    ASSUME TypeOK, NEW t \in Threads, GiveUp(t),
           left' \in [commands : 0 .. MaxCommands, faults : 0 .. MaxFaults]
    PROVE  TypeOK'
  <1>1. supervisor' \in Records
        BY RecordedTypes DEF GiveUp
  <1>2. supervisor.child \in Procs \cup {None} /\ "killFailed" \in Stages
        BY DEF TypeOK, Stages
  <1> QED BY <1>1, <1>2 DEF GiveUp, TypeOK, Records, Goto, Take, Hold, Processes, Told

\* The steps of start_agent_sequence keep the types.
LEMMA SequenceTypes ==
    ASSUME TypeOK, NEW t \in Threads,
           Sequence(t) \/ PrepareFails(t) \/ SpawnFails(t)
    PROVE  TypeOK'
  <1> USE DEF TypeOK, Goto, Take, Hold, Processes, Hands, Told
  <1>0. {"idle", "failed", "spawn", "adopt", "connect", "bootstrap", "resync", "verify",
         "store", "connected", "check", "killFailed"} \subseteq Stages
        BY DEF Stages, Starting
  <1>1. CASE Prepare(t)
        BY <1>0, <1>1 DEF Prepare
  <1>2. CASE Spawn(t)
        BY <1>0, <1>2 DEF Spawn, Unused
  <1>3. CASE Adopt(t)
        BY <1>0, <1>3 DEF Adopt
  <1>4. CASE Connect(t)
        BY <1>0, <1>4 DEF Connect
  <1>5. CASE Call(t, "bootstrap", "resync")
        BY <1>0, <1>5 DEF Call
  <1>6. CASE Resync(t)
        BY <1>0, <1>6 DEF Resync, SetConnection
  <1>7. CASE Call(t, "verify", "store")
        BY <1>0, <1>7 DEF Call
  <1>8. CASE Store(t)
        BY <1>0, <1>8 DEF Store
  <1>9. CASE Connected(t)
        BY <1>0, <1>9 DEF Connected, SetConnection, Done
  <1>10. CASE ConnectFails(t)
    <2>1. left' \in [commands : 0 .. MaxCommands, faults : 0 .. MaxFaults]
          BY <1>10, FaultTypes DEF ConnectFails
    <2> QED BY <1>10, <2>1, GiveUpTypes DEF ConnectFails
  <1>11. CASE CallFails(t)
    <2>1. left' \in [commands : 0 .. MaxCommands, faults : 0 .. MaxFaults]
          BY <1>11, FaultTypes DEF CallFails
    <2> QED BY <1>11, <2>1, GiveUpTypes DEF CallFails
  <1>12. CASE KillFailed(t)
         BY <1>0, <1>12 DEF KillFailed, Die, Failed, Done
  <1>13. CASE PrepareFails(t)
    <2>1. left' \in [commands : 0 .. MaxCommands, faults : 0 .. MaxFaults]
          BY <1>13, FaultTypes DEF PrepareFails
    <2>2. (refused \/ t = "user") \in BOOLEAN
          OBVIOUS
    <2> QED BY <1>0, <1>13, <2>1, <2>2 DEF PrepareFails, Failed, Done
  <1>14. CASE SpawnFails(t)
    <2>1. left' \in [commands : 0 .. MaxCommands, faults : 0 .. MaxFaults]
          BY <1>14, FaultTypes DEF SpawnFails
    <2>2. supervisor' \in Records
          BY <1>14, RecordedTypes DEF SpawnFails
    <2> QED BY <1>0, <1>14, <2>1, <2>2 DEF SpawnFails, Failed, Done, Records
  <1> QED BY <1>1, <1>2, <1>3, <1>4, <1>5, <1>6, <1>7, <1>8, <1>9, <1>10, <1>11, <1>12,
             <1>13, <1>14 DEF Sequence

\* The steps of the supervisor thread, and a retry that comes due, keep the types.
LEMMA MonitorTypes ==
    ASSUME TypeOK, Monitor \/ RetryDue
    PROVE  TypeOK'
  <1> USE DEF TypeOK, Goto, Take, Hold, Processes, Hands, Told
  <1>0. /\ "monitor" \in Threads
        /\ {"prepare", "pump", "decide", "check", "killPumped"} \subseteq Stages
        BY DEF Stages, Starting, Threads
  <1>1. CASE MonitorCheck
        BY <1>0, <1>1 DEF MonitorCheck, Wants
  <1>2. CASE PingAnswered
        BY <1>0, <1>2 DEF PingAnswered
  <1>3. CASE PingFails
    <2>1. left' \in [commands : 0 .. MaxCommands, faults : 0 .. MaxFaults]
          BY <1>3, FaultTypes DEF PingFails
    <2>2. supervisor' \in Records
          BY <1>3, RecordedTypes DEF PingFails
    <2> QED BY <1>0, <1>3, <2>1, <2>2 DEF PingFails, Records
  <1>4. CASE NoPump
        BY <1>0, <1>4 DEF NoPump
  <1>5. CASE KillPumped
        BY <1>0, <1>5 DEF KillPumped, Die
  <1>6. CASE MonitorDecide
    <2>1. raced' \in BOOLEAN
          BY <1>6 DEF MonitorDecide, EnterStart
    <2> QED BY <1>0, <1>6, <2>1 DEF MonitorDecide, EnterStart
  <1>7. CASE MonitorFailed
        BY <1>0, <1>7 DEF MonitorFailed
  <1>8. CASE RetryDue
        BY <1>8 DEF RetryDue
  <1> QED BY <1>1, <1>2, <1>3, <1>4, <1>5, <1>6, <1>7, <1>8 DEF Monitor

\* The user's commands keep the types.
LEMMA UserTypes ==
    ASSUME TypeOK, Asking, User \/ \E c \in Commands : Give(c)
    PROVE  TypeOK'
  <1> USE DEF TypeOK, Goto, Take, Hold, Processes, Hands, Told
  <1>0. /\ "user" \in Threads
        /\ {"idle", "begin", "stop", "stopping", "waiting", "stopped", "exit", "look",
            "schedule", "inject", "injected", "query", "asking", "prepare"} \subseteq Stages
        BY DEF Stages, Starting, Threads
  <1>1. CASE Bootstrap
        BY <1>0, <1>1 DEF Bootstrap, Done
  <1>2. CASE Begin
    <2>1. raced' \in BOOLEAN
          BY <1>2 DEF Begin, EnterStart
    <2>2. supervisor' \in Records
      <3>1. \/ supervisor' = [supervisor EXCEPT !.desired = "running"]
            \/ supervisor' =
                   [supervisor EXCEPT
                       !.desired = "running", !.child = None,
                       !.client = IF supervisor.child = None THEN @ ELSE None]
            BY <1>2, Zenon DEF Begin
      <3> QED BY <3>1, ZenonT(30) DEF Records
    <2>3. at' \in [Threads -> Stages]
          BY <1>0, <1>2 DEF Begin, EnterStart
    <2>4. refused' \in BOOLEAN
          BY <1>2 DEF Begin
    <2>5. UNCHANGED <<Processes, Hands, Told, left>>
          BY <1>2 DEF Begin
    <2> HIDE DEF Goto
    <2> QED BY <2>1, <2>2, <2>3, <2>4, <2>5 DEF Records
  <1>3. CASE Look
        BY <1>0, <1>3 DEF Look, Done
  <1>4. CASE Ask
        BY <1>0, <1>4 DEF Ask, Done
  <1>5. CASE Asked
    <2>1. left' \in [commands : 0 .. MaxCommands, faults : 0 .. MaxFaults]
          BY <1>5, FaultTypes DEF Asked
    <2>2. behind' \subseteq Procs
          BY <1>5 DEF Asked, Asking, Threads
    <2> QED BY <1>0, <1>5, <2>1, <2>2 DEF Asked, Done
  <1>6. CASE Stop
        BY <1>0, <1>6 DEF Stop
  <1>7. CASE Stopping
        BY <1>0, <1>7 DEF Stopping
  <1>8. CASE Waiting
        BY <1>0, <1>8 DEF Waiting, Die
  <1>9. CASE Stopped
    <2>1. at' \in [Threads -> Stages]
          BY <1>0, <1>9 DEF Stopped, Done
    <2>2. shutdown' \in BOOLEAN /\ command' \in Commands \cup {"none"}
          BY <1>9 DEF Stopped, Done
    <2>3. supervisor' \in Records
          BY <1>9 DEF Stopped, Records
    <2>4. UNCHANGED <<Processes, Hands, exited, left, raced, refused>>
          BY <1>9 DEF Stopped
    <2> QED BY <2>1, <2>2, <2>3, <2>4 DEF Records
  <1>10. CASE Exit
         BY <1>10 DEF Exit
  <1>11. CASE Inject
    <2>1. at' \in [Threads -> Stages]
          BY <1>0, <1>11 DEF Inject, Done
    <2>2. mine' \in [Threads -> Procs \cup {None}] /\ command' \in Commands \cup {"none"}
          BY <1>11 DEF Inject, Done
    <2>3. supervisor' \in Records
      <3>1. \/ supervisor' = supervisor
            \/ supervisor' = [supervisor EXCEPT
                  !.desired = "running", !.connection = "disconnected",
                  !.expecting = FALSE, !.pending = TRUE, !.retry = "waiting",
                  !.child = None, !.client = None]
            BY <1>11 DEF Inject
      <3> QED BY <3>1, ZenonT(30) DEF Records
    <2>4. UNCHANGED <<Processes, held, shutdown, exited, left, raced, refused>>
          BY <1>11 DEF Inject
    <2> QED BY <2>1, <2>2, <2>3, <2>4 DEF Records
  <1>12. CASE Injected
         BY <1>0, <1>12 DEF Injected, Die
  <1>13. ASSUME NEW c \in Commands, Give(c)
         PROVE  TypeOK'
    <2>1. left' \in [commands : 0 .. MaxCommands, faults : 0 .. MaxFaults]
          BY <1>13, CommandTypes DEF Give
    <2>2. PICK stage \in Stages : at' = [at EXCEPT !["user"] = stage]
          BY <1>0, <1>13, HostAssumption, ZenonT(30) DEF Give
    <2>3. shutdown' \in BOOLEAN
          BY <1>13 DEF Give
    <2>4. UNCHANGED <<supervisor, Processes, Hands, exited, raced, refused>>
          /\ command' \in Commands
          BY <1>13 DEF Give
    <2> QED BY <1>0, <2>1, <2>2, <2>3, <2>4
  <1> QED BY <1>1, <1>2, <1>3, <1>4, <1>5, <1>6, <1>7, <1>8, <1>9, <1>10, <1>11, <1>12,
             <1>13 DEF User

\* What the agent processes do keeps the types.
LEMMA ProcessTypes ==
    ASSUME TypeOK, NEW p \in Procs, Listen(p) \/ Crash(p) \/ Hang(p)
    PROVE  TypeOK'
  <1>1. CASE Listen(p)
        BY <1>1 DEF TypeOK, Listen, Hands, Told
  <1>2. CASE Crash(p)
        BY <1>2, FaultTypes DEF TypeOK, Crash, Die, Hands, Told
  <1>3. CASE Hang(p)
        BY <1>3, FaultTypes DEF TypeOK, Hang, Hands, Told
  <1> QED BY <1>1, <1>2, <1>3

(***************************************************************************)
(* Starts and what they find.                                              *)
(***************************************************************************)

\* The steps of a start keep the facts about starts: only Adopt records a child.
LEMMA SequenceStarts ==
    ASSUME IInv, NEW t \in Threads,
           Sequence(t) \/ PrepareFails(t) \/ SpawnFails(t)
    PROVE  Asking' /\ OneStart' /\ Vacant'
  <1> USE DEF TypeOK, Threads, Goto, Take, Hold, Processes, Hands, Told,
              Asking, OneStart, Vacant, Starting, Launching, IInv
  <1>1. CASE Prepare(t)
        BY <1>1 DEF Prepare
  <1>2. CASE Spawn(t)
        BY <1>2 DEF Spawn, Unused
  <1>3. CASE Adopt(t)
        BY <1>3 DEF Adopt
  <1>4. CASE Connect(t)
        BY <1>4 DEF Connect
  <1>5. CASE Call(t, "bootstrap", "resync")
        BY <1>5 DEF Call
  <1>6. CASE Resync(t)
        BY <1>6 DEF Resync, SetConnection
  <1>7. CASE Call(t, "verify", "store")
        BY <1>7 DEF Call
  <1>8. CASE Store(t)
        BY <1>8 DEF Store
  <1>9. CASE Connected(t)
        BY <1>9 DEF Connected, SetConnection, Done
  <1>10. CASE ConnectFails(t)
         BY <1>10 DEF ConnectFails, GiveUp, Recorded
  <1>11. CASE CallFails(t)
         BY <1>11 DEF CallFails, GiveUp, Recorded
  <1>12. CASE KillFailed(t)
         BY <1>12 DEF KillFailed, Die, Failed, Done
  <1>13. CASE PrepareFails(t)
         BY <1>13 DEF PrepareFails, Failed, Done
  <1>14. CASE SpawnFails(t)
         BY <1>14 DEF SpawnFails, Recorded, Failed, Done
  <1> QED BY <1>1, <1>2, <1>3, <1>4, <1>5, <1>6, <1>7, <1>8, <1>9, <1>10, <1>11, <1>12,
             <1>13, <1>14 DEF Sequence

\* The supervisor thread starts the agent only when there is no child.
LEMMA MonitorStarts ==
    ASSUME IInv, Monitor \/ RetryDue
    PROVE  Asking' /\ OneStart' /\ Vacant'
  <1> USE DEF TypeOK, Threads, Goto, Take, Hold, Processes, Hands, Told,
              Asking, OneStart, Vacant, Starting, Launching, IInv
  <1>1. CASE MonitorCheck
        BY <1>1 DEF MonitorCheck
  <1>2. CASE PingAnswered
        BY <1>2 DEF PingAnswered
  <1>3. CASE PingFails
        BY <1>3 DEF PingFails, Recorded
  <1>4. CASE NoPump
        BY <1>4 DEF NoPump
  <1>5. CASE KillPumped
        BY <1>5 DEF KillPumped, Die
  <1>6. CASE MonitorDecide
        BY <1>6 DEF MonitorDecide, EnterStart, MayRestart
  <1>7. CASE MonitorFailed
        BY <1>7 DEF MonitorFailed
  <1>8. CASE RetryDue
        BY <1>8 DEF RetryDue
  <1> QED BY <1>1, <1>2, <1>3, <1>4, <1>5, <1>6, <1>7, <1>8 DEF Monitor

\* The user's commands start the agent only when there is no child that runs, and
\* forget one that does not.
LEMMA UserStarts ==
    ASSUME IInv, User \/ \E c \in Commands : Give(c)
    PROVE  Asking' /\ OneStart' /\ Vacant'
  <1> USE DEF TypeOK, Threads, Goto, Take, Hold, Processes, Hands, Told,
              Asking, OneStart, Vacant, Starting, Launching, IInv
  <1>1. CASE Bootstrap
        BY <1>1 DEF Bootstrap, Done
  <1>2. CASE Begin
    <2>1. CASE supervisor.child # None /\ process[supervisor.child] # "none"
          BY <1>2, <2>1 DEF Begin
    <2>2. CASE ~(supervisor.child # None /\ process[supervisor.child] # "none")
      <3>1. /\ at' = [at EXCEPT !["user"] = "prepare"]
            /\ supervisor'.child = None
            /\ raced' = (raced \/ \E o \in Threads \ {"user"} : at[o] \in Starting)
            /\ UNCHANGED held
            BY <1>2, <2>2 DEF Begin, EnterStart
      <3> QED BY <3>1
    <2> QED BY <2>1, <2>2
  <1>3. CASE Look
        BY <1>3 DEF Look, Done
  <1>4. CASE Ask
        BY <1>4 DEF Ask, Done
  <1>5. CASE Asked
        BY <1>5 DEF Asked, Done
  <1>6. CASE Stop
        BY <1>6 DEF Stop
  <1>7. CASE Stopping
        BY <1>7 DEF Stopping
  <1>8. CASE Waiting
        BY <1>8 DEF Waiting, Die
  <1>9. CASE Stopped
        BY <1>9 DEF Stopped, Done
  <1>10. CASE Exit
         BY <1>10 DEF Exit
  <1>11. CASE Inject
         BY <1>11 DEF Inject, Done
  <1>12. CASE Injected
         BY <1>12 DEF Injected, Die
  <1>13. ASSUME NEW c \in Commands, Give(c)
         PROVE  Asking' /\ OneStart' /\ Vacant'
         BY <1>13, HostAssumption DEF Give
  <1> QED BY <1>1, <1>2, <1>3, <1>4, <1>5, <1>6, <1>7, <1>8, <1>9, <1>10, <1>11, <1>12,
             <1>13 DEF User

(***************************************************************************)
(* Processes and who knows them.                                           *)
(***************************************************************************)

\* A start forgets no process: there is no child when it records its own, and when it
\* fails it has the child in hand until the child is killed.
LEMMA SequenceForgetsNone ==
    ASSUME IInv, NEW t \in Threads,
           Sequence(t) \/ PrepareFails(t) \/ SpawnFails(t)
    PROVE  NoneForgotten'
  <1> USE DEF TypeOK, Threads, Goto, Take, Hold, Processes, Hands, Told,
              NoneForgotten, InHand, Alive, IInv
  <1>1. CASE Prepare(t)
        BY <1>1 DEF Prepare
  <1>2. CASE Spawn(t)
        BY <1>2 DEF Spawn, Unused
  <1>3. CASE Adopt(t)
    <2> SUFFICES ASSUME ~raced, NEW p \in Alive
                 PROVE  p = supervisor'.child \/ InHand(p)'
        BY <1>3 DEF Adopt
    <2>1. /\ supervisor'.child = mine[t]
          /\ at' = [at EXCEPT ![t] = "connect"]
          /\ UNCHANGED mine
          BY <1>3 DEF Adopt
    <2>2. supervisor.child = None
          BY <1>3 DEF Adopt, Vacant, Launching
    <2>3. PICK o \in Threads :
              /\ p = mine[o]
              /\ at[o] \in {"adopt", "stopping", "waiting", "injected",
                            "killPumped", "killFailed"}
          BY <2>2, HostAssumption
    <2> QED BY <2>1, <2>3
  <1>4. CASE Connect(t)
        BY <1>4 DEF Connect
  <1>5. CASE Call(t, "bootstrap", "resync")
        BY <1>5 DEF Call
  <1>6. CASE Resync(t)
        BY <1>6 DEF Resync, SetConnection
  <1>7. CASE Call(t, "verify", "store")
        BY <1>7 DEF Call
  <1>8. CASE Store(t)
        BY <1>8 DEF Store
  <1>9. CASE Connected(t)
        BY <1>9 DEF Connected, SetConnection, Done
  <1>10. CASE ConnectFails(t)
         BY <1>10 DEF ConnectFails, GiveUp, Recorded
  <1>11. CASE CallFails(t)
         BY <1>11 DEF CallFails, GiveUp, Recorded
  <1>12. CASE KillFailed(t)
         BY <1>12 DEF KillFailed, Die, Failed, Done
  <1>13. CASE PrepareFails(t)
         BY <1>13 DEF PrepareFails, Failed, Done
  <1>14. CASE SpawnFails(t)
         BY <1>14 DEF SpawnFails, Recorded, Failed, Done
  <1> QED BY <1>1, <1>2, <1>3, <1>4, <1>5, <1>6, <1>7, <1>8, <1>9, <1>10, <1>11, <1>12,
             <1>13, <1>14 DEF Sequence

\* The supervisor thread drops a child that has ended, or kills it.
LEMMA MonitorForgetsNone ==
    ASSUME IInv, Monitor \/ RetryDue
    PROVE  NoneForgotten'
  <1> USE DEF TypeOK, Threads, Goto, Take, Hold, Processes, Hands, Told,
              NoneForgotten, InHand, Alive, IInv
  <1>1. CASE MonitorCheck
        BY <1>1 DEF MonitorCheck
  <1>2. CASE PingAnswered
        BY <1>2 DEF PingAnswered
  <1>3. CASE PingFails
        BY <1>3 DEF PingFails, Recorded
  <1>4. CASE NoPump
        BY <1>4 DEF NoPump
  <1>5. CASE KillPumped
        BY <1>5 DEF KillPumped, Die
  <1>6. CASE MonitorDecide
        BY <1>6 DEF MonitorDecide, EnterStart, MayRestart
  <1>7. CASE MonitorFailed
        BY <1>7 DEF MonitorFailed
  <1>8. CASE RetryDue
        BY <1>8 DEF RetryDue
  <1> QED BY <1>1, <1>2, <1>3, <1>4, <1>5, <1>6, <1>7, <1>8 DEF Monitor

\* The user's commands drop a child that has ended, or have it in hand until it is gone.
LEMMA UserForgetsNone ==
    ASSUME IInv, User \/ \E c \in Commands : Give(c)
    PROVE  NoneForgotten'
  <1> USE DEF TypeOK, Threads, Goto, Take, Hold, Processes, Hands, Told,
              NoneForgotten, InHand, Alive, IInv
  <1>1. CASE Bootstrap
        BY <1>1 DEF Bootstrap, Done
  <1>2. CASE Begin
    <2>1. CASE supervisor.child # None /\ process[supervisor.child] # "none"
          BY <1>2, <2>1 DEF Begin
    <2>2. CASE ~(supervisor.child # None /\ process[supervisor.child] # "none")
      <3>1. /\ at' = [at EXCEPT !["user"] = "prepare"]
            /\ raced' = (raced \/ \E o \in Threads \ {"user"} : at[o] \in Starting)
            /\ UNCHANGED <<mine, process>>
            /\ at["user"] = "begin"
            BY <1>2, <2>2 DEF Begin, EnterStart
      <3>2. supervisor.child \notin Alive
            BY <2>2, HostAssumption
      <3> QED BY <3>1, <3>2
    <2> QED BY <2>1, <2>2
  <1>3. CASE Look
        BY <1>3 DEF Look, Done
  <1>4. CASE Ask
        BY <1>4 DEF Ask, Done
  <1>5. CASE Asked
        BY <1>5 DEF Asked, Done
  <1>6. CASE Stop
        BY <1>6 DEF Stop
  <1>7. CASE Stopping
        BY <1>7 DEF Stopping
  <1>8. CASE Waiting
        BY <1>8 DEF Waiting, Die
  <1>9. CASE Stopped
        BY <1>9 DEF Stopped, Done
  <1>10. CASE Exit
         BY <1>10 DEF Exit
  <1>11. CASE Inject
         BY <1>11 DEF Inject, Done
  <1>12. CASE Injected
         BY <1>12 DEF Injected, Die
  <1>13. ASSUME NEW c \in Commands, Give(c)
         PROVE  NoneForgotten'
         BY <1>13, HostAssumption DEF Give
  <1> QED BY <1>1, <1>2, <1>3, <1>4, <1>5, <1>6, <1>7, <1>8, <1>9, <1>10, <1>11, <1>12,
             <1>13 DEF User

\* What the agent processes do makes none that the host does not know.
LEMMA ProcessesKeep ==
    ASSUME IInv, NEW p \in Procs, Listen(p) \/ Crash(p) \/ Hang(p)
    PROVE  Asking' /\ OneStart' /\ Vacant' /\ NoneForgotten'
  <1> USE DEF IInv, TypeOK, Processes, Hands, Told, Alive, InHand
  <1>1. UNCHANGED <<supervisor, at, mine, held, raced>>
        BY DEF Listen, Crash, Hang
  <1>2. Alive' \subseteq Alive
        BY DEF Listen, Crash, Die, Hang
  <1>3. Asking' /\ OneStart' /\ Vacant'
        BY <1>1 DEF Asking, OneStart, Vacant
  <1>4. NoneForgotten'
        BY <1>1, <1>2 DEF NoneForgotten
  <1> QED BY <1>3, <1>4

(***************************************************************************)
(* The theorems.                                                           *)
(***************************************************************************)
\* The inductive invariant holds in every reachable state: only one start at a time,
\* none that would overwrite a child, and no process that nobody knows.
THEOREM InductiveInvariant == Spec => []IInv
  <1>1. Init => IInv
    <2> SUFFICES ASSUME Init PROVE IInv
        OBVIOUS
    <2>1. TypeOK
      <3>1. left \in [commands : 0 .. MaxCommands, faults : 0 .. MaxFaults]
            BY HostAssumption DEF Init
      <3>2. at \in [Threads -> Stages]
            BY DEF Init, Stages
      <3> QED BY <3>1, <3>2 DEF Init, TypeOK
    <2>2. Asking /\ OneStart /\ Vacant
          BY DEF Init, Asking, OneStart, Vacant, Starting, Launching, Threads
    <2>3. NoneForgotten
          BY DEF Init, NoneForgotten, Alive
    <2> QED BY <2>1, <2>2, <2>3 DEF IInv
  <1>2. IInv /\ [Next]_vars => IInv'
    <2> SUFFICES ASSUME IInv, [Next]_vars PROVE IInv'
        OBVIOUS
    <2>1. ASSUME NEW t \in Threads, Sequence(t) \/ PrepareFails(t) \/ SpawnFails(t)
          PROVE  IInv'
          BY <2>1, SequenceTypes, SequenceStarts, SequenceForgetsNone DEF IInv
    <2>2. CASE Monitor \/ RetryDue
          BY <2>2, MonitorTypes, MonitorStarts, MonitorForgetsNone DEF IInv
    <2>3. CASE User \/ \E c \in Commands : Give(c)
          BY <2>3, UserTypes, UserStarts, UserForgetsNone DEF IInv
    <2>4. ASSUME NEW p \in Procs, Listen(p) \/ Crash(p) \/ Hang(p)
          PROVE  IInv'
          BY <2>4, ProcessTypes, ProcessesKeep DEF IInv
    <2>5. CASE UNCHANGED vars
          BY <2>5 DEF vars, IInv, TypeOK, Asking, OneStart, Vacant, NoneForgotten, Alive,
                      InHand
    <2> QED BY <2>1, <2>2, <2>3, <2>4, <2>5 DEF Next
  <1> QED BY <1>1, <1>2, PTL DEF Spec

\* Every reachable state of the host, its threads and the processes is well-typed.
THEOREM TypeCorrect == Spec => []TypeOK
  <1>1. IInv => TypeOK
        BY DEF IInv
  <1> QED BY <1>1, InductiveInvariant, PTL

\* No agent process runs that the host has forgotten, unless two starts have run at
\* the same time.
THEOREM NoneForgottenHolds == Spec => []NoneForgotten
  <1>1. IInv => NoneForgotten
        BY DEF IInv
  <1> QED BY <1>1, InductiveInvariant, PTL

\* Unless two starts have run at the same time, recording a new process as the child
\* overwrites none.
THEOREM NoneOverwritten ==
    Spec => [][~raced => \A t \in Threads : Adopt(t) => supervisor.child = None]_vars
  <1>1. IInv => (~raced => \A t \in Threads : Adopt(t) => supervisor.child = None)
        BY DEF IInv, Vacant, Launching, Adopt
  <1> QED BY <1>1, InductiveInvariant, PTL

-----------------------------------------------------------------------------
\* The local connection (LocalRpc).

Codes == {"ok", "UNAUTHORIZED"}

\* The headers of answers there are: what is asked after the handshake is answered, and a
\* connection that the agent does not trust has had an answer to its first request only.
AnswerHeads(trusted) ==
    {h \in [kind : {"header"}, type : {"response"}, id : Nat, code : Codes] :
        /\ h.id >= 3 => h.code = "ok"
        /\ ~trusted /\ h.code = "ok" => h.id < 2}

Pieces(trusted) ==
    AnswerHeads(trusted) \cup [kind : {"header"}, type : {"pong"}, id : {0}, code : {"ok"}]
                         \cup [kind : {"body", "rest"}]

\* The requests there are: nothing but the handshake before the agent trusts the connection.
Requests(trusted) ==
    {r \in [type : {"request"}, id : Nat, method : {"begin", "complete", "host"}, nonce : Nat] :
        /\ r.method = "begin" => r.id = 1
        /\ r.method = "complete" => r.id = 2
        /\ r.method = "host" => r.id >= 3 /\ trusted}

Frames(trusted) == Requests(trusted) \cup [type : {"ping"}]

RpcFields == {"pc", "seq", "calls", "head", "got"}

\* A client, which is up only with an agent that trusts it.
ClientFits(l, trusted) ==
    /\ l = [f \in RpcFields |-> l[f]]
    /\ l.pc \in {"away", "greeting", "proving", "ready", "calling", "pinging"}
    /\ l.seq \in Nat
    /\ l.pc = "greeting" => l.seq = 1
    /\ l.pc = "proving" => l.seq = 2
    /\ l.pc \in {"ready", "calling", "pinging"} => trusted /\ l.seq >= 2
    /\ l.pc = "calling" => l.seq >= 3
    /\ l.head # None => l.head \in AnswerHeads(trusted) /\ l.pc \in Rpc!Waiting
    /\ l.got # None => l.got.of = l.got.given /\ l.got.code = "ok"

\* A client and its connection.
ConnectionFits(l, u, d, trusted) ==
    /\ ClientFits(l, trusted)
    /\ u \in Seq(Frames(trusted))
    /\ d \in Seq(Pieces(trusted))

Waits(c) == \E i \in DOMAIN backlog : backlog[i] = c

\* A connection that has not been accepted has a first request, and no answer.
Unaccepted(l, u, d) ==
    /\ l.pc \in {"greeting", "away"} /\ l.head = None
    /\ u = <<Rpc!Request(1, "begin", 0)>> /\ d = <<>>

\* The one that is served, or nobody of whom the agent could be wary.
Trusted(c) == serving = c => trust.authenticated

RpcShape ==
    /\ client = [c \in Clients |-> client[c]]
    /\ up     = [c \in Clients |-> up[c]]
    /\ down   = [c \in Clients |-> down[c]]
    /\ hungup = [c \in Clients |-> hungup[c]]

ServerFits ==
    /\ serving \in Clients \cup {None}
    /\ trust = [f \in {"authenticated", "pending"} |-> trust[f]]
    /\ trust.authenticated \in BOOLEAN
    /\ handling # None => handling \in Requests(trust.authenticated)
    /\ writing \in Seq(Pieces(trust.authenticated))
    /\ serving = None => handling = None /\ writing = <<>>

BacklogFits ==
    /\ backlog \in Seq(Clients)
    /\ \A i, j \in DOMAIN backlog : backlog[i] = backlog[j] => i = j
    /\ ~Waits(serving)

RpcInv ==
    /\ RpcShape /\ ServerFits /\ BacklogFits
    /\ \A c \in Clients :
          /\ ConnectionFits(client[c], up[c], down[c], Trusted(c))
          /\ Waits(c) => Unaccepted(client[c], up[c], down[c])
          /\ "agent" \notin hungup[c] => serving = c \/ Waits(c)

\* One piece is a sequence of pieces.
LEMMA OneIsASeq ==
    ASSUME NEW S, NEW x \in S
    PROVE  <<x>> \in Seq(S)
  OBVIOUS

\* What is right without trust is right with it.
LEMMA MoreTrust ==
    /\ AnswerHeads(FALSE) \subseteq AnswerHeads(TRUE)
    /\ Pieces(FALSE) \subseteq Pieces(TRUE)
    /\ Requests(FALSE) \subseteq Requests(TRUE)
    /\ Frames(FALSE) \subseteq Frames(TRUE)
    /\ \A l, u, d : ConnectionFits(l, u, d, FALSE) => ConnectionFits(l, u, d, TRUE)
  <1>1. AnswerHeads(FALSE) \subseteq AnswerHeads(TRUE)
        BY DEF AnswerHeads
  <1>2. Pieces(FALSE) \subseteq Pieces(TRUE)
        BY <1>1 DEF Pieces
  <1>3. Requests(FALSE) \subseteq Requests(TRUE)
        BY DEF Requests
  <1>4. Frames(FALSE) \subseteq Frames(TRUE)
        BY <1>3 DEF Frames
  <1>5. ASSUME NEW l, NEW u, NEW d, ConnectionFits(l, u, d, FALSE)
        PROVE  ConnectionFits(l, u, d, TRUE)
    <2>1. u \in Seq(Frames(TRUE))
          BY <1>4, <1>5, SeqMonotonic, Zenon DEF ConnectionFits
    <2>2. d \in Seq(Pieces(TRUE))
          BY <1>2, <1>5, SeqMonotonic, Zenon DEF ConnectionFits
    <2>3. ClientFits(l, TRUE)
          BY <1>1, <1>5 DEF ConnectionFits, ClientFits
    <2> QED BY <2>1, <2>2, <2>3 DEF ConnectionFits
  <1> QED BY <1>1, <1>2, <1>3, <1>4, <1>5

\* The answer that ends the handshake comes from an agent that trusts the connection.
LEMMA HandshakeDone ==
    \A trusted : \A h \in AnswerHeads(trusted) : h.id = 2 /\ h.code = "ok" => trusted
  BY DEF AnswerHeads

\* A step of one client changes no other connection.
LEMMA ClientMoves ==
    ASSUME RpcInv, NEW c \in Clients, NEW l, NEW u, NEW d, NEW h,
           client' = [client EXCEPT ![c] = l], up' = [up EXCEPT ![c] = u],
           down' = [down EXCEPT ![c] = d], hungup' = [hungup EXCEPT ![c] = h],
           ConnectionFits(l, u, d, Trusted(c)), hungup[c] \subseteq h,
           Waits(c) => Unaccepted(l, u, d),
           UNCHANGED <<backlog, serving, trust, handling, writing>>
    PROVE  RpcInv'
  <1> USE DEF RpcInv
  <1>1. RpcShape'
        BY DEF RpcShape
  <1>2. ServerFits' /\ BacklogFits' /\ \A b : (Waits(b))' <=> Waits(b)
        BY DEF ServerFits, BacklogFits, Waits
  <1>3. (Trusted(c))' = Trusted(c) /\ \A b \in Clients : (Trusted(b))' = Trusted(b)
        BY DEF Trusted
  <1>4. ASSUME NEW b \in Clients
        PROVE  /\ (ConnectionFits(client[b], up[b], down[b], Trusted(b)))'
               /\ (Waits(b) => Unaccepted(client[b], up[b], down[b]))'
               /\ ("agent" \notin hungup[b] => serving = b \/ Waits(b))'
    <2>1. CASE b = c
      <3>1. client'[b] = l /\ up'[b] = u /\ down'[b] = d /\ hungup'[b] = h
            BY <2>1 DEF RpcShape
      <3> QED BY <1>2, <1>3, <2>1, <3>1
    <2>2. CASE b # c
      <3>1. /\ client'[b] = client[b] /\ up'[b] = up[b] /\ down'[b] = down[b]
            /\ hungup'[b] = hungup[b]
            BY <2>2 DEF RpcShape
      <3> QED BY <1>2, <1>3, <3>1
    <2> QED BY <2>1, <2>2
  <1> QED BY <1>1, <1>2, <1>4

\* A client that is away fits any connection.
LEMMA AwayFits ==
    \A trusted : ClientFits(Rpc!Away, trusted)
  <1>1. PICK l : l = Rpc!Away
        OBVIOUS
  <1>2. /\ l = [f \in RpcFields |-> l[f]]
        /\ l.pc = "away" /\ l.seq = 0 /\ l.head = None /\ l.got = None
        BY <1>1 DEF Rpc!Away, RpcFields
  <1>3. \A trusted : ClientFits(l, trusted)
        BY <1>2 DEF ClientFits
  <1> QED BY <1>1, <1>3

\* What an action of a client leaves as it was.
LEMMA ClientHolds ==
    ASSUME RpcInv, NEW c \in Clients
    PROVE  /\ up[c] \in Seq(Frames(Trusted(c))) /\ down[c] \in Seq(Pieces(Trusted(c)))
           /\ ClientFits(client[c], Trusted(c))
           /\ up = [up EXCEPT ![c] = up[c]] /\ down = [down EXCEPT ![c] = down[c]]
           /\ hungup = [hungup EXCEPT ![c] = hungup[c]]
  <1>1. ConnectionFits(client[c], up[c], down[c], Trusted(c))
        BY DEF RpcInv
  <1>2. RpcShape
        BY DEF RpcInv
  <1>3. up = [up EXCEPT ![c] = up[c]]
        BY <1>2 DEF RpcShape
  <1>4. down = [down EXCEPT ![c] = down[c]]
        BY <1>2 DEF RpcShape
  <1>5. hungup = [hungup EXCEPT ![c] = hungup[c]]
        BY <1>2 DEF RpcShape
  <1> QED BY <1>1, <1>3, <1>4, <1>5 DEF ConnectionFits

\* A call that fails, in the handshake or later, leaves a client that fits.
LEMMA ClientFails ==
    ASSUME RpcInv, NEW c \in Clients, NEW d, Rpc!Fails(c), client[c].pc \in Rpc!Waiting,
           down' = [down EXCEPT ![c] = d], d \in Seq(Pieces(Trusted(c))), Waits(c) => d = <<>>,
           UNCHANGED <<up, backlog, serving, trust, handling, writing>>
    PROVE  RpcInv'
  <1>1. up' = [up EXCEPT ![c] = up[c]]
        BY ClientHolds
  <1>2. /\ up[c] \in Seq(Frames(Trusted(c))) /\ ClientFits(client[c], Trusted(c))
        /\ hungup' = hungup => hungup' = [hungup EXCEPT ![c] = hungup[c]]
        BY ClientHolds
  <1>3. Waits(c) => Unaccepted(client[c], up[c], down[c])
        BY DEF RpcInv
  <1>4. CASE client[c].pc \in {"greeting", "proving"}
    <2>1. /\ client' = [client EXCEPT ![c] = Rpc!Away]
          /\ hungup' = [hungup EXCEPT ![c] = @ \cup {"client"}]
          BY <1>4 DEF Rpc!Fails, Rpc!Put
    <2>2. PICK l, h : l = Rpc!Away /\ h = hungup[c] \cup {"client"}
          OBVIOUS
    <2>3. hungup' = [hungup EXCEPT ![c] = h] /\ hungup[c] \subseteq h
          BY <2>1, <2>2
    <2>4. ConnectionFits(l, up[c], d, Trusted(c))
          BY <1>2, <2>2, AwayFits DEF ConnectionFits
    <2>5. l.pc = "away" /\ l.head = None
          BY <2>2 DEF Rpc!Away
    <2>6. Waits(c) => Unaccepted(l, up[c], d)
          BY <1>3, <2>5 DEF Unaccepted
    <2>7. client' = [client EXCEPT ![c] = l]
          BY <2>1, <2>2
    <2> QED BY <1>1, <2>3, <2>4, <2>6, <2>7, ClientMoves
  <1>5. CASE client[c].pc \notin {"greeting", "proving"}
    <2>1. PICK l : l = [client[c] EXCEPT !.pc = "ready", !.head = None, !.got = None]
          OBVIOUS
    <2>2. client' = [client EXCEPT ![c] = l] /\ hungup' = hungup
          BY <1>5, <2>1 DEF Rpc!Fails, Rpc!Put
    <2>3. Trusted(c) /\ client[c].seq >= 2 /\ client[c].seq \in Nat
          BY <1>2, <1>5 DEF ClientFits, Rpc!Waiting
    <2>4. l = [f \in RpcFields |-> l[f]] /\ l.pc = "ready" /\ l.head = None /\ l.got = None
          BY <1>2, <2>1 DEF ClientFits, RpcFields
    <2>5. l.seq = client[c].seq
          BY <1>2, <2>1 DEF ClientFits, RpcFields
    <2>6. ClientFits(l, Trusted(c))
          BY <2>3, <2>4, <2>5 DEF ClientFits
    <2>7. ~Waits(c)
          BY <1>3, <1>5 DEF Unaccepted, Rpc!Waiting
    <2>8. ConnectionFits(l, up[c], d, Trusted(c))
          BY <1>2, <2>6 DEF ConnectionFits
    <2>9. hungup' = [hungup EXCEPT ![c] = hungup[c]]
          BY <1>2, <2>2
    <2> QED BY <1>1, <2>2, <2>7, <2>8, <2>9, ClientMoves
  <1> QED BY <1>4, <1>5

\* A read that times out loses what came of a frame, and no more.
LEMMA TimesOutKeeps ==
    ASSUME RpcInv, NEW c \in Clients, Rpc!TimesOut(c)
    PROVE  RpcInv'
  <1>1. /\ down' = [down EXCEPT ![c] = <<>>] /\ Rpc!Fails(c) /\ client[c].pc \in Rpc!Waiting
        /\ UNCHANGED <<up, backlog, serving, trust, handling, writing>>
        BY DEF Rpc!TimesOut, Rpc!peerVars
  <1>2. PICK d : d = <<>>
        OBVIOUS
  <1>3. d \in Seq(Pieces(Trusted(c))) /\ down' = [down EXCEPT ![c] = d]
        BY <1>1, <1>2
  <1> QED BY <1>1, <1>2, <1>3, ClientFails

\* What is left when a reader has lost its place is made of the pieces there are.
LEMMA LeftFits ==
    ASSUME NEW trusted, NEW s \in Seq(Pieces(trusted)), s # <<>>, NEW after \in Rpc!Misreadings(s)
    PROVE  after \in Seq(Pieces(trusted))
  <1>1. Rpc!Rest \in Pieces(trusted)
        BY DEF Rpc!Rest, Pieces
  <1>2. Tail(s) \in Seq(Pieces(trusted))
        BY HeadTailProperties
  <1>3. ASSUME Len(s) > 1
        PROVE  /\ Tail(Tail(s)) \in Seq(Pieces(trusted))
               /\ <<Rpc!Rest>> \o Tail(Tail(s)) \in Seq(Pieces(trusted))
    <2>1. Len(Tail(s)) = Len(s) - 1 /\ Len(s) \in Nat
          BY HeadTailProperties, LenProperties
    <2>2. Tail(s) # <<>>
      <3>1. PICK t \in Seq(Pieces(trusted)) : t = Tail(s)
            BY <1>2
      <3>2. Len(t) # 0
            BY <1>3, <2>1, <3>1
      <3>3. t # <<>>
            BY <3>2
      <3> QED BY <3>1, <3>3
    <2>3. Tail(Tail(s)) \in Seq(Pieces(trusted))
          BY <1>2, <2>2, HeadTailProperties
    <2>4. <<Rpc!Rest>> \in Seq(Pieces(trusted))
          BY <1>1
    <2> QED BY <2>3, <2>4, ConcatProperties
  <1>4. ASSUME Len(s) > 1, after \in Rpc!Swallowed(s)
        PROVE  after \in Seq(Pieces(trusted))
        BY <1>2, <1>3, <1>4 DEF Rpc!Swallowed
  <1> QED BY <1>2, <1>4 DEF Rpc!Misreadings

\* A client that has lost its place takes nothing for an answer.
LEMMA MisreadKeeps ==
    ASSUME RpcInv, NEW c \in Clients, Rpc!Misread(c)
    PROVE  RpcInv'
  <1>1. /\ Rpc!Fails(c) /\ client[c].pc \in Rpc!Waiting /\ down[c] # <<>>
        /\ UNCHANGED <<up, backlog, serving, trust, handling, writing>>
        BY DEF Rpc!Misread, Rpc!peerVars
  <1>2. PICK d \in Rpc!Misreadings(down[c]) : down' = [down EXCEPT ![c] = d]
        BY DEF Rpc!Misread
  <1>3. d \in Seq(Pieces(Trusted(c)))
        BY <1>1, <1>2, ClientHolds, LeftFits
  <1>4. ~Waits(c)
        BY <1>1 DEF RpcInv, Unaccepted
  <1> QED BY <1>1, <1>2, <1>3, <1>4, ClientFails

\* A header that begins where one is read is that of an answer the agent gave.
LEMMA ReadHeaderKeeps ==
    ASSUME RpcInv, NEW c \in Clients, Rpc!ReadHeader(c)
    PROVE  RpcInv'
  <1> DEFINE h == Head(down[c])
  <1>1. /\ client[c].pc \in Rpc!Waiting /\ client[c].head = None
        /\ down[c] # <<>> /\ h.kind = "header"
        /\ down' = [down EXCEPT ![c] = Tail(down[c])]
        /\ UNCHANGED <<up, hungup, backlog, serving, trust, handling, writing>>
        BY ClientHolds DEF Rpc!ReadHeader, Rpc!peerVars
  <1>2. /\ h \in Pieces(Trusted(c)) /\ Tail(down[c]) \in Seq(Pieces(Trusted(c)))
        BY <1>1, ClientHolds, HeadTailProperties
  <1>3. ~Waits(c)
        BY <1>1 DEF RpcInv, Unaccepted
  <1>4. ClientFits(client[c], Trusted(c))
        BY ClientHolds
  <1>5. PICK l : l = IF h.type = "response" THEN [client[c] EXCEPT !.head = h]
                     ELSE IF client[c].pc = "pinging" THEN [client[c] EXCEPT !.pc = "ready"]
                     ELSE client[c]
        OBVIOUS
  <1>6. client' = [client EXCEPT ![c] = l]
        BY <1>5 DEF Rpc!ReadHeader
  <1>7. ClientFits(l, Trusted(c))
    <2>1. CASE h.type = "response"
      <3>1. h \in AnswerHeads(Trusted(c))
            BY <1>1, <1>2, <2>1 DEF Pieces
      <3>2. l = [client[c] EXCEPT !.head = h]
            BY <1>5, <2>1
      <3>3. l = [f \in RpcFields |-> l[f]] /\ l.head = h
            BY <1>4, <3>2 DEF ClientFits, RpcFields
      <3>4. l.pc = client[c].pc /\ l.seq = client[c].seq /\ l.got = client[c].got
            BY <1>4, <3>2 DEF ClientFits, RpcFields
      <3> HIDE DEF h
      <3> QED BY <1>1, <1>4, <3>1, <3>3, <3>4 DEF ClientFits
    <2>2. CASE h.type # "response" /\ client[c].pc = "pinging"
      <3>2. l = [client[c] EXCEPT !.pc = "ready"]
            BY <1>5, <2>2
      <3>3. l = [f \in RpcFields |-> l[f]] /\ l.pc = "ready"
            BY <1>4, <3>2 DEF ClientFits, RpcFields
      <3>4. l.head = client[c].head /\ l.seq = client[c].seq /\ l.got = client[c].got
            BY <1>4, <3>2 DEF ClientFits, RpcFields
      <3> QED BY <1>1, <1>4, <2>2, <3>3, <3>4 DEF ClientFits
    <2>3. CASE h.type # "response" /\ client[c].pc # "pinging"
          BY <1>4, <1>5, <2>3
    <2> QED BY <2>1, <2>2, <2>3
  <1>8. ConnectionFits(l, up[c], Tail(down[c]), Trusted(c))
        BY <1>2, <1>7, ClientHolds DEF ConnectionFits
  <1>9. up' = [up EXCEPT ![c] = up[c]] /\ hungup' = [hungup EXCEPT ![c] = hungup[c]]
        BY <1>1, ClientHolds
  <1> HIDE DEF h
  <1> QED BY <1>1, <1>3, <1>6, <1>8, <1>9, ClientMoves

\* Only a client whose agent trusts it asks for more than a handshake.
LEMMA CallKeeps ==
    ASSUME RpcInv, NEW c \in Clients, Rpc!Call(c)
    PROVE  RpcInv'
  <1>1. /\ client[c].pc = "ready"
        /\ UNCHANGED <<down, hungup, backlog, serving, trust, handling, writing>>
        BY DEF Rpc!Call, Rpc!peerVars
  <1>2. ~Waits(c)
        BY <1>1 DEF RpcInv, Unaccepted
  <1>3. ClientFits(client[c], Trusted(c))
        BY ClientHolds
  <1>4. Trusted(c) /\ client[c].seq >= 2 /\ client[c].seq \in Nat
        BY <1>1, <1>3 DEF ClientFits
  <1>5. PICK l, u : /\ client' = [client EXCEPT ![c] = l] /\ up' = [up EXCEPT ![c] = u]
                    /\ ClientFits(l, Trusted(c)) /\ u \in Seq(Frames(Trusted(c)))
    <2>1. CASE /\ Rpc!Put(c, [client[c] EXCEPT !.pc = "calling", !.seq = @ + 1, !.calls = @ + 1,
                                               !.got = None])
               /\ Rpc!Sends(c, Rpc!Request(client[c].seq + 1, "host", 0))
      <3>1. PICK l : l = [client[c] EXCEPT !.pc = "calling", !.seq = @ + 1, !.calls = @ + 1,
                                           !.got = None]
            OBVIOUS
      <3>2. l = [f \in RpcFields |-> l[f]] /\ l.pc = "calling" /\ l.got = None
            BY <1>3, <3>1 DEF ClientFits, RpcFields
      <3>3. l.head = client[c].head /\ l.seq = client[c].seq + 1
            BY <1>3, <3>1 DEF ClientFits, RpcFields
      <3>4. ClientFits(l, Trusted(c))
        <4>1. l.seq >= 3 /\ l.seq \in Nat
              BY <1>4, <3>3
        <4>2. l.head # None => l.head \in AnswerHeads(Trusted(c)) /\ l.pc \in Rpc!Waiting
              BY <1>3, <3>2, <3>3 DEF ClientFits, Rpc!Waiting
        <4>3. l.seq >= 2
              BY <4>1
        <4> QED BY <1>4, <3>2, <4>1, <4>2, <4>3, Zenon DEF ClientFits
      <3>5. PICK r : r = Rpc!Request(client[c].seq + 1, "host", 0)
            OBVIOUS
      <3>6. r \in Frames(Trusted(c))
            BY <1>4, <3>5 DEF Frames, Requests, Rpc!Request
      <3>7. Append(up[c], r) \in Seq(Frames(Trusted(c)))
            BY <3>6, ClientHolds, AppendProperties
      <3>8. up' = [up EXCEPT ![c] = Append(up[c], r)]
            BY <2>1, <3>5 DEF Rpc!Sends
      <3>9. client' = [client EXCEPT ![c] = l]
            BY <2>1, <3>1 DEF Rpc!Put
      <3> QED BY <3>4, <3>7, <3>8, <3>9
    <2>2. CASE /\ Rpc!Put(c, [client[c] EXCEPT !.pc = "pinging", !.calls = @ + 1, !.got = None])
               /\ Rpc!Sends(c, Rpc!Ping)
      <3>1. PICK l : l = [client[c] EXCEPT !.pc = "pinging", !.calls = @ + 1, !.got = None]
            OBVIOUS
      <3>2. l = [f \in RpcFields |-> l[f]] /\ l.pc = "pinging" /\ l.got = None
            BY <1>3, <3>1 DEF ClientFits, RpcFields
      <3>3. l.head = client[c].head /\ l.seq = client[c].seq
            BY <1>3, <3>1 DEF ClientFits, RpcFields
      <3>4. ClientFits(l, Trusted(c))
            BY <1>3, <1>4, <3>2, <3>3 DEF ClientFits, Rpc!Waiting
      <3>6. Rpc!Ping \in Frames(Trusted(c))
            BY DEF Frames, Rpc!Ping
      <3>7. Append(up[c], Rpc!Ping) \in Seq(Frames(Trusted(c)))
            BY <3>6, ClientHolds, AppendProperties
      <3>8. up' = [up EXCEPT ![c] = Append(up[c], Rpc!Ping)]
            BY <2>2 DEF Rpc!Sends
      <3>9. client' = [client EXCEPT ![c] = l]
            BY <2>2, <3>1 DEF Rpc!Put
      <3> QED BY <3>4, <3>7, <3>8, <3>9
    <2> QED BY <2>1, <2>2, Zenon DEF Rpc!Call
  <1>6. ConnectionFits(l, u, down[c], Trusted(c))
        BY <1>5, ClientHolds DEF ConnectionFits
  <1>7. down' = [down EXCEPT ![c] = down[c]] /\ hungup' = [hungup EXCEPT ![c] = hungup[c]]
        BY <1>1, ClientHolds
  <1> QED BY <1>1, <1>2, <1>5, <1>6, <1>7, ClientMoves

\* A client that is dropped is away, whatever is still on its way.
LEMMA DropKeeps ==
    ASSUME RpcInv, NEW c \in Clients, Rpc!Drop(c)
    PROVE  RpcInv'
  <1>1. /\ client[c].pc = "ready" /\ client' = [client EXCEPT ![c] = Rpc!Away]
        /\ hungup' = [hungup EXCEPT ![c] = @ \cup {"client"}]
        /\ UNCHANGED <<up, down, backlog, serving, trust, handling, writing>>
        BY DEF Rpc!Drop, Rpc!Put, Rpc!peerVars
  <1>2. PICK l, h : l = Rpc!Away /\ h = hungup[c] \cup {"client"}
        OBVIOUS
  <1>3. ~Waits(c)
        BY <1>1 DEF RpcInv, Unaccepted
  <1>4. ConnectionFits(l, up[c], down[c], Trusted(c))
        BY <1>2, AwayFits, ClientHolds DEF ConnectionFits
  <1>5. down' = [down EXCEPT ![c] = down[c]] /\ up' = [up EXCEPT ![c] = up[c]]
        BY <1>1, ClientHolds
  <1>6. client' = [client EXCEPT ![c] = l] /\ hungup' = [hungup EXCEPT ![c] = h]
        BY <1>1, <1>2
  <1>7. hungup[c] \subseteq h
        BY <1>2
  <1> QED BY <1>1, <1>3, <1>4, <1>5, <1>6, <1>7, ClientMoves

\* The handshake goes on, or is done with an agent that trusts the client; a call returns.
LEMMA ReadBodyKeeps ==
    ASSUME RpcInv, NEW c \in Clients, Rpc!ReadBody(c)
    PROVE  RpcInv'
  <1>1. /\ client[c].head # None /\ down[c] # <<>>
        /\ down' = [down EXCEPT ![c] = Tail(down[c])]
        /\ UNCHANGED <<backlog, serving, trust, handling, writing>>
        BY ClientHolds DEF Rpc!ReadBody, Rpc!peerVars
  <1>2. ~Waits(c)
        BY <1>1 DEF RpcInv, Unaccepted
  <1>3. ClientFits(client[c], Trusted(c))
        BY ClientHolds
  <1>4. Tail(down[c]) \in Seq(Pieces(Trusted(c)))
        BY <1>1, ClientHolds, HeadTailProperties
  <1>5. client[c].head \in AnswerHeads(Trusted(c)) /\ client[c].pc \in Rpc!Waiting
        BY <1>1, <1>3 DEF ClientFits
  <1>6. CASE Rpc!Fails(c) /\ UNCHANGED up
        BY <1>1, <1>2, <1>4, <1>5, <1>6, ClientFails
  <1>7. CASE Rpc!Own(c) /\ Rpc!Accepts(c) /\ Rpc!Goes(c) /\ UNCHANGED hungup
    <2>1. client[c].head.id = client[c].seq
          BY <1>7 DEF Rpc!Own
    <2>2. client[c].pc = "calling" \/ client[c].head.code = "ok"
          BY <1>7 DEF Rpc!Accepts
    <2>3. PICK l, u : /\ client' = [client EXCEPT ![c] = l] /\ up' = [up EXCEPT ![c] = u]
                      /\ ClientFits(l, Trusted(c)) /\ u \in Seq(Frames(Trusted(c)))
      <3>1. CASE /\ client[c].pc = "greeting"
                 /\ Rpc!Put(c, [client[c] EXCEPT !.pc = "proving", !.seq = 2, !.head = None])
                 /\ Rpc!Sends(c, Rpc!Request(2, "complete", client[c].head.id))
        <4>1. PICK l : l = [client[c] EXCEPT !.pc = "proving", !.seq = 2, !.head = None]
              OBVIOUS
        <4>2. l = [f \in RpcFields |-> l[f]] /\ l.pc = "proving" /\ l.seq = 2 /\ l.head = None
              BY <1>3, <4>1 DEF ClientFits, RpcFields
        <4>3. l.got = client[c].got
              BY <1>3, <4>1 DEF ClientFits, RpcFields
        <4>4. ClientFits(l, Trusted(c))
              BY <1>3, <4>2, <4>3 DEF ClientFits
        <4>5. PICK r : r = Rpc!Request(2, "complete", client[c].head.id)
              OBVIOUS
        <4>6. client[c].head.id \in Nat
              BY <1>5 DEF AnswerHeads
        <4>7. r \in Frames(Trusted(c))
              BY <4>5, <4>6 DEF Frames, Requests, Rpc!Request
        <4>8. Append(up[c], r) \in Seq(Frames(Trusted(c)))
              BY <4>7, ClientHolds, AppendProperties
        <4>9. up' = [up EXCEPT ![c] = Append(up[c], r)]
              BY <3>1, <4>5 DEF Rpc!Sends
        <4>10. client' = [client EXCEPT ![c] = l]
              BY <3>1, <4>1 DEF Rpc!Put
        <4> QED BY <4>4, <4>8, <4>9, <4>10
      <3>2. CASE /\ client[c].pc = "proving"
                 /\ Rpc!Put(c, [client[c] EXCEPT !.pc = "ready", !.head = None])
                 /\ UNCHANGED up
        <4>1. PICK l : l = [client[c] EXCEPT !.pc = "ready", !.head = None]
              OBVIOUS
        <4>2. l = [f \in RpcFields |-> l[f]] /\ l.pc = "ready" /\ l.head = None
              BY <1>3, <4>1 DEF ClientFits, RpcFields
        <4>3. l.got = client[c].got /\ l.seq = client[c].seq
              BY <1>3, <4>1 DEF ClientFits, RpcFields
        <4>4. client[c].head.id = 2 /\ client[c].head.code = "ok"
              BY <1>3, <2>1, <2>2, <3>2 DEF ClientFits
        <4>5. Trusted(c)
              BY <1>5, <4>4, HandshakeDone
        <4>6. l.seq = 2 /\ (l.got # None => l.got.of = l.got.given /\ l.got.code = "ok")
              BY <1>3, <3>2, <4>3 DEF ClientFits
        <4>7. ClientFits(l, Trusted(c))
          <5>1. l.seq \in Nat /\ l.seq >= 2
                BY <4>6
          <5> QED BY <4>2, <4>5, <4>6, <5>1, Zenon DEF ClientFits
        <4>8. client' = [client EXCEPT ![c] = l]
              BY <3>2, <4>1 DEF Rpc!Put
        <4>9. up' = [up EXCEPT ![c] = up[c]]
              BY <3>2, ClientHolds
        <4> QED BY <4>7, <4>8, <4>9, ClientHolds
      <3>3. CASE /\ client[c].pc = "calling"
                 /\ Rpc!Put(c, [client[c] EXCEPT !.pc = "ready", !.head = None,
                                   !.got = [given |-> client[c].seq, of |-> client[c].head.id,
                                            code |-> client[c].head.code]])
                 /\ UNCHANGED up
        <4>1. PICK g : g = [given |-> client[c].seq, of |-> client[c].head.id,
                            code |-> client[c].head.code]
              OBVIOUS
        <4>2. PICK l : l = [client[c] EXCEPT !.pc = "ready", !.head = None, !.got = g]
              OBVIOUS
        <4>3. l = [f \in RpcFields |-> l[f]] /\ l.pc = "ready" /\ l.head = None
              BY <1>3, <4>2 DEF ClientFits, RpcFields
        <4>4. l.got = g /\ l.seq = client[c].seq
              BY <1>3, <4>2 DEF ClientFits, RpcFields
        <4>5. client[c].seq >= 3 /\ client[c].seq \in Nat /\ Trusted(c)
              BY <1>3, <3>3 DEF ClientFits
        <4>6. client[c].head.code = "ok"
              BY <1>5, <2>1, <4>5 DEF AnswerHeads
        <4>7. g.of = g.given /\ g.code = "ok"
              BY <2>1, <4>1, <4>6
        <4>8. l.seq >= 2 /\ l.seq \in Nat
              BY <4>4, <4>5
        <4>9. ClientFits(l, Trusted(c))
              BY <4>3, <4>4, <4>5, <4>7, <4>8 DEF ClientFits
        <4>10. client' = [client EXCEPT ![c] = l]
              BY <3>3, <4>1, <4>2 DEF Rpc!Put
        <4>11. up' = [up EXCEPT ![c] = up[c]]
              BY <3>3, ClientHolds
        <4> QED BY <4>9, <4>10, <4>11, ClientHolds
      <3> QED BY <1>7, <3>1, <3>2, <3>3, Zenon DEF Rpc!Goes
    <2>4. ConnectionFits(l, u, Tail(down[c]), Trusted(c))
          BY <1>4, <2>3 DEF ConnectionFits
    <2>5. hungup' = [hungup EXCEPT ![c] = hungup[c]]
          BY <1>7, ClientHolds
    <2> QED BY <1>1, <1>2, <2>3, <2>4, <2>5, ClientMoves
  <1> QED BY <1>6, <1>7, Zenon DEF Rpc!ReadBody

\* A client that comes waits in the backlog with an empty connection.
LEMMA ConnectKeeps ==
    ASSUME RpcInv, NEW c \in Clients, Rpc!Connect(c)
    PROVE  RpcInv'
  <1> USE RpcAssumption
  <1>1. /\ serving # c /\ \A i \in DOMAIN backlog : backlog[i] # c
        /\ client' = [client EXCEPT ![c] = [Rpc!Away EXCEPT !.pc = "greeting", !.seq = 1]]
        /\ up' = [up EXCEPT ![c] = <<Rpc!Request(1, "begin", 0)>>]
        /\ down' = [down EXCEPT ![c] = <<>>]
        /\ hungup' = [hungup EXCEPT ![c] = {}]
        /\ backlog' = Append(backlog, c)
        /\ UNCHANGED <<serving, trust, handling, writing>>
        BY DEF Rpc!Connect, Rpc!Put, Rpc!peerVars
  <1>2. RpcShape /\ ServerFits /\ BacklogFits
        BY DEF RpcInv
  <1>3. RpcShape'
        BY <1>1, <1>2 DEF RpcShape
  <1>4. ServerFits' /\ \A b \in Clients : (Trusted(b))' = Trusted(b)
        BY <1>1, <1>2 DEF ServerFits, Trusted
  <1>5. /\ backlog' \in Seq(Clients) /\ DOMAIN backlog = 1 .. Len(backlog) /\ Len(backlog) \in Nat
        /\ DOMAIN backlog' = 1 .. Len(backlog) + 1
        /\ \A i \in 1 .. Len(backlog) : backlog'[i] = backlog[i]
        /\ backlog'[Len(backlog) + 1] = c
    <2>1. backlog \in Seq(Clients)
          BY <1>2 DEF BacklogFits
    <2> QED BY <1>1, <2>1
  <1>6. \A b : (Waits(b))' <=> Waits(b) \/ b = c
        BY <1>5 DEF Waits
  <1>7. BacklogFits'
    <2>1. ASSUME NEW i \in 1 .. Len(backlog) + 1, NEW j \in 1 .. Len(backlog) + 1,
                 backlog'[i] = backlog'[j]
          PROVE  i = j
      <3>1. CASE i \in 1 .. Len(backlog) /\ j \in 1 .. Len(backlog)
            BY <1>2, <1>5, <2>1, <3>1 DEF BacklogFits
      <3>2. CASE i = Len(backlog) + 1 \/ j = Len(backlog) + 1
            BY <1>1, <1>5, <2>1, <3>2
      <3> QED BY <1>5, <3>1, <3>2
    <2>2. ~(Waits(serving))'
          BY <1>1, <1>2, <1>6 DEF BacklogFits, Waits
    <2> QED BY <1>5, <2>1, <2>2 DEF BacklogFits
  <1>8. PICK l, u, d : /\ l = [Rpc!Away EXCEPT !.pc = "greeting", !.seq = 1]
                       /\ u = <<Rpc!Request(1, "begin", 0)>> /\ d = <<>>
        OBVIOUS
  <1>9. Unaccepted(l, u, d) /\ ConnectionFits(l, u, d, Trusted(c))
    <2>1. /\ l = [f \in RpcFields |-> l[f]]
          /\ l.pc = "greeting" /\ l.seq = 1 /\ l.head = None /\ l.got = None
          BY <1>8 DEF Rpc!Away, RpcFields
    <2>2. ClientFits(l, Trusted(c))
          BY <2>1 DEF ClientFits
    <2>3. PICK r : r = Rpc!Request(1, "begin", 0)
          OBVIOUS
    <2>4. r \in Frames(Trusted(c))
          BY <2>3 DEF Frames, Requests, Rpc!Request
    <2>5. u \in Seq(Frames(Trusted(c)))
          BY <1>8, <2>3, <2>4
    <2>6. d \in Seq(Pieces(Trusted(c)))
          BY <1>8
    <2> QED BY <1>8, <2>1, <2>2, <2>5, <2>6 DEF Unaccepted, ConnectionFits
  <1>10. ASSUME NEW b \in Clients
         PROVE  /\ (ConnectionFits(client[b], up[b], down[b], Trusted(b)))'
                /\ (Waits(b) => Unaccepted(client[b], up[b], down[b]))'
                /\ ("agent" \notin hungup[b] => serving = b \/ Waits(b))'
    <2>1. CASE b = c
      <3>1. client'[b] = l /\ up'[b] = u /\ down'[b] = d
            BY <1>1, <1>2, <1>8, <2>1 DEF RpcShape
      <3> QED BY <1>4, <1>6, <1>9, <2>1, <3>1
    <2>2. CASE b # c
      <3>1. /\ client'[b] = client[b] /\ up'[b] = up[b] /\ down'[b] = down[b]
            /\ hungup'[b] = hungup[b] /\ serving' = serving
            BY <1>1, <1>2, <2>2 DEF RpcShape
      <3>2. /\ ConnectionFits(client[b], up[b], down[b], Trusted(b))
            /\ Waits(b) => Unaccepted(client[b], up[b], down[b])
            /\ "agent" \notin hungup[b] => serving = b \/ Waits(b)
            BY DEF RpcInv
      <3> QED BY <1>4, <1>6, <2>2, <3>1, <3>2
    <2> QED BY <2>1, <2>2
  <1> QED BY <1>3, <1>4, <1>7, <1>10 DEF RpcInv

\* A step of the server changes no connection but the one it serves.
LEMMA ServerMoves ==
    ASSUME RpcInv, NEW s \in Clients, NEW u, NEW d, NEW h, NEW t,
           serving = s, serving' \in {s, None}, UNCHANGED <<client, backlog>>,
           up' = [up EXCEPT ![s] = u], down' = [down EXCEPT ![s] = d],
           hungup' = [hungup EXCEPT ![s] = h], ServerFits',
           (Trusted(s))' = t, ConnectionFits(client[s], u, d, t),
           hungup[s] \subseteq h, serving' = None => "agent" \in h
    PROVE  RpcInv'
  <1> USE RpcAssumption
  <1>1. RpcShape /\ BacklogFits
        BY DEF RpcInv
  <1>2. RpcShape'
        BY <1>1 DEF RpcShape
  <1>3. \A b : (Waits(b))' <=> Waits(b)
        BY DEF Waits
  <1>4. ~Waits(None)
        BY <1>1 DEF BacklogFits, Waits
  <1>5. BacklogFits'
    <2>1. ~(Waits(serving))'
          BY <1>1, <1>4 DEF BacklogFits, Waits
    <2> QED BY <1>1, <2>1 DEF BacklogFits
  <1>6. ASSUME NEW b \in Clients
        PROVE  /\ (ConnectionFits(client[b], up[b], down[b], Trusted(b)))'
               /\ (Waits(b) => Unaccepted(client[b], up[b], down[b]))'
               /\ ("agent" \notin hungup[b] => serving = b \/ Waits(b))'
    <2>1. CASE b = s
      <3>1. /\ client'[b] = client[s] /\ up'[b] = u /\ down'[b] = d /\ hungup'[b] = h
            /\ (Trusted(b))' = t
            BY <1>1, <2>1 DEF RpcShape
      <3>2. ~Waits(b)
            BY <1>1, <2>1 DEF BacklogFits
      <3>3. serving' = b \/ "agent" \in h
            BY <2>1
      <3> QED BY <1>3, <2>1, <3>1, <3>2, <3>3
    <2>2. CASE b # s
      <3>1. /\ client'[b] = client[b] /\ up'[b] = up[b] /\ down'[b] = down[b]
            /\ hungup'[b] = hungup[b]
            BY <1>1, <2>2 DEF RpcShape
      <3>2. /\ ConnectionFits(client[b], up[b], down[b], Trusted(b))
            /\ Waits(b) => Unaccepted(client[b], up[b], down[b])
            /\ "agent" \notin hungup[b] => serving = b \/ Waits(b)
            BY DEF RpcInv
      <3>3. (Trusted(b))' = Trusted(b) /\ serving # b
            BY <2>2 DEF Trusted
      <3> QED BY <1>3, <3>1, <3>2, <3>3
    <2> QED BY <2>1, <2>2
  <1> QED BY <1>2, <1>5, <1>6 DEF RpcInv

\* The connection that is served is trusted when the agent says so.
LEMMA ServedConnection ==
    ASSUME RpcInv, serving # None
    PROVE  /\ serving \in Clients /\ trust.authenticated \in BOOLEAN
           /\ Trusted(serving) = trust.authenticated
           /\ ConnectionFits(client[serving], up[serving], down[serving], trust.authenticated)
           /\ up[serving] \in Seq(Frames(trust.authenticated))
           /\ down[serving] \in Seq(Pieces(trust.authenticated))
           /\ writing \in Seq(Pieces(trust.authenticated))
           /\ up = [up EXCEPT ![serving] = up[serving]]
           /\ down = [down EXCEPT ![serving] = down[serving]]
           /\ hungup = [hungup EXCEPT ![serving] = hungup[serving]]
  <1>1. serving \in Clients /\ trust.authenticated \in BOOLEAN
        BY DEF RpcInv, ServerFits
  <1>2. Trusted(serving) = trust.authenticated
        BY <1>1 DEF Trusted
  <1>3. ConnectionFits(client[serving], up[serving], down[serving], Trusted(serving))
        BY <1>1 DEF RpcInv
  <1>4. ConnectionFits(client[serving], up[serving], down[serving], trust.authenticated)
        BY <1>2, <1>3
  <1>5. /\ up = [up EXCEPT ![serving] = up[serving]]
        /\ down = [down EXCEPT ![serving] = down[serving]]
        /\ hungup = [hungup EXCEPT ![serving] = hungup[serving]]
        BY <1>1, ClientHolds
  <1>6. writing \in Seq(Pieces(trust.authenticated))
        BY DEF RpcInv, ServerFits
  <1> QED BY <1>1, <1>2, <1>4, <1>5, <1>6 DEF ConnectionFits

\* A connection that the agent hangs up on is nobody's to be wary of.
LEMMA EndKeeps ==
    ASSUME RpcInv, serving # None, Rpc!EndConnection
    PROVE  RpcInv'
  <1> USE RpcAssumption
  <1>1. PICK s \in Clients : s = serving
        BY ServedConnection
  <1>2. PICK h : h = hungup[s] \cup {"agent"}
        OBVIOUS
  <1>3. /\ hungup' = [hungup EXCEPT ![s] = h] /\ serving' = None /\ trust' = Rpc!NoTrust
        /\ handling' = None /\ writing' = <<>>
        /\ UNCHANGED <<client, up, down, backlog>>
        BY <1>1, <1>2 DEF Rpc!EndConnection
  <1>4. ServerFits'
    <2>1. PICK n : n = Rpc!NoTrust
          OBVIOUS
    <2>2. n = [f \in {"authenticated", "pending"} |-> n[f]] /\ n.authenticated = FALSE
          BY <2>1 DEF Rpc!NoTrust
    <2>3. trust' = n
          BY <1>3, <2>1
    <2>4. <<>> \in Seq(Pieces(FALSE))
          OBVIOUS
    <2> QED BY <1>3, <2>2, <2>3, <2>4 DEF ServerFits
  <1>5. (Trusted(s))' = TRUE
        BY <1>3 DEF Trusted
  <1>6. ConnectionFits(client[s], up[s], down[s], TRUE)
        BY <1>1, ServedConnection, MoreTrust
  <1>7. up' = [up EXCEPT ![s] = up[s]] /\ down' = [down EXCEPT ![s] = down[s]]
        BY <1>1, <1>3, ServedConnection
  <1>8. hungup[s] \subseteq h /\ "agent" \in h /\ serving' \in {s, None} /\ serving = s
        BY <1>1, <1>2, <1>3
  <1> QED BY <1>3, <1>4, <1>5, <1>6, <1>7, <1>8, ServerMoves, Zenon

\* The connection that is accepted next has asked for nothing but a handshake.
LEMMA AcceptKeeps ==
    ASSUME RpcInv, Rpc!Accept
    PROVE  RpcInv'
  <1> USE RpcAssumption
  <1>1. RpcShape /\ ServerFits /\ BacklogFits
        BY DEF RpcInv
  <1>2. /\ serving = None /\ backlog # <<>> /\ backlog' = Tail(backlog) /\ trust' = Rpc!NoTrust
        /\ serving' = Head(backlog)
        /\ UNCHANGED <<client, up, down, hungup, handling, writing>>
        BY DEF Rpc!Accept
  <1>3. /\ backlog \in Seq(Clients) /\ Len(backlog) \in Nat \ {0}
        /\ DOMAIN backlog = 1 .. Len(backlog) /\ DOMAIN backlog' = 1 .. (Len(backlog) - 1)
        /\ \A i \in 1 .. (Len(backlog) - 1) : backlog'[i] = backlog[i + 1]
        /\ serving' = backlog[1] /\ backlog' \in Seq(Clients) /\ serving' \in Clients
        BY <1>1, <1>2 DEF BacklogFits
  <1>4. Waits(serving') /\ ~(Waits(serving))'
    <2>1. 1 \in DOMAIN backlog
          BY <1>3
    <2>2. \A i \in 1 .. (Len(backlog) - 1) : backlog[i + 1] # backlog[1]
          BY <1>1, <1>3 DEF BacklogFits
    <2> QED BY <1>3, <2>1, <2>2 DEF Waits
  <1>5. \A b : (Waits(b))' => Waits(b)
        BY <1>3 DEF Waits
  <1>6. \A b : Waits(b) /\ b # serving' => (Waits(b))'
    <2>1. ASSUME NEW b, NEW i \in 1 .. Len(backlog), backlog[i] = b, b # serving'
          PROVE  i - 1 \in 1 .. (Len(backlog) - 1) /\ backlog'[i - 1] = b
          BY <1>3, <2>1
    <2> QED BY <1>3, <2>1 DEF Waits
  <1>7. RpcShape' /\ BacklogFits'
    <2>1. \A i, j \in 1 .. (Len(backlog) - 1) : backlog[i + 1] = backlog[j + 1] => i = j
          BY <1>1, <1>3 DEF BacklogFits
    <2>2. \A i, j \in DOMAIN backlog' : backlog'[i] = backlog'[j] => i = j
          BY <1>3, <2>1
    <2> QED BY <1>1, <1>2, <1>3, <1>4, <2>2 DEF RpcShape, BacklogFits
  <1>8. ServerFits' /\ trust'.authenticated = FALSE
    <2>1. PICK n : n = Rpc!NoTrust
          OBVIOUS
    <2>2. n = [f \in {"authenticated", "pending"} |-> n[f]] /\ n.authenticated = FALSE
          BY <2>1 DEF Rpc!NoTrust
    <2>3. trust' = n
          BY <1>2, <2>1
    <2>4. handling' = None /\ writing' = <<>> /\ <<>> \in Seq(Pieces(FALSE))
          BY <1>1, <1>2 DEF ServerFits
    <2> QED BY <1>3, <2>2, <2>3, <2>4 DEF ServerFits
  <1>9. ASSUME NEW b \in Clients
        PROVE  /\ (ConnectionFits(client[b], up[b], down[b], Trusted(b)))'
               /\ (Waits(b) => Unaccepted(client[b], up[b], down[b]))'
               /\ ("agent" \notin hungup[b] => serving = b \/ Waits(b))'
    <2>1. /\ ConnectionFits(client[b], up[b], down[b], Trusted(b))
          /\ Waits(b) => Unaccepted(client[b], up[b], down[b])
          /\ "agent" \notin hungup[b] => serving = b \/ Waits(b)
          BY DEF RpcInv
    <2>2. CASE b = serving'
      <3>1. (Trusted(b))' = FALSE
            BY <1>8, <2>2 DEF Trusted
      <3>2. Unaccepted(client[b], up[b], down[b])
            BY <1>4, <2>1, <2>2
      <3>3. ClientFits(client[b], FALSE)
        <4>1. ClientFits(client[b], Trusted(b))
              BY <2>1 DEF ConnectionFits
        <4>2. client[b].pc \in {"greeting", "away"} /\ client[b].head = None
              BY <3>2 DEF Unaccepted
        <4> QED BY <4>1, <4>2 DEF ClientFits
      <3>4. up[b] \in Seq(Frames(FALSE)) /\ down[b] \in Seq(Pieces(FALSE))
        <4>1. PICK r : r = Rpc!Request(1, "begin", 0)
              OBVIOUS
        <4>2. r \in Frames(FALSE)
              BY <4>1 DEF Frames, Requests, Rpc!Request
        <4>3. up[b] = <<r>> /\ down[b] = <<>>
              BY <3>2, <4>1, Zenon DEF Unaccepted
        <4>4. up[b] \in Seq(Frames(FALSE))
              BY <4>2, <4>3, OneIsASeq, Zenon
        <4>5. down[b] \in Seq(Pieces(FALSE))
              BY <4>3
        <4> QED BY <4>4, <4>5
      <3>5. ConnectionFits(client[b], up[b], down[b], FALSE)
            BY <3>3, <3>4 DEF ConnectionFits
      <3>6. (ConnectionFits(client[b], up[b], down[b], Trusted(b)))'
            BY <1>2, <3>1, <3>5
      <3> QED BY <1>2, <1>5, <2>1, <2>2, <3>6
    <2>3. CASE b # serving'
      <3>1. (Trusted(b))' = Trusted(b)
            BY <1>2, <2>3 DEF Trusted
      <3>2. serving # b
            BY <1>2
      <3> QED BY <1>2, <1>5, <1>6, <2>1, <2>3, <3>1, <3>2
    <2> QED BY <2>2, <2>3
  <1> QED BY <1>7, <1>8, <1>9 DEF RpcInv

\* A frame that is taken leaves the rest of them.
LEMMA TakeMoves ==
    ASSUME RpcInv, NEW s \in Clients, serving = s, serving # None,
           up' = [up EXCEPT ![s] = Tail(up[s])],
           Tail(up[s]) \in Seq(Frames(trust.authenticated)), ServerFits',
           UNCHANGED <<client, down, hungup, backlog, serving, trust>>
    PROVE  RpcInv'
  <1>1. (Trusted(s))' = trust.authenticated
        BY ServedConnection DEF Trusted
  <1>2. ConnectionFits(client[s], Tail(up[s]), down[s], trust.authenticated)
        BY ServedConnection DEF ConnectionFits
  <1>3. down' = [down EXCEPT ![s] = down[s]] /\ hungup' = [hungup EXCEPT ![s] = hungup[s]]
        BY ServedConnection
  <1>4. serving' \in {s, None} /\ serving' # None /\ UNCHANGED <<client, backlog>>
        OBVIOUS
  <1> QED BY <1>1, <1>2, <1>3, <1>4, ServerMoves, Zenon

\* What the server works on is a request of the connection it serves.
LEMMA TakeKeeps ==
    ASSUME RpcInv, Rpc!Take
    PROVE  RpcInv'
  <1> USE RpcAssumption
  <1>1. /\ serving # None /\ handling = None /\ writing = <<>> /\ up[serving] # <<>>
        /\ up' = [up EXCEPT ![serving] = Tail(up[serving])]
        /\ UNCHANGED <<client, down, hungup, backlog, serving, trust>>
        BY ServedConnection DEF Rpc!Take, Rpc!Reads
  <1>2. PICK s \in Clients : s = serving
        BY <1>1, ServedConnection
  <1>f. PICK f : f = Head(up[s])
        OBVIOUS
  <1>3. f \in Frames(trust.authenticated) /\ Tail(up[s]) \in Seq(Frames(trust.authenticated))
        BY <1>1, <1>2, <1>f, ServedConnection, HeadTailProperties
  <1>4. ServerFits
        BY DEF RpcInv
  <1>5. CASE f = Rpc!Ping
    <2>1. PICK h : h = Rpc!Header("pong", 0, "ok")
          OBVIOUS
    <2>2. h \in Pieces(trust.authenticated)
          BY <2>1 DEF Pieces, Rpc!Header
    <2>3. writing' = <<h>> /\ handling' = None
          BY <1>1, <1>2, <1>f, <1>5, <2>1 DEF Rpc!Take
    <2>4. writing' \in Seq(Pieces(trust.authenticated))
          BY <2>2, <2>3
    <2>5. ServerFits'
          BY <1>1, <1>4, <2>3, <2>4 DEF ServerFits
    <2> QED BY <1>1, <1>2, <1>3, <2>5, TakeMoves
  <1>6. CASE f # Rpc!Ping
    <2>1. handling' = f /\ writing' = <<>>
          BY <1>1, <1>2, <1>f, <1>6 DEF Rpc!Take
    <2>2. f \in Requests(trust.authenticated)
          BY <1>3, <1>6 DEF Frames, Rpc!Ping
    <2>3. ServerFits'
          BY <1>1, <1>4, <2>1, <2>2 DEF ServerFits
    <2> QED BY <1>1, <1>2, <1>3, <2>3, TakeMoves
  <1> QED BY <1>5, <1>6

\* What the agent answers: a handshake as it allows, and a call that it trusts with "ok".
LEMMA AnswerKeeps ==
    ASSUME RpcInv, Rpc!Answer
    PROVE  RpcInv'
  <1> USE RpcAssumption
  <1>1. ServerFits
        BY DEF RpcInv
  <1>2. /\ handling # None /\ handling' = None /\ trust' = Rpc!TrustAfter(handling)
        /\ writing' = <<Rpc!Header("response", handling.id, Rpc!Code(handling)), Rpc!Body>>
        /\ UNCHANGED <<client, up, down, hungup, backlog, serving>>
        BY DEF Rpc!Answer
  <1>3. serving # None
        BY <1>1, <1>2 DEF ServerFits
  <1>4. handling \in Requests(trust.authenticated) /\ trust.authenticated \in BOOLEAN
        BY <1>1, <1>2 DEF ServerFits
  <1>5. PICK t : t = Rpc!TrustAfter(handling)
        OBVIOUS
  <1>6. t = [f \in {"authenticated", "pending"} |-> t[f]] /\ t.authenticated \in BOOLEAN
        BY <1>1, <1>4, <1>5 DEF ServerFits, Rpc!TrustAfter
  <1>7. trust.authenticated => t.authenticated
        BY <1>1, <1>4, <1>5 DEF ServerFits, Rpc!TrustAfter
  <1>8. PICK h : h = Rpc!Header("response", handling.id, Rpc!Code(handling))
        OBVIOUS
  <1>9. /\ h = [kind |-> "header", type |-> "response", id |-> handling.id, code |-> h.code]
        /\ h.code = IF handling.method = "begin" \/ t.authenticated THEN "ok" ELSE "UNAUTHORIZED"
        BY <1>5, <1>8 DEF Rpc!Header, Rpc!Code
  <1>10. /\ handling.id \in Nat
         /\ handling.method = "begin" => handling.id = 1
         /\ handling.method = "complete" => handling.id = 2
         /\ handling.method = "host" => handling.id >= 3 /\ trust.authenticated
         /\ handling.method \in {"begin", "complete", "host"}
         BY <1>4 DEF Requests
  <1>11. h \in AnswerHeads(t.authenticated)
    <2>1. h.id = handling.id /\ h.code \in Codes
          BY <1>9 DEF Codes
    <2>2. h \in [kind : {"header"}, type : {"response"}, id : Nat, code : Codes]
          BY <1>9, <1>10, <2>1
    <2>3. h.id >= 3 => h.code = "ok"
          BY <1>7, <1>9, <1>10, <2>1
    <2>4. ~t.authenticated /\ h.code = "ok" => h.id < 2
          BY <1>7, <1>9, <1>10, <2>1
    <2> QED BY <2>2, <2>3, <2>4 DEF AnswerHeads
  <1>12. h \in Pieces(t.authenticated) /\ Rpc!Body \in Pieces(t.authenticated)
         BY <1>11 DEF Pieces, Rpc!Body
  <1>13. writing' = <<h, Rpc!Body>> /\ trust' = t
         BY <1>2, <1>5, <1>8
  <1>14. writing' \in Seq(Pieces(t.authenticated))
         BY <1>12, <1>13
  <1>15. ServerFits'
         BY <1>1, <1>2, <1>3, <1>6, <1>13, <1>14 DEF ServerFits
  <1>16. PICK s \in Clients : s = serving
         BY <1>3, ServedConnection
  <1>17. (Trusted(s))' = t.authenticated
         BY <1>2, <1>6, <1>13, <1>16 DEF Trusted
  <1>18. ConnectionFits(client[s], up[s], down[s], t.authenticated)
    <2>1. ConnectionFits(client[s], up[s], down[s], trust.authenticated)
          BY <1>3, <1>16, ServedConnection
    <2>2. CASE t.authenticated = trust.authenticated
          BY <2>1, <2>2
    <2>3. CASE trust.authenticated = FALSE /\ t.authenticated = TRUE
          BY <2>1, <2>3, MoreTrust
    <2> QED BY <1>4, <1>6, <1>7, <2>2, <2>3
  <1>19. /\ up' = [up EXCEPT ![s] = up[s]] /\ down' = [down EXCEPT ![s] = down[s]]
         /\ hungup' = [hungup EXCEPT ![s] = hungup[s]]
         BY <1>2, <1>3, <1>16, ServedConnection
  <1>20. serving = s /\ serving' \in {s, None} /\ serving' # None /\ UNCHANGED <<client, backlog>>
         BY <1>2, <1>3, <1>16
  <1> QED BY <1>15, <1>17, <1>18, <1>19, <1>20, ServerMoves, Zenon

\* What the server writes goes to the connection it serves.
LEMMA WriteKeeps ==
    ASSUME RpcInv, Rpc!Write
    PROVE  RpcInv'
  <1> USE RpcAssumption
  <1>1. ServerFits
        BY DEF RpcInv
  <1>2. serving # None
        BY <1>1 DEF ServerFits, Rpc!Write
  <1>3. /\ writing # <<>> /\ writing' = Tail(writing)
        /\ down' = [down EXCEPT ![serving] = Append(down[serving], Head(writing))]
        /\ UNCHANGED <<client, up, hungup, backlog, serving, trust, handling>>
        BY <1>2, ServedConnection DEF Rpc!Write
  <1>4. PICK s \in Clients : s = serving
        BY <1>2, ServedConnection
  <1>5. /\ Head(writing) \in Pieces(trust.authenticated)
        /\ Tail(writing) \in Seq(Pieces(trust.authenticated))
        BY <1>2, <1>3, ServedConnection, HeadTailProperties
  <1>6. PICK d : d = Append(down[s], Head(writing))
        OBVIOUS
  <1>7. d \in Seq(Pieces(trust.authenticated))
        BY <1>2, <1>4, <1>5, <1>6, ServedConnection, AppendProperties
  <1>8. ServerFits'
        BY <1>1, <1>2, <1>3, <1>5 DEF ServerFits
  <1>9. (Trusted(s))' = trust.authenticated
        BY <1>2, <1>3, <1>4, ServedConnection DEF Trusted
  <1>10. ConnectionFits(client[s], up[s], d, trust.authenticated)
         BY <1>2, <1>4, <1>7, ServedConnection DEF ConnectionFits
  <1>11. /\ up' = [up EXCEPT ![s] = up[s]] /\ down' = [down EXCEPT ![s] = d]
         /\ hungup' = [hungup EXCEPT ![s] = hungup[s]]
         BY <1>2, <1>3, <1>4, <1>6, ServedConnection
  <1>12. serving = s /\ serving' \in {s, None} /\ serving' # None /\ UNCHANGED <<client, backlog>>
         BY <1>2, <1>3, <1>4
  <1> QED BY <1>8, <1>9, <1>10, <1>11, <1>12, ServerMoves, Zenon

\* The invariant of the local connection.
THEOREM RpcSafe == Rpc!Spec => []RpcInv
  <1>1. ASSUME Rpc!Init PROVE RpcInv
    <2> USE RpcAssumption
    <2>1. /\ client = [c \in Clients |-> Rpc!Away]
          /\ up = [c \in Clients |-> <<>>] /\ down = [c \in Clients |-> <<>>]
          /\ hungup = [c \in Clients |-> {"client", "agent"}]
          /\ backlog = <<>> /\ serving = None /\ trust = Rpc!NoTrust
          /\ handling = None /\ writing = <<>>
          BY <1>1 DEF Rpc!Init
    <2>2. RpcShape
      <3>1. PICK l : l = Rpc!Away
            OBVIOUS
      <3> QED BY <2>1, <3>1 DEF RpcShape
    <2>3. ServerFits
      <3>1. PICK n : n = Rpc!NoTrust
            OBVIOUS
      <3>2. n = [f \in {"authenticated", "pending"} |-> n[f]] /\ n.authenticated = FALSE
            BY <3>1 DEF Rpc!NoTrust
      <3>3. trust = n
            BY <2>1, <3>1
      <3>4. writing = <<>> /\ writing \in Seq(Pieces(trust.authenticated))
            BY <2>1
      <3>5. serving = None /\ handling = None
            BY <2>1
      <3> QED BY <3>2, <3>3, <3>4, <3>5 DEF ServerFits
    <2>4. BacklogFits /\ \A b : ~Waits(b)
          BY <2>1 DEF BacklogFits, Waits
    <2>5. ASSUME NEW c \in Clients
          PROVE  ConnectionFits(client[c], up[c], down[c], Trusted(c)) /\ "agent" \in hungup[c]
      <3>1. client[c] = Rpc!Away
            BY <2>1
      <3>2. ClientFits(client[c], Trusted(c))
            BY <3>1, AwayFits
      <3>3. up[c] = <<>> /\ down[c] = <<>> /\ "agent" \in hungup[c]
            BY <2>1
      <3>4. up[c] \in Seq(Frames(Trusted(c))) /\ down[c] \in Seq(Pieces(Trusted(c)))
            BY <3>3
      <3> QED BY <3>2, <3>3, <3>4 DEF ConnectionFits
    <2> QED BY <2>2, <2>3, <2>4, <2>5 DEF RpcInv
  <1>2. ASSUME RpcInv, [Rpc!Next]_Rpc!vars PROVE RpcInv'
    <2>1. CASE UNCHANGED Rpc!vars
      <3>1. /\ UNCHANGED <<client, up, down, hungup, backlog>>
            /\ UNCHANGED <<serving, trust, handling, writing>>
            BY <2>1 DEF Rpc!vars, Rpc!peerVars
      <3>2. RpcShape' /\ ServerFits' /\ BacklogFits' /\ \A b : (Waits(b))' = Waits(b)
            BY <1>2, <3>1 DEF RpcInv, RpcShape, ServerFits, BacklogFits, Waits
      <3>3. \A b : (Trusted(b))' = Trusted(b)
            BY <3>1 DEF Trusted
      <3> QED BY <1>2, <3>1, <3>2, <3>3 DEF RpcInv
    <2>2. ASSUME NEW c \in Clients, Rpc!Client(c)
          PROVE  RpcInv'
          BY <1>2, <2>2, ConnectKeeps, CallKeeps, DropKeeps, TimesOutKeeps, MisreadKeeps,
             ReadHeaderKeeps, ReadBodyKeeps, Zenon DEF Rpc!Client
    <2>3. CASE Rpc!TooLarge \/ Rpc!PeerGone
      <3>1. serving # None
            BY <1>2, <2>3 DEF RpcInv, ServerFits, Rpc!TooLarge, Rpc!PeerGone
      <3>2. Rpc!EndConnection
            BY <2>3 DEF Rpc!TooLarge, Rpc!PeerGone
      <3> QED BY <1>2, <3>1, <3>2, EndKeeps
    <2>4. CASE Rpc!Server
          BY <1>2, <2>3, <2>4, AcceptKeeps, TakeKeeps, AnswerKeeps, WriteKeeps, Zenon DEF Rpc!Server
    <2> QED BY <1>2, <2>1, <2>2, <2>4, Zenon DEF Rpc!Next
  <1> QED BY <1>1, <1>2, PTL DEF Rpc!Spec

\* A client that is up is the one that the agent serves and trusts, unless it has hung up
\* on it, and every call returns its own answer.
THEOREM DesktopInStep == DesktopSpec => []InStep
  <1>1. DesktopInit => Rpc!Init
        BY DEF DesktopInit
  <1>2. ASSUME [DesktopNext]_<<part, vars, rpcVars>>
        PROVE  [Rpc!Next]_Rpc!vars
    <2>1. UNCHANGED rpcVars => UNCHANGED Rpc!vars
          BY DEF rpcVars, Rpc!vars, Rpc!peerVars
    <2> QED BY <1>2, <2>1, Zenon DEF DesktopNext
  <1>3. ASSUME RpcInv, NEW c \in Clients
        PROVE  /\ (client[c].pc \in {"ready", "calling", "pinging"} /\ "agent" \notin hungup[c])
                     => serving = c /\ trust.authenticated
               /\ client[c].got # None
                     => client[c].got.of = client[c].got.given /\ client[c].got.code = "ok"
    <2>1. ClientFits(client[c], Trusted(c))
          BY <1>3, ClientHolds
    <2>2. ASSUME client[c].pc \in {"ready", "calling", "pinging"}, "agent" \notin hungup[c]
          PROVE  serving = c /\ trust.authenticated
      <3>1. serving = c \/ Waits(c)
            BY <1>3, <2>2 DEF RpcInv
      <3>2. ~Waits(c)
            BY <1>3, <2>2 DEF RpcInv, Unaccepted
      <3>3. Trusted(c)
            BY <2>1, <2>2 DEF ClientFits
      <3> QED BY <3>1, <3>2, <3>3 DEF Trusted
    <2> QED BY <2>1, <2>2 DEF ClientFits
  <1>4. RpcInv => InStep
        BY <1>3 DEF InStep, Rpc!InStep
  <1> QED BY <1>1, <1>2, <1>4, RpcSafe, PTL DEF DesktopSpec, Rpc!Spec

==============================================================================
