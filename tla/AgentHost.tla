------------------------------ MODULE AgentHost ------------------------------
(***************************************************************************)
(* The desktop host that runs the agent as a child process                 *)
(* (src/apps/dev-agent/src-tauri): the user's commands, the supervisor     *)
(* thread, the agent processes and the local RPC connection to them.       *)
(*                                                                         *)
(* Commands are plain (not async) Tauri commands and run on the main       *)
(* thread one after another; the supervisor thread runs beside them.  They *)
(* share the record `supervisor' under one mutex, which both release while *)
(* they spawn, connect, call, wait for or kill a process.  One action is   *)
(* one stretch under the mutex, or one step outside it.                    *)
(*                                                                         *)
(* Time is left out: a retry that waits becomes due by RetryDue, and a     *)
(* call that could time out may fail by a fault.  Logs, metrics, notices   *)
(* to the window, exit_kind and last_error decide nothing and are left     *)
(* out.                                                                    *)
(***************************************************************************)
EXTENDS Naturals, FiniteSets

CONSTANTS
    Procs,          \* process identifiers, used again once nobody knows them
    None,           \* no process, no client
    Commands,       \* the commands the user gives, of the names below
    MaxCommands,    \* bound on the commands given
    MaxFaults       \* bound on crashes, hangs, failed steps and late answers

ASSUME HostAssumption ==
    /\ None \notin Procs
    /\ Commands \subseteq {"bootstrap", "start", "stop", "restart", "shutdown",
                           "exit", "inject", "snapshot", "query"}
    /\ MaxCommands \in Nat
    /\ MaxFaults \in Nat

VARIABLES
    supervisor,     \* SupervisorState, guarded by the mutex
    process,        \* what each process does
    endpoint,       \* the process the local RPC endpoint leads to
    behind,         \* processes whose connection holds an unread late answer
    at,             \* where the user's thread and the supervisor's are
    mine,           \* the process a thread has spawned or is about to kill
    held,           \* the client a thread has taken or connected
    command,        \* the command the main thread runs
    shutdown,       \* shutdown_requested
    exited,         \* the host process has ended
    left,           \* commands and faults that may still come
    raced,          \* history: two starts ran at the same time
    refused         \* history: the user's last start failed before it spawned

vars == <<supervisor, process, endpoint, behind, at, mine, held, command,
          shutdown, exited, left, raced, refused>>

Threads == {"user", "monitor"}

\* The stages of start_agent_sequence between its first call and its return.
Starting == {"prepare", "spawn", "adopt", "connect", "bootstrap", "resync",
             "verify", "store", "connected"}

Stages == Starting \cup
    {"idle", "begin", "stopping", "waiting", "stopped", "exit", "asking",
     "stop", "schedule", "inject", "query", "injected", "look",
     "check", "pump", "killPumped", "decide", "killFailed", "failed"}

TypeOK ==
    /\ supervisor \in [desired : {"running", "stopped"},
                       connection : {"disconnected", "reconnecting",
                                     "resyncing", "connected"},
                       expecting : BOOLEAN, pending : BOOLEAN,
                       retry : {"none", "waiting", "due"},
                       child : Procs \cup {None},
                       client : Procs \cup {None}]
    /\ process \in [Procs -> {"none", "young", "serving", "hung"}]
    /\ endpoint \in Procs \cup {None}
    /\ behind \subseteq Procs
    /\ at \in [Threads -> Stages]
    /\ mine \in [Threads -> Procs \cup {None}]
    /\ held \in [Threads -> Procs \cup {None}]
    /\ command \in Commands \cup {"none"}
    /\ left \in [commands : 0 .. MaxCommands, faults : 0 .. MaxFaults]
    /\ {shutdown, exited, raced, refused} \subseteq BOOLEAN

Init ==
    /\ supervisor = [desired |-> "stopped", connection |-> "disconnected",
                     expecting |-> FALSE, pending |-> FALSE, retry |-> "none",
                     child |-> None, client |-> None]
    /\ process = [p \in Procs |-> "none"]
    /\ endpoint = None
    /\ behind = {}
    /\ at = [t \in Threads |-> IF t = "user" THEN "idle" ELSE "check"]
    /\ mine = [t \in Threads |-> None]
    /\ held = [t \in Threads |-> None]
    /\ command = "none"
    /\ left = [commands |-> MaxCommands, faults |-> MaxFaults]
    /\ shutdown = FALSE /\ exited = FALSE
    /\ raced = FALSE /\ refused = FALSE

(***************************************************************************)
(* Helpers.                                                                *)
(***************************************************************************)
Alive == {p \in Procs : process[p] # "none"}

Wants == supervisor.desired = "running"

\* A call over the connection to p is answered.
Answers(p) == process[p] = "serving" /\ p \notin behind

\* Identifiers nobody refers to any more.
Unused == {p \in Procs :
              /\ process[p] = "none"
              /\ p \notin {supervisor.child, supervisor.client, endpoint}
              /\ \A t \in Threads : p \notin {mine[t], held[t]}}

Goto(t, stage) == at' = [at EXCEPT ![t] = stage]
Take(t, p) == mine' = [mine EXCEPT ![t] = p]
Hold(t, p) == held' = [held EXCEPT ![t] = p]

Die(ps) == /\ process' = [p \in Procs |-> IF p \in ps THEN "none" ELSE process[p]]
           /\ behind' = behind \ ps
           /\ endpoint' = IF endpoint \in ps THEN None ELSE endpoint

UseFault == /\ left.faults > 0
            /\ left' = [left EXCEPT !.faults = @ - 1]

Processes == <<process, endpoint, behind>>
Hands == <<mine, held>>
Told == <<command, shutdown, exited>>

\* The main thread is done with its command.
Done == Goto("user", "idle") /\ command' = "none"

(***************************************************************************)
(* start_agent_sequence, run by the main thread (start, restart) or by the *)
(* supervisor (recovery).                                                  *)
(***************************************************************************)
\* Both may be in it: the look at `child' that lets one in is an earlier
\* stretch under the mutex.
EnterStart(t) ==
    /\ Goto(t, "prepare")
    /\ raced' = (raced \/ \E o \in Threads \ {t} : at[o] \in Starting)

\* It returns an error.
Failed(t) ==
    IF t = "user" THEN Done ELSE Goto(t, "failed") /\ UNCHANGED command

\* The socket file of whoever listens there is removed.
Prepare(t) ==
    /\ at[t] = "prepare"
    /\ endpoint' = None
    /\ Goto(t, "spawn")
    /\ UNCHANGED <<supervisor, process, behind, Hands, Told, left, raced, refused>>

\* No secret, no secure directory, a file that is no socket: nothing is
\* recorded.
PrepareFails(t) ==
    /\ at[t] = "prepare"
    /\ UseFault
    /\ Failed(t)
    /\ refused' = (refused \/ t = "user")
    /\ UNCHANGED <<supervisor, Processes, Hands, shutdown, exited, raced>>

Spawn(t) ==
    /\ at[t] = "spawn"
    /\ Unused # {}
    /\ LET p == CHOOSE q \in Unused : TRUE IN
          /\ process' = [process EXCEPT ![p] = "young"]
          /\ Take(t, p)
    /\ Goto(t, "adopt")
    /\ UNCHANGED <<supervisor, endpoint, behind, held, Told, left, raced, refused>>

\* Record a failed attempt; `mark_reconnect_failure' puts the next one off.
Recorded(s) ==
    [s EXCEPT !.connection = "disconnected", !.pending = Wants, !.retry = "waiting"]

SpawnFails(t) ==
    /\ at[t] = "spawn"
    /\ UseFault
    /\ supervisor' = Recorded(supervisor)
    /\ Failed(t)
    /\ UNCHANGED <<Processes, Hands, shutdown, exited, raced, refused>>

\* The new process becomes the child, whatever happened since the look, and
\* the user is taken to want it running.
Adopt(t) ==
    /\ at[t] = "adopt"
    /\ supervisor' = [supervisor EXCEPT
          !.desired = "running", !.connection = "reconnecting",
          !.expecting = FALSE, !.pending = FALSE, !.retry = "none",
          !.child = mine[t]]
    /\ Goto(t, "connect")
    /\ UNCHANGED <<Processes, Hands, Told, left, raced, refused>>

\* (A mutant: a failure leaves the flag that asks for a restart alone.)
GiveUpSilently(t) ==
    /\ supervisor' = [supervisor EXCEPT
          !.connection = "disconnected", !.retry = "waiting",
          !.child = None, !.client = None]
    /\ Take(t, supervisor.child)
    /\ Hold(t, None)
    /\ Goto(t, "killFailed")
    /\ UNCHANGED <<Processes, Told, raced, refused>>

\* Any failure from here on takes the child that is recorded now, to kill it.
GiveUp(t) ==
    /\ supervisor' = [Recorded(supervisor) EXCEPT !.child = None, !.client = None]
    /\ Take(t, supervisor.child)
    /\ Hold(t, None)
    /\ Goto(t, "killFailed")
    /\ UNCHANGED <<Processes, Told, raced, refused>>

\* The peer's process id and the session secret are checked: only the process
\* spawned by this sequence will do.
Connect(t) ==
    /\ at[t] = "connect"
    /\ endpoint = mine[t]
    /\ process[mine[t]] = "serving"
    /\ Hold(t, mine[t])
    /\ Goto(t, "bootstrap")
    /\ UNCHANGED <<supervisor, Processes, mine, Told, left, raced, refused>>

\* The process is gone, hangs or is another one, or its socket file is gone;
\* or (a fault) it is too slow.
ConnectFails(t) ==
    /\ at[t] = "connect"
    /\ \/ /\ \/ process[mine[t]] \in {"none", "hung"}
             \/ endpoint \notin {None, mine[t]}
             \/ process[mine[t]] = "serving" /\ endpoint = None
          /\ UNCHANGED left
       \/ UseFault
    /\ GiveUp(t)

\* app.bootstrap, then (after Resync) agent.snapshot, app.ping and the replay
\* of the manual services, whose own failures are only logged.
Call(t, stage, next) ==
    /\ at[t] = stage
    /\ Answers(held[t])
    /\ Goto(t, next)
    /\ UNCHANGED <<supervisor, Processes, Hands, Told, left, raced, refused>>

CallFails(t) ==
    /\ at[t] \in {"bootstrap", "verify"}
    /\ \/ ~Answers(held[t]) /\ UNCHANGED left
       \/ UseFault
    /\ GiveUp(t)

\* set_connection_state: without a child the state stays as it is.
SetConnection(state) ==
    supervisor' = IF supervisor.child = None THEN supervisor
                  ELSE [supervisor EXCEPT !.connection = state]

Resync(t) ==
    /\ at[t] = "resync"
    /\ SetConnection("resyncing")
    /\ Goto(t, "verify")
    /\ UNCHANGED <<Processes, Hands, Told, left, raced, refused>>

Store(t) ==
    /\ at[t] = "store"
    /\ supervisor' = [supervisor EXCEPT !.retry = "none", !.client = held[t]]
    /\ Hold(t, None)
    /\ Goto(t, "connected")
    /\ UNCHANGED <<Processes, mine, Told, left, raced, refused>>

Connected(t) ==
    /\ at[t] = "connected"
    /\ SetConnection("connected")
    /\ Take(t, None)
    /\ IF t = "user" THEN Done ELSE Goto(t, "check") /\ UNCHANGED command
    /\ UNCHANGED <<Processes, held, shutdown, exited, left, raced, refused>>

\* kill() and wait() on the child a failure has taken.
KillFailed(t) ==
    /\ at[t] = "killFailed"
    /\ Die({mine[t]})
    /\ Take(t, None)
    /\ Failed(t)
    /\ UNCHANGED <<supervisor, held, shutdown, exited, left, raced, refused>>

Sequence(t) ==
    \/ Prepare(t) \/ Spawn(t) \/ Adopt(t) \/ Connect(t)
    \/ Call(t, "bootstrap", "resync") \/ Resync(t)
    \/ Call(t, "verify", "store") \/ Store(t) \/ Connected(t)
    \/ ConnectFails(t) \/ CallFails(t) \/ KillFailed(t)

(***************************************************************************)
(* The supervisor thread (spawn_supervisor_monitor): one round looks for   *)
(* an exit, pings, and decides on a restart.                               *)
(***************************************************************************)
\* try_wait on the child.
MonitorCheck ==
    LET child == supervisor.child
        expected == supervisor.expecting \/ ~Wants
    IN
    /\ at["monitor"] = "check"
    /\ ~shutdown
    /\ supervisor' =
          IF child = None \/ process[child] # "none" THEN supervisor
          ELSE [supervisor EXCEPT
                   !.child = None, !.client = None,
                   !.connection = "disconnected", !.expecting = FALSE,
                   !.pending = ~expected,
                   !.retry = IF expected THEN "none" ELSE "waiting"]
    /\ Goto("monitor", "pump")
    /\ UNCHANGED <<Processes, Hands, Told, left, raced, refused>>

\* (A mutant: an unanswered ping forgets the child instead of killing it.)
PingFailsLeaving ==
    LET s == supervisor IN
    /\ at["monitor"] = "pump"
    /\ s.child # None /\ s.client # None
    /\ \/ ~Answers(s.client) /\ UNCHANGED left
       \/ UseFault
    /\ supervisor' = [Recorded(s) EXCEPT !.child = None, !.client = None]
    /\ Goto("monitor", "decide")
    /\ UNCHANGED <<Processes, Hands, Told, raced, refused>>

\* The ping is sent under the mutex; the client, taken for it, is dropped when
\* no answer comes, and the child is taken to be killed.
PingFails ==
    LET s == supervisor IN
    /\ at["monitor"] = "pump"
    /\ s.child # None /\ s.client # None
    /\ \/ ~Answers(s.client) /\ UNCHANGED left
       \/ UseFault
    /\ supervisor' = [Recorded(s) EXCEPT !.child = None, !.client = None]
    /\ Take("monitor", s.child)
    /\ Goto("monitor", "killPumped")
    /\ UNCHANGED <<Processes, held, Told, raced, refused>>

PingAnswered ==
    LET s == supervisor IN
    /\ at["monitor"] = "pump"
    /\ s.child # None /\ s.client # None
    /\ Answers(s.client)
    /\ supervisor' = [s EXCEPT !.connection = "connected", !.retry = "none"]
    /\ Goto("monitor", "decide")
    /\ UNCHANGED <<Processes, Hands, Told, left, raced, refused>>

NoPump ==
    /\ at["monitor"] = "pump"
    /\ None \in {supervisor.child, supervisor.client}
    /\ Goto("monitor", "decide")
    /\ UNCHANGED <<supervisor, Processes, Hands, Told, left, raced, refused>>

KillPumped ==
    /\ at["monitor"] = "killPumped"
    /\ Die({mine["monitor"]})
    /\ Take("monitor", None)
    /\ Goto("monitor", "decide")
    /\ UNCHANGED <<supervisor, held, Told, left, raced, refused>>

\* A restart is due.
MayRestart ==
    /\ supervisor.pending
    /\ Wants
    /\ supervisor.child = None
    /\ supervisor.retry # "waiting"

MonitorDecide ==
    /\ at["monitor"] = "decide"
    /\ IF MayRestart
       THEN /\ supervisor' = [supervisor EXCEPT !.retry = "none"]
            /\ EnterStart("monitor")
       ELSE /\ Goto("monitor", "check")
            /\ UNCHANGED <<supervisor, raced>>
    /\ UNCHANGED <<Processes, Hands, Told, left, refused>>

\* After a failed start the next one is asked for, whoever wants what.
MonitorFailed ==
    /\ at["monitor"] = "failed"
    /\ supervisor' = [supervisor EXCEPT
          !.pending = TRUE,
          !.retry = IF @ = "none" THEN "waiting" ELSE @]
    /\ Goto("monitor", "check")
    /\ UNCHANGED <<Processes, Hands, Told, left, raced, refused>>

Monitor ==
    \/ MonitorCheck
    \/ PingAnswered \/ PingFails \/ NoPump \/ KillPumped
    \/ MonitorDecide \/ MonitorFailed

RetryDue ==
    /\ supervisor.retry = "waiting"
    /\ supervisor' = [supervisor EXCEPT !.retry = "due"]
    /\ UNCHANGED <<Processes, at, Hands, Told, left, raced, refused>>

(***************************************************************************)
(* The user's commands, on the main thread.                                *)
(***************************************************************************)
\* start and bootstrap let the supervisor thread run again.
Give(c) ==
    /\ at["user"] = "idle"
    /\ left.commands > 0
    /\ command' = c
    /\ left' = [left EXCEPT !.commands = @ - 1]
    /\ Goto("user", CASE c = "start" -> "begin"
                      [] c \in {"stop", "restart", "shutdown", "exit"} -> "stop"
                      [] c = "snapshot" -> "look"
                      [] c = "bootstrap" -> "schedule"
                      [] OTHER -> c)
    /\ shutdown' = (CASE c \in {"start", "bootstrap"} -> FALSE
                      [] c \in {"shutdown", "exit"} -> TRUE
                      [] OTHER -> shutdown)
    /\ UNCHANGED <<supervisor, Processes, Hands, exited, raced, refused>>

\* app_bootstrap_impl: a cold start is left to the supervisor.
Bootstrap ==
    /\ at["user"] = "schedule"
    /\ supervisor' = IF supervisor.child # None
          THEN [supervisor EXCEPT !.desired = "running", !.expecting = FALSE,
                                  !.pending = FALSE]
          ELSE [supervisor EXCEPT !.desired = "running", !.expecting = FALSE,
                                  !.pending = TRUE, !.retry = "none",
                                  !.connection = "reconnecting"]
    /\ Done
    /\ UNCHANGED <<Processes, Hands, shutdown, exited, left, raced, refused>>

\* start_agent: a child that runs is left alone, one that has ended is
\* forgotten.
Begin ==
    LET child == supervisor.child IN
    /\ at["user"] = "begin"
    /\ IF child # None /\ process[child] # "none"
       THEN /\ supervisor' = [supervisor EXCEPT !.desired = "running"]
            /\ Goto("user", "look")
            /\ UNCHANGED raced
       ELSE /\ supervisor' =
                  [supervisor EXCEPT
                      !.desired = "running",
                      !.child = None,
                      !.client = IF child = None THEN @ ELSE None]
            /\ EnterStart("user")
    /\ refused' = FALSE
    /\ UNCHANGED <<Processes, Hands, Told, left>>

\* stop_agent_sequence: what is recorded is taken out under the mutex ...
Stop ==
    /\ at["user"] = "stop"
    /\ supervisor' = [supervisor EXCEPT
          !.desired = "stopped", !.connection = "disconnected",
          !.expecting = TRUE, !.pending = FALSE, !.retry = "none",
          !.child = None, !.client = None]
    /\ Take("user", supervisor.child)
    /\ Hold("user", supervisor.client)
    /\ Goto("user", "stopping")
    /\ UNCHANGED <<Processes, Told, left, raced, refused>>

\* ... the agent at the other end of the client is asked to shut down; when it
\* does, it removes the socket file, its own or not ...
Stopping ==
    LET p == held["user"]
        ends == p # None /\ process[p] = "serving"
    IN
    /\ at["user"] = "stopping"
    /\ process' = IF ends THEN [process EXCEPT ![p] = "none"] ELSE process
    /\ behind' = IF ends THEN behind \ {p} ELSE behind
    /\ endpoint' = IF ends THEN None ELSE endpoint
    /\ Hold("user", None)
    /\ Goto("user", "waiting")
    /\ UNCHANGED <<supervisor, mine, Told, left, raced, refused>>

\* ... and the child is waited for, and killed when it takes too long.
Waiting ==
    /\ at["user"] = "waiting"
    /\ Die({mine["user"]})
    /\ Take("user", None)
    /\ Goto("user", "stopped")
    /\ UNCHANGED <<supervisor, held, Told, left, raced, refused>>

Stopped ==
    /\ at["user"] = "stopped"
    /\ supervisor' = [supervisor EXCEPT !.expecting = FALSE]
    /\ CASE command = "restart" -> Goto("user", "begin") /\ shutdown' = FALSE
                                   /\ UNCHANGED command
         [] command = "exit" -> Goto("user", "exit") /\ UNCHANGED <<command, shutdown>>
         [] OTHER -> Done /\ UNCHANGED shutdown
    /\ UNCHANGED <<Processes, Hands, exited, left, raced, refused>>

\* app.exit(0): the host's threads end, its processes do not.
Exit ==
    /\ at["user"] = "exit"
    /\ exited' = TRUE
    /\ UNCHANGED <<supervisor, Processes, at, Hands, command, shutdown, left,
                   raced, refused>>

\* agent_crash_inject_impl.
Inject ==
    /\ at["user"] = "inject"
    /\ IF supervisor.child = None
       THEN Done /\ UNCHANGED <<supervisor, mine>>
       ELSE /\ supervisor' = [supervisor EXCEPT
                  !.desired = "running", !.connection = "disconnected",
                  !.expecting = FALSE, !.pending = TRUE, !.retry = "waiting",
                  !.child = None, !.client = None]
            /\ Take("user", supervisor.child)
            /\ Goto("user", "injected")
            /\ UNCHANGED command
    /\ UNCHANGED <<Processes, held, shutdown, exited, left, raced, refused>>

Injected ==
    /\ at["user"] = "injected"
    /\ Die({mine["user"]})
    /\ Take("user", None)
    /\ Goto("user", "look")
    /\ UNCHANGED <<supervisor, held, Told, left, raced, refused>>

\* current_snapshot: a call under the mutex; one that fails costs nothing but
\* the state shown.
Look ==
    LET s == supervisor IN
    /\ at["user"] = "look"
    /\ supervisor' =
          CASE s.client = None -> s
            [] s.client # None /\ Answers(s.client) -> [s EXCEPT !.retry = "none"]
            [] OTHER -> [s EXCEPT !.connection = "disconnected"]
    /\ Done
    /\ UNCHANGED <<Processes, Hands, shutdown, exited, left, raced, refused>>

\* The commands that call the agent (sessions, services, tunnels, traffic,
\* diagnosis) take the client out of the record for the call ...
Ask ==
    /\ at["user"] = "query"
    /\ IF supervisor.client = None
       THEN Done /\ UNCHANGED <<supervisor, held>>
       ELSE /\ Hold("user", supervisor.client)
            /\ supervisor' = [supervisor EXCEPT !.client = None]
            /\ Goto("user", "asking")
            /\ UNCHANGED command
    /\ UNCHANGED <<Processes, mine, shutdown, exited, left, raced, refused>>

\* ... and put it back, whatever is there by then.  An answer that comes after
\* the call has timed out (a fault) is left in the connection.
Asked ==
    LET p == held["user"] IN
    /\ at["user"] = "asking"
    /\ \/ UNCHANGED <<behind, left>>
       \/ process[p] = "serving" /\ UseFault /\ behind' = behind \cup {p}
    /\ supervisor' = [supervisor EXCEPT !.client = p]
    /\ Hold("user", None)
    /\ Done
    /\ UNCHANGED <<process, endpoint, mine, shutdown, exited, raced, refused>>

User ==
    \/ Bootstrap \/ Begin \/ Look \/ Ask \/ Asked
    \/ Stop \/ Stopping \/ Waiting \/ Stopped \/ Exit
    \/ Inject \/ Injected

(***************************************************************************)
(* The agent processes.                                                    *)
(***************************************************************************)
\* newLocalRPCServer removes the socket file it finds and listens.
Listen(p) ==
    /\ process[p] = "young"
    /\ process' = [process EXCEPT ![p] = "serving"]
    /\ endpoint' = p
    /\ UNCHANGED <<supervisor, behind, at, Hands, Told, left, raced, refused>>

Crash(p) ==
    /\ process[p] # "none"
    /\ UseFault
    /\ Die({p})
    /\ UNCHANGED <<supervisor, at, Hands, Told, raced, refused>>

Hang(p) ==
    /\ process[p] = "serving"
    /\ UseFault
    /\ process' = [process EXCEPT ![p] = "hung"]
    /\ UNCHANGED <<supervisor, endpoint, behind, at, Hands, Told, raced, refused>>

Next ==
    /\ ~exited
    /\ \/ User \/ Monitor \/ RetryDue
       \/ \E c \in Commands : Give(c)
       \/ \E t \in Threads : Sequence(t) \/ PrepareFails(t) \/ SpawnFails(t)
       \/ \E p \in Procs : Listen(p) \/ Crash(p) \/ Hang(p)

Spec == Init /\ [][Next]_vars

\* Threads go on, a process that is not killed comes to listen, time passes.
Fairness ==
    /\ WF_vars(~exited /\ (User \/ Sequence("user")))
    /\ WF_vars(~exited /\ (Monitor \/ Sequence("monitor")))
    /\ WF_vars(~exited /\ RetryDue)
    /\ \A p \in Procs : WF_vars(~exited /\ Listen(p))

FairSpec == Spec /\ Fairness

(***************************************************************************)
(* Properties.                                                             *)
(***************************************************************************)
\* A process runs and a connection is answered; they belong together unless
\* two starts have run at the same time.
Healthy ==
    LET s == supervisor IN
    /\ s.child # None /\ process[s.child] # "none"
    /\ s.client # None /\ Answers(s.client)
    /\ s.connection = "connected"
    /\ ~raced => s.client = s.child

\* A process about to be recorded or killed by a thread.
InHand(p) ==
    \E t \in Threads :
        /\ p = mine[t]
        /\ at[t] \in {"adopt", "stopping", "waiting", "injected",
                      "killPumped", "killFailed"}

\* No process of the host's runs that the host has forgotten, unless two
\* starts have run at the same time.
NoneForgotten ==
    ~raced => \A p \in Alive : p = supervisor.child \/ InHand(p)

\* Whatever the user's commands and the supervisor did to each other, once
\* both are quiet and nothing fails any more a wanted agent is up and
\* connected, unless a start of the user's was refused before it began.
Recovers == <>[](shutdown \/ ~Wants \/ refused \/ Healthy)

\* "agent.stop: desired_state is set to stopped"; after agent.stop or
\* app.shutdown "automatic starts must be forbidden"
\* (docs/Agent–TauriLocalCommunicationDesignProposal.md:708, 983): only the
\* user turns the intention back to running.  Stated by the design and not
\* kept: Adopt does, for a start the stop has overtaken.
IntentionIsTheUsers ==
    [][~Wants /\ Wants' => at'["user"] # at["user"]]_vars
=============================================================================
