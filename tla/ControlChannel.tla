--------------------------- MODULE ControlChannel ---------------------------
(***************************************************************************)
(* One direction of a control channel (ltfp/transport): its writers, the   *)
(* three bindings' ways to the wire, and the reader at the other end.      *)
(*                                                                         *)
(*   tcp   fragments go to a priority queue, a write loop takes them out,  *)
(*         a watcher per write sees its context end                        *)
(*         (tcpbinding/control_channel.go, control_write_queue.go);        *)
(*   quic  a mutex, then fragment after fragment                           *)
(*         (quicbinding/control_channel.go);                               *)
(*   grpc  a mutex, then the message in one Send                           *)
(*         (grpcbinding/control_channel.go).                               *)
(*                                                                         *)
(* A frame is [of, part, whole]: the write, its fragment, and whether all  *)
(* of its bytes were written.                                              *)
(***************************************************************************)
EXTENDS Naturals, Sequences, FiniteSets

CONSTANTS
    Writes,
    Fragments,   \* how many frames a write is cut into, if the binding cuts
    Priority,    \* "high", "normal" or "low"
    Bindings,
    Expiring,    \* bound: writes whose context may end before they do
    MaxInFlight, \* messages the reassembler holds at a time
    None

VARIABLES
    binding,
    writer,    \* per write: where its caller is
    ended,     \* writes whose context is over
    op,        \* per write: frames left, being written, finished, in error
    queue,     \* tcp: per priority, the frames to write
    ready,     \* tcp: queueReadyChannel holds a token
    loop,      \* tcp: what the write loop does, ...
    current,   \* ... and the frame it has dequeued
    mutex,     \* quic, grpc: the write that holds writeMutex
    channel,   \* the sender's: open, closing (marked, writes to be failed), closed
    conn,      \* the connection or stream: up or down
    wire,      \* frames on their way
    entered,   \* writes in the order they took their place
    put,       \* per write: frames written whole
    reader,    \* open or closed
    parts,     \* the reassembler's messages
    delivered  \* what ReadControlFrame returned

senderVars == <<writer, ended, op, entered>>
tcpVars    == <<queue, ready, loop, current>>
wireVars   == <<conn, wire, put>>
readerVars == <<reader, parts, delivered>>
vars == <<binding, senderVars, tcpVars, mutex, channel, wireVars, readerVars>>

FramesOf(w) == IF binding = "grpc" THEN 1 ELSE Fragments[w]

Frames(w) == [k \in 1..FramesOf(w) |-> [of |-> w, part |-> k, whole |-> TRUE]]

Init ==
    /\ binding \in Bindings
    /\ writer = [w \in Writes |-> "idle"]
    /\ ended = {}
    /\ op = [w \in Writes |-> [left |-> FramesOf(w), active |-> FALSE,
                               finished |-> FALSE, err |-> FALSE]]
    /\ queue = [p \in {"high", "normal", "low"} |-> <<>>]
    /\ ready = 0
    /\ loop = "wait"
    /\ current = None
    /\ mutex = None
    /\ channel = "open"
    /\ conn = "up"
    /\ wire = <<>>
    /\ entered = <<>>
    /\ put = [w \in Writes |-> 0]
    /\ reader = "open"
    /\ parts = <<>>
    /\ delivered = <<>>

-----------------------------------------------------------------------------
(* A write and its operation. *)

Finish(w, err) ==
    op' = [op EXCEPT ![w] = IF @.finished THEN @
                            ELSE [@ EXCEPT !.active = FALSE, !.finished = TRUE, !.err = err]]

\* shutdownWithError: the first caller marks the channel closed, and fails what
\* is pending in a later step; tcp only has something pending.
Shutdown ==
    /\ conn' = "down"
    /\ channel' = IF channel # "open" THEN channel
                  ELSE IF binding = "tcp" THEN "closing" ELSE "closed"

ContextEnds(w) ==
    /\ w \in Expiring \ ended /\ writer[w] \notin {"sent", "failed"}
    /\ ended' = ended \cup {w}
    /\ UNCHANGED <<binding, writer, op, entered, tcpVars, mutex, channel, wireVars, readerVars>>

\* The checks before anything is queued or locked.
StartWrite(w) ==
    /\ writer[w] = "idle"
    /\ writer' = [writer EXCEPT ![w] = IF w \in ended \/ channel # "open" THEN "failed"
                                       ELSE IF binding = "tcp" THEN "prepared" ELSE "locking"]
    /\ UNCHANGED <<binding, ended, op, entered, tcpVars, mutex, channel, wireVars, readerVars>>

-----------------------------------------------------------------------------
(* tcp: queue and write loop. *)

\* A mutant: the newest is taken first.
QueuedFirst(q, w) == [q EXCEPT ![Priority[w]] = Frames(w) \o @]

Queued(q, w) == [q EXCEPT ![Priority[w]] = @ \o Frames(w)]

Notify == ready' = 1

\* All the frames of a message are queued under one lock.  The channel may have
\* been closed, and its queue drained, meanwhile.
Enqueue(w) ==
    /\ writer[w] = "prepared"
    /\ queue' = Queued(queue, w)
    /\ Notify
    /\ entered' = Append(entered, w)
    /\ writer' = [writer EXCEPT ![w] = "waiting"]
    /\ UNCHANGED <<binding, ended, op, loop, current, mutex, channel, wireVars, readerVars>>

\* A mutant: only the operation is waited for.
AnswerOfOperation(w) == {a \in {"sent", "failed"} : op[w].finished /\ (op[w].err <=> a = "failed")}

\* What the caller may be told: how its operation ended, or that the channel
\* is closed, even if its message is on the wire.
Answer(w) ==
    {a \in {"sent", "failed"} : \/ op[w].finished /\ (op[w].err <=> a = "failed")
                                \/ channel # "open" /\ a = "failed"}

Return(w) ==
    /\ writer[w] = "waiting"
    /\ \E a \in Answer(w) : writer' = [writer EXCEPT ![w] = a]
    /\ UNCHANGED <<binding, ended, op, entered, tcpVars, mutex, channel, wireVars, readerVars>>

\* handleContextDone: a write that is not being written is given up, with the
\* frames it has left; one that is being written takes the channel down.
Watch(w) ==
    /\ binding = "tcp" /\ w \in ended /\ writer[w] \in {"prepared", "waiting"}
    /\ ~ op[w].finished
    /\ IF op[w].active
       THEN Shutdown /\ UNCHANGED <<op, ready>>
       ELSE Finish(w, TRUE) /\ Notify /\ UNCHANGED <<channel, conn>>
    /\ UNCHANGED <<binding, writer, ended, entered, queue, loop, current, mutex, wire, put, readerVars>>

Wake ==
    /\ binding = "tcp" /\ loop = "wait"
    /\ \/ ready = 1 /\ ready' = 0 /\ loop' = "pop"
       \/ channel # "open" /\ loop' = "ended" /\ UNCHANGED ready
    /\ UNCHANGED <<binding, senderVars, queue, current, mutex, channel, wireVars, readerVars>>

Pending == {p \in {"high", "normal", "low"} : queue[p] # <<>>}

Urgent == CASE "high" \in Pending   -> "high"
            [] "high" \notin Pending /\ "normal" \in Pending -> "normal"
            [] OTHER -> "low"

\* Dequeue, and Begin unless the operation is finished.
Dequeue ==
    /\ loop = "pop"
    /\ IF Pending = {}
       THEN loop' = "wait" /\ UNCHANGED <<queue, current, op>>
       ELSE LET f == Head(queue[Urgent]) IN
            /\ queue' = [queue EXCEPT ![Urgent] = Tail(@)]
            /\ IF op[f.of].finished
               THEN UNCHANGED <<loop, current, op>>
               ELSE /\ loop' = "write"
                    /\ current' = f
                    /\ op' = [op EXCEPT ![f.of].active = TRUE]
    /\ UNCHANGED <<binding, writer, ended, entered, ready, mutex, channel, wireVars, readerVars>>

WriteFrame ==
    /\ loop = "write" /\ conn = "up"
    /\ wire' = Append(wire, current)
    /\ put' = [put EXCEPT ![current.of] = @ + 1]
    /\ loop' = "wrote"
    /\ UNCHANGED <<binding, senderVars, queue, ready, current, mutex, channel, conn, readerVars>>

\* What a write that fails leaves behind: some of its bytes, if there was a
\* connection to write them to.
Torn(f) == {wire} \cup (IF conn = "up" THEN {Append(wire, [f EXCEPT !.whole = FALSE])} ELSE {})

\* Deadline or connection: the operation fails, and the channel with it.
WriteFails ==
    /\ loop = "write"
    /\ conn = "down" \/ current.of \in ended
    /\ wire' \in Torn(current)
    /\ Finish(current.of, TRUE)
    /\ Shutdown
    /\ loop' = "ended" /\ current' = None
    /\ UNCHANGED <<binding, writer, ended, entered, queue, ready, mutex, put, readerVars>>

\* MarkIdle: from here to CompleteFragment a context that ends fails the
\* write, though the frame is written.
MarkIdle ==
    /\ loop = "wrote"
    /\ op' = [op EXCEPT ![current.of].active = FALSE]
    /\ loop' = "marked"
    /\ UNCHANGED <<binding, writer, ended, entered, queue, ready, current, mutex, channel, wireVars, readerVars>>

Completed(o) == [o EXCEPT !.left = @ - 1, !.finished = o.left = 1]

CompleteFragment ==
    /\ loop = "marked"
    /\ op' = [op EXCEPT ![current.of] = IF @.finished THEN @ ELSE Completed(@)]
    /\ loop' = "pop" /\ current' = None
    /\ UNCHANGED <<binding, writer, ended, entered, queue, ready, mutex, channel, wireVars, readerVars>>

\* failPendingWriteOperations: the active write and those in the queue.
FailPending ==
    LET pending == {f.of : f \in UNION {{queue[p][j] : j \in DOMAIN queue[p]} : p \in DOMAIN queue}}
        failed  == pending \cup (IF loop \in {"write", "wrote"} THEN {current.of} ELSE {})
    IN  /\ channel = "closing"
        /\ channel' = "closed"
        /\ queue' = [p \in DOMAIN queue |-> <<>>]
        /\ op' = [w \in Writes |-> IF w \in failed /\ ~ op[w].finished
                                   THEN [op[w] EXCEPT !.active = FALSE, !.finished = TRUE, !.err = TRUE]
                                   ELSE op[w]]
        /\ UNCHANGED <<binding, writer, ended, entered, ready, loop, current, mutex, wireVars, readerVars>>

-----------------------------------------------------------------------------
(* quic and grpc: one write at a time. *)

\* grpc looks again whether the channel is closed.
Lock(w) ==
    /\ writer[w] = "locking" /\ mutex = None
    /\ IF binding = "grpc" /\ channel # "open"
       THEN writer' = [writer EXCEPT ![w] = "failed"] /\ UNCHANGED <<mutex, entered>>
       ELSE /\ writer' = [writer EXCEPT ![w] = "sending"]
            /\ mutex' = w
            /\ entered' = Append(entered, w)
    /\ UNCHANGED <<binding, ended, op, tcpVars, channel, wireVars, readerVars>>

SendFrame(w) ==
    LET k == FramesOf(w) - op[w].left + 1 IN
    /\ writer[w] = "sending" /\ conn = "up"
    /\ wire' = Append(wire, Frames(w)[k])
    /\ put' = [put EXCEPT ![w] = @ + 1]
    /\ op' = [op EXCEPT ![w].left = @ - 1]
    /\ IF op[w].left = 1
       THEN writer' = [writer EXCEPT ![w] = "sent"] /\ mutex' = None
       ELSE UNCHANGED <<writer, mutex>>
    /\ UNCHANGED <<binding, ended, entered, tcpVars, channel, conn, readerVars>>

\* A QUIC write whose deadline passes is reported as timed out; the stream
\* stays, with what was written of the frame.
SendTimesOut(w) ==
    /\ binding = "quic" /\ writer[w] = "sending" /\ w \in ended
    /\ wire' \in Torn(Frames(w)[FramesOf(w) - op[w].left + 1])
    /\ writer' = [writer EXCEPT ![w] = "failed"] /\ mutex' = None
    /\ UNCHANGED <<binding, ended, op, entered, tcpVars, channel, conn, put, readerVars>>

\* A gRPC write whose context ends cancels the stream.
CancelStream(w) ==
    /\ binding = "grpc" /\ writer[w] = "sending" /\ w \in ended
    /\ conn' = "down"
    /\ UNCHANGED <<binding, senderVars, tcpVars, mutex, channel, wire, put, readerVars>>

SendFails(w) ==
    /\ writer[w] = "sending" /\ conn = "down"
    /\ writer' = [writer EXCEPT ![w] = "failed"] /\ mutex' = None
    /\ Shutdown
    /\ UNCHANGED <<binding, ended, op, entered, tcpVars, wire, put, readerVars>>

\* Close(): gRPC first breaks a Send that holds the mutex.
CloseStream ==
    /\ channel = "open"
    /\ IF binding = "grpc" /\ mutex # None
       THEN conn' = "down" /\ UNCHANGED channel
       ELSE Shutdown
    /\ UNCHANGED <<binding, senderVars, tcpVars, mutex, wire, put, readerVars>>

-----------------------------------------------------------------------------
(* The reader. *)

\* Messages that have been waiting for a fragment for longer than the TTL are
\* dropped when the next fragment comes, the one it belongs to included.
Kept(gone) == [w \in DOMAIN parts \ gone |-> parts[w]]

Complete(w, got) == got = 1..FramesOf(w)

Reassemble(f, gone) ==
    LET kept == Kept(gone)
        w    == f.of
        got  == (IF w \in DOMAIN kept THEN kept[w] ELSE {}) \cup {f.part}
    IN  \/ /\ FramesOf(w) = 1
           /\ delivered' = Append(delivered, w)
           /\ UNCHANGED <<parts, reader, conn>>
        \/ /\ FramesOf(w) > 1 /\ w \notin DOMAIN kept /\ Cardinality(DOMAIN kept) >= MaxInFlight
           /\ reader' = "closed" /\ conn' = "down" /\ parts' = kept
           /\ UNCHANGED delivered
        \/ /\ FramesOf(w) > 1 /\ (w \in DOMAIN kept \/ Cardinality(DOMAIN kept) < MaxInFlight)
           /\ UNCHANGED <<reader, conn>>
           /\ IF Complete(w, got)
              THEN /\ delivered' = Append(delivered, w)
                   /\ parts' = [x \in DOMAIN kept \ {w} |-> kept[x]]
              ELSE /\ parts' = [x \in DOMAIN kept \cup {w} |-> IF x = w THEN got ELSE kept[x]]
                   /\ UNCHANGED delivered

ReadFrame ==
    /\ reader = "open" /\ wire # <<>> /\ Head(wire).whole
    /\ wire' = Tail(wire)
    /\ \E gone \in (IF FramesOf(Head(wire).of) = 1 THEN {{}} ELSE SUBSET DOMAIN parts) :
          Reassemble(Head(wire), gone)
    /\ UNCHANGED <<binding, senderVars, tcpVars, mutex, channel, put>>

\* The end of the stream, in a frame or between two; what was still on its way
\* may be lost with it.  A frame cut short and continued by other bytes ends
\* the reading too, once its length or its magic does not fit.
ReadFails ==
    /\ reader = "open"
    /\ conn = "down" \/ (wire # <<>> /\ ~ Head(wire).whole /\ Len(wire) > 1)
    /\ reader' = "closed"
    /\ conn' = "down"
    /\ UNCHANGED <<binding, senderVars, tcpVars, mutex, channel, wire, put, parts, delivered>>

Next ==
    \/ \E w \in Writes :
          \/ ContextEnds(w) \/ StartWrite(w) \/ Enqueue(w) \/ Return(w) \/ Watch(w)
          \/ Lock(w) \/ SendFrame(w) \/ SendTimesOut(w) \/ CancelStream(w) \/ SendFails(w)
    \/ Wake \/ Dequeue \/ WriteFrame \/ WriteFails \/ MarkIdle \/ CompleteFragment
    \/ FailPending \/ CloseStream \/ ReadFrame \/ ReadFails

Spec == Init /\ [][Next]_vars

TypeOK ==
    /\ binding \in Bindings
    /\ writer \in [Writes -> {"idle", "prepared", "waiting", "locking", "sending", "sent", "failed"}]
    /\ \A w \in Writes : op[w].left \in 0..FramesOf(w) /\ put[w] \in 0..FramesOf(w)
    /\ ready \in 0..1
    /\ loop \in {"wait", "pop", "write", "wrote", "marked", "ended"}
    /\ loop \in {"write", "wrote", "marked"} <=> current # None
    /\ mutex \in Writes \cup {None}
    /\ channel = "closed" /\ binding = "tcp" => conn = "down"
    /\ \A w \in DOMAIN parts : parts[w] \subseteq 1..FramesOf(w) /\ parts[w] # {}

Position(w) == CHOOSE j \in DOMAIN entered : entered[j] = w

\* QUIC is left out: it reports a timeout and goes on (control_channel.go:109).
TornIsLast ==
    binding # "quic" => \A j \in DOMAIN wire : ~ wire[j].whole => j = Len(wire)

\* Messages of one priority arrive in the order they were queued, each once,
\* though fragments of different priorities interleave on the wire, messages
\* are given up half-way and the reassembler drops what waits too long
\* (control_write_queue.go:29, control_fragmentation.go:186); and a frame that
\* was cut short is the last thing on the wire: nothing is read as its rest
\* (runWriteLoop shuts the channel down on a timeout or partial write).
InOrder ==
    /\ \A i, j \in DOMAIN delivered :
          i < j /\ (Priority[delivered[i]] = Priority[delivered[j]] \/ binding # "tcp") =>
              Position(delivered[i]) < Position(delivered[j])
    /\ TornIsLast

\* No caller waits for nothing: it has its answer, or its frames are in the
\* queue of a write loop that is awake or has a token to wake it; also if it
\* queued them after the channel was closed and the queue drained, and whoever
\* gave up a write before it (WritePrioritizedControlFrame, runWriteLoop).
NoLostWrite ==
    \A w \in Writes : writer[w] = "waiting" /\ Answer(w) = {} =>
        /\ loop # "ended" /\ (loop = "wait" => ready = 1)
        /\ \E k \in 1..FramesOf(w) :
              \/ loop \in {"write", "wrote", "marked"} /\ current = Frames(w)[k]
              \/ \E j \in DOMAIN queue[Priority[w]] : queue[Priority[w]][j] = Frames(w)[k]
=============================================================================
