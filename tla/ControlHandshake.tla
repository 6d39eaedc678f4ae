---------------------------- MODULE ControlHandshake ----------------------------
\* The handshake of control channels on the Bridge: the guard that limits hellos,
\* failures and unauthenticated channels (auth/control_handshake_guard.go), the
\* coordinator that commits one authentication of a connector at a time
\* (auth/control_auth.go) and the handlers that use them (app/control_plane.go).
\*
\* The limiters and the bans take one step each: the clock is read with them. The
\* coordinator's clock is read before it waits for the connector's lock, in `at`.
\* The effects of a commit on services and tunnels are in BridgeSessions.
EXTENDS Integers, Sequences, FiniteSets

CONSTANTS
    Channels, Sources, Connectors,
    SourceOf,                         \* [Channels -> Sources]
    HelloWindow, HelloLimit,          \* limits are [source |-> Nat, connector |-> Nat]
    FailureWindow, FailureLimit, BanTime,
    TakeoverWindow, TakeoverLimit,
    ConnBudget, AuthBudget,
    Messages,                         \* bounds: how many handshake messages each channel sends
    MaxTime,                          \* bound of the clock
    NoChannel

ASSUME HandshakeAssumption ==
    /\ IsFiniteSet(Channels) /\ NoChannel \notin Channels
    /\ SourceOf \in [Channels -> Sources]
    /\ Messages \subseteq [Channels -> Nat]
    /\ {HelloWindow, FailureWindow, TakeoverWindow, BanTime} \subseteq Nat
    /\ {TakeoverLimit, ConnBudget, AuthBudget, MaxTime} \subseteq Nat

VARIABLES
    now,
    chan,       \* of each channel: see NewChannel
    hellos,     \* of each source and connector: when its recent hellos were allowed
    failures,   \* and when its recent failures were
    banned,     \* until when it is banned, or 0
    takeovers,  \* of each connector: the takeovers that count, as [session, at], the clock read
    unauth,     \* activeUnauthenticatedConns
    auth,       \* activeAuthConcurrency
    lockOf,     \* the lock of each connector in the locker's map, or NoChannel
    refs,       \* of each connector's locks, named for the channel that made it: its refCount
    holder,     \* and the channel that holds it, or NoChannel
    current,    \* the session registry, of each connector: [id, epoch, state]
    issued      \* session ids issued

guardVars == <<hellos, failures, banned>>
lockVars  == <<lockOf, refs, holder>>
vars == <<now, chan, guardVars, takeovers, unauth, auth, lockVars, current, issued>>

NewChannel(messages) ==
    [pc |-> "new", life |-> "connected", reserved |-> FALSE, left |-> messages,
     connector |-> "none", epoch |-> 0,      \* of the last hello that was accepted
     session |-> 0,                          \* of the last authentication
     at |-> 0, lock |-> NoChannel, new |-> 0, took |-> FALSE]    \* of the authentication under way

Places == {"new", "ready", "check", "lock", "wait", "decide", "commit", "confirm", "unlock",
           "forget", "succeed", "release", "over"}

ChannelType ==
    [pc : Places, life : {"connected", "authenticated", "closed"}, reserved : BOOLEAN, left : Nat,
     connector : Connectors \cup {"none"}, epoch : Nat, session : Nat,
     at : Nat, lock : Channels \cup {NoChannel}, new : Nat, took : BOOLEAN]

Init ==
    /\ now = 0
    /\ \E left \in Messages : chan = [c \in Channels |-> NewChannel(left[c])]
    /\ hellos = [key \in Sources \cup Connectors |-> <<>>]
    /\ failures = [key \in Sources \cup Connectors |-> <<>>]
    /\ banned = [key \in Sources \cup Connectors |-> 0]
    /\ takeovers = [k \in Connectors |-> {}]
    /\ unauth = 0 /\ auth = 0
    /\ lockOf = [k \in Connectors |-> NoChannel]
    /\ refs = [k \in Connectors |-> [l \in Channels |-> 0]]
    /\ holder = [k \in Connectors |-> [l \in Channels |-> NoChannel]]
    /\ current = [k \in Connectors |-> [id |-> 0, epoch |-> 0, state |-> "NONE"]]
    /\ issued = 0

Goto(c, place) == chan' = [chan EXCEPT ![c].pc = place]

-----------------------------------------------------------------------------
\* The sliding windows: slidingWindowRateLimiter.

Recent(past, at, window) == SelectSeq(past, LAMBDA t : t >= at - window)

\* Allow of the source's limiter and then of the connector's: what they remember
\* afterwards, and which of the two refused. The source's record stays when the
\* connector's limiter refuses.
Charge(past, source, connector, window, limit) ==
    LET kept(key)  == Recent(past[key], now, window)
        full(key, by) == Len(kept(key)) >= limit[by]
        charged(key) == Append(kept(key), now)
    IN IF full(source, "source")
         THEN [by |-> "source", past |-> [past EXCEPT ![source] = kept(source)]]
       ELSE IF full(connector, "connector")
         THEN [by |-> "connector",
               past |-> [past EXCEPT ![source] = charged(source), ![connector] = kept(connector)]]
       ELSE [by |-> "none",
             past |-> [past EXCEPT ![source] = charged(source), ![connector] = charged(connector)]]

-----------------------------------------------------------------------------
\* The channel.

\* The channel opens within the budget of unauthenticated ones, or ends at once.
Reserve(c) ==
    /\ chan[c].pc = "new"
    /\ \/ /\ unauth < ConnBudget
          /\ unauth' = unauth + 1
          /\ chan' = [chan EXCEPT ![c].pc = "ready", ![c].reserved = TRUE]
       \/ unauth >= ConnBudget /\ Goto(c, "over") /\ UNCHANGED unauth
    /\ UNCHANGED <<now, guardVars, takeovers, auth, lockVars, current, issued>>

\* releaseUnauthenticatedConnectionBudget.
GivenBack(c) == IF chan[c].reserved /\ unauth > 0 THEN unauth - 1 ELSE unauth

\* ConnectorHello: within both limits it is assigned the epoch after the current one.
Hello(c, k) ==
    /\ chan[c].pc = "ready" /\ chan[c].left > 0
    /\ LET charge == Charge(hellos, SourceOf[c], k, HelloWindow, HelloLimit)
       IN  /\ hellos' = charge.past
           /\ chan' = IF charge.by = "none"
                        THEN [chan EXCEPT ![c].left = @ - 1, ![c].connector = k,
                                          ![c].epoch = current[k].epoch + 1]
                        ELSE [chan EXCEPT ![c].left = @ - 1]
    /\ UNCHANGED <<now, failures, banned, takeovers, unauth, auth, lockVars, current, issued>>

\* ConnectorAuth, up to the coordinator: not banned, and within the concurrency
\* budget. Bans that are over are forgotten.
Auth(c) ==
    /\ chan[c].pc = "ready" /\ chan[c].left > 0 /\ chan[c].epoch # 0
    /\ LET source == SourceOf[c]
           k      == chan[c].connector
           over(key) == banned[key] <= now
           begins == over(source) /\ over(k) /\ auth < AuthBudget
       IN  /\ banned' = [banned EXCEPT
                            ![source] = IF over(source) THEN 0 ELSE @,
                            ![k]      = IF over(source) /\ over(k) THEN 0 ELSE @]
           /\ auth' = IF begins THEN auth + 1 ELSE auth
           /\ chan' = [chan EXCEPT ![c].left = @ - 1,
                                   ![c].pc = IF begins THEN "check" ELSE @]
    /\ UNCHANGED <<now, hellos, failures, takeovers, unauth, lockVars, current, issued>>

-----------------------------------------------------------------------------
\* AuthenticateAndCommit.

\* The method, the token or its state is refused: a failure that counts. Past the
\* limit it bans the source, or else the connector.
Refuse(c) ==
    /\ chan[c].pc = "check"
    /\ LET source == SourceOf[c]
           k      == chan[c].connector
           charge == Charge(failures, source, k, FailureWindow, FailureLimit)
           until  == now + BanTime
       IN  /\ failures' = charge.past
           /\ banned' = [banned EXCEPT ![source] = IF charge.by = "source" THEN until ELSE @,
                                       ![k] = IF charge.by = "connector" THEN until ELSE @]
    /\ Goto(c, "release")
    /\ UNCHANGED <<now, hellos, takeovers, unauth, auth, lockVars, current, issued>>

\* The look-up of the token or the check of its hash fails: this does not count.
Break(c) ==
    /\ chan[c].pc = "check"
    /\ Goto(c, "release")
    /\ UNCHANGED <<now, guardVars, takeovers, unauth, auth, lockVars, current, issued>>

\* The token is good at this time.
Accept(c) ==
    /\ chan[c].pc = "check"
    /\ chan' = [chan EXCEPT ![c].pc = "lock", ![c].at = now]
    /\ UNCHANGED <<now, guardVars, takeovers, unauth, auth, lockVars, current, issued>>

\* The lock that c asks for: the connector's, or a new one named c.
LockFor(c) == IF lockOf[chan[c].connector] = NoChannel THEN c ELSE lockOf[chan[c].connector]

\* connectorScopedLocker.lock, under the locker's mutex.
Wait(c) ==
    /\ chan[c].pc = "lock"
    /\ lockOf' = [lockOf EXCEPT ![chan[c].connector] = LockFor(c)]
    /\ refs' = [refs EXCEPT ![chan[c].connector][LockFor(c)] = @ + 1]
    /\ chan' = [chan EXCEPT ![c].pc = "wait", ![c].lock = LockFor(c)]
    /\ UNCHANGED <<now, guardVars, takeovers, unauth, auth, holder, current, issued>>

\* And the lock itself.
Acquire(c) ==
    /\ chan[c].pc = "wait" /\ holder[chan[c].connector][chan[c].lock] = NoChannel
    /\ holder' = [holder EXCEPT ![chan[c].connector][chan[c].lock] = c]
    /\ Goto(c, "decide")
    /\ UNCHANGED <<now, guardVars, takeovers, unauth, auth, lockOf, refs, current, issued>>

Live(state)  == state \in {"ACTIVE", "DRAINING"}
Ended(state) == state \in {"STALE", "FAILED", "CLOSED"}

\* Whether the registry's session of k keeps out a new one of this epoch.
KeepsOut(k, epoch) == Live(current[k].state) /\ current[k].epoch >= epoch

\* pruneSupersedeHistory, for the clock c has read: how many are left matters, their
\* order does not.
Counted(c) == {t \in takeovers[chan[c].connector] : t.at >= chan[c].at - TakeoverWindow}

\* A newer epoch is there, or the takeovers of the window are used up.
Decide(c) ==
    /\ chan[c].pc = "decide"
    /\ LET k     == chan[c].connector
           took  == Live(current[k].state)
           kept  == KeepsOut(k, chan[c].epoch)
       IN  /\ takeovers' = IF took /\ ~kept THEN [takeovers EXCEPT ![k] = Counted(c)] ELSE takeovers
           /\ chan' = IF kept \/ (took /\ Cardinality(Counted(c)) >= TakeoverLimit)
                        THEN [chan EXCEPT ![c].pc = "unlock"]
                        ELSE [chan EXCEPT ![c].pc = "commit", ![c].took = took]
    /\ UNCHANGED <<now, guardVars, unauth, auth, lockVars, current, issued>>

\* The commit callback: what the registry refuses, the callback does not tell.
Commit(c) ==
    /\ chan[c].pc = "commit"
    /\ issued' = issued + 1
    /\ current' = IF KeepsOut(chan[c].connector, chan[c].epoch) THEN current
                  ELSE [current EXCEPT ![chan[c].connector] =
                           [id |-> issued + 1, epoch |-> chan[c].epoch, state |-> "ACTIVE"]]
    /\ chan' = [chan EXCEPT ![c].pc = "confirm", ![c].new = issued + 1]
    /\ UNCHANGED <<now, guardVars, takeovers, unauth, auth, lockVars>>

\* The new session must be the connector's current one. A takeover counts from then.
Confirm(c) ==
    /\ chan[c].pc = "confirm"
    /\ LET k == chan[c].connector
           authoritative == current[k].id = chan[c].new
       IN  /\ takeovers' = IF authoritative /\ chan[c].took
                             THEN [takeovers EXCEPT ![k] =
                                       Counted(c) \cup {[session |-> chan[c].new, at |-> chan[c].at]}]
                             ELSE takeovers
           /\ chan' = [chan EXCEPT ![c].pc = "unlock", ![c].took = FALSE,
                                   ![c].new = IF authoritative THEN @ ELSE 0]
    /\ UNCHANGED <<now, guardVars, unauth, auth, lockVars, current, issued>>

Unlock(c) ==
    /\ chan[c].pc = "unlock"
    /\ holder' = [holder EXCEPT ![chan[c].connector][chan[c].lock] = NoChannel]
    /\ Goto(c, "forget")
    /\ UNCHANGED <<now, guardVars, takeovers, unauth, auth, lockOf, refs, current, issued>>

\* (A mutant: the lock leaves the map with those who wait for it.)
Unwanted(count) == TRUE

\* Whether nobody else holds the lock or waits for it.
Unused(count) == count <= 0

\* The release function, under the locker's mutex again.
Forget(c) ==
    /\ chan[c].pc = "forget"
    /\ refs' = [refs EXCEPT ![chan[c].connector][chan[c].lock] = @ - 1]
    /\ lockOf' = IF Unused(refs'[chan[c].connector][chan[c].lock])
                   THEN [lockOf EXCEPT ![chan[c].connector] = NoChannel] ELSE lockOf
    /\ chan' = [chan EXCEPT ![c].lock = NoChannel, ![c].at = 0,
                            ![c].pc = IF chan[c].new = 0 THEN "release" ELSE "succeed"]
    /\ UNCHANGED <<now, guardVars, takeovers, unauth, auth, holder, current, issued>>

\* setSession and markSessionAuthenticated.
Succeed(c) ==
    /\ chan[c].pc = "succeed"
    /\ unauth' = GivenBack(c)
    /\ chan' = [chan EXCEPT ![c].pc = "release", ![c].life = "authenticated", ![c].reserved = FALSE,
                            ![c].session = chan[c].new, ![c].new = 0]
    /\ UNCHANGED <<now, guardVars, takeovers, auth, lockVars, current, issued>>

\* The deferred release of the concurrency budget.
Release(c) ==
    /\ chan[c].pc = "release"
    /\ auth' = IF auth > 0 THEN auth - 1 ELSE 0
    /\ Goto(c, "ready")
    /\ UNCHANGED <<now, guardVars, takeovers, unauth, lockVars, current, issued>>

-----------------------------------------------------------------------------
\* The end of a channel, the rest of a session's life, and time.

\* The channel ends: its budget, if it still holds it, and the session it
\* authenticated with.
End(c, state) ==
    /\ chan[c].pc = "ready"
    /\ unauth' = GivenBack(c)
    /\ chan' = [chan EXCEPT ![c].pc = "over", ![c].reserved = FALSE,
                            ![c].life = IF @ = "authenticated" THEN "closed" ELSE @]
    /\ current' = [k \in Connectors |->
                      IF chan[c].session # 0 /\ current[k].id = chan[c].session
                        THEN [current[k] EXCEPT !.state = state] ELSE current[k]]
    /\ UNCHANGED <<now, guardVars, takeovers, auth, lockVars, issued>>

\* The sweeper finds the session silent, it reports that it drains, or a heartbeat
\* revives it.
Move(k, from, to) ==
    /\ current[k].state = from
    /\ current' = [current EXCEPT ![k].state = to]
    /\ UNCHANGED <<now, chan, guardVars, takeovers, unauth, auth, lockVars, issued>>

Tick ==
    /\ now < MaxTime
    /\ now' = now + 1
    /\ UNCHANGED <<chan, guardVars, takeovers, unauth, auth, lockVars, current, issued>>

Moves == {<<"ACTIVE", "STALE">>, <<"DRAINING", "STALE">>, <<"ACTIVE", "DRAINING">>,
          <<"STALE", "ACTIVE">>}

Next ==
    \/ \E c \in Channels :
         \/ Reserve(c) \/ Auth(c) \/ Refuse(c) \/ Break(c) \/ Accept(c) \/ Wait(c) \/ Acquire(c)
         \/ Decide(c) \/ Commit(c) \/ Confirm(c) \/ Unlock(c) \/ Forget(c) \/ Succeed(c) \/ Release(c)
         \/ \E k \in Connectors : Hello(c, k)
         \/ \E state \in {"FAILED", "CLOSED"} : End(c, state)
    \/ \E k \in Connectors, move \in Moves : Move(k, move[1], move[2])
    \/ Tick

Spec == Init /\ [][Next]_vars

TypeOK ==
    /\ now \in Nat
    /\ chan \in [Channels -> ChannelType]
    /\ takeovers \in [Connectors -> SUBSET [session : Nat, at : Nat]]
    /\ \A k \in Connectors : IsFiniteSet(takeovers[k])
    /\ unauth \in Nat /\ auth \in Nat
    /\ lockOf \in [Connectors -> Channels \cup {NoChannel}]
    /\ refs \in [Connectors -> [Channels -> Int]]
    /\ holder \in [Connectors -> [Channels -> Channels \cup {NoChannel}]]
    /\ current \in [Connectors -> [id : Nat, epoch : Nat,
                                   state : {"NONE", "ACTIVE", "DRAINING", "STALE", "FAILED", "CLOSED"}]]
    /\ issued \in Nat

-----------------------------------------------------------------------------
\* A connector is taken over no more often in the window that is remembered than the
\* limit allows, whoever raced to check and to record: the coordinator's lock covers
\* both, and those who wait for it keep it in the map.
TakeoversBounded == \A k \in Connectors : Cardinality(takeovers[k]) <= TakeoverLimit

\* Each budget is what the channels hold of it: none is lost by a channel that fails,
\* and none is given back twice by one that authenticated and then ended, possibly
\* after it authenticated again.
BudgetExact ==
    /\ unauth = Cardinality({c \in Channels : chan[c].reserved})
    /\ auth = Cardinality({c \in Channels : chan[c].pc \notin {"new", "ready", "over"}})

\* What the guards count is what happened: the takeovers of a connector, and the channels
\* that hold a place.
GuardsCount == TakeoversBounded /\ BudgetExact
=============================================================================
