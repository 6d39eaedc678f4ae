------------------------------ MODULE DirectProxy ------------------------------
\* A request for an external service (directproxy/executor.go, endpoint_cache.go):
\* it finds endpoints in the cache or by discovery, dials them in order, relays and
\* closes. The discovery provider, the endpoints and the relay are external: each
\* call of them may fail.
EXTENDS Integers

CONSTANTS
    Requests,                \* the goroutines that serve requests, one after the other
    Targets, TargetOf,       \* the target, which is the key of the cache, of each
    Fresh, Stale,            \* the TTLs of a record of the cache
    Width,                   \* endpoints in an answer of the discovery
    MaxTime, MaxCalls,       \* bounds: clock ticks, requests begun
    None

VARIABLES
    now, calls,
    record,      \* EndpointCache.records: None or the time of the put, of each target
    request      \* of each request: see Idle

vars == <<now, calls, record, request>>

\* at: the clock as Get read it; from: the put of the record in use, None for
\* endpoints this request discovered; left: the endpoints not yet dialled.
Idle == [pc |-> "idle", at |-> 0, from |-> None, refused |-> FALSE, left |-> 0]

Init ==
    /\ now = 0 /\ calls = 0
    /\ record = [k \in Targets |-> None]
    /\ request = [r \in Requests |-> Idle]

Step(r, q) == request' = [request EXCEPT ![r] = q]

-----------------------------------------------------------------------------
\* The endpoint cache and the executor.

\* What a request still knows once it is over.
Over == [Idle EXCEPT !.pc = "done"]

Begin(r) ==
    /\ request[r].pc \in {"idle", "done"}
    /\ calls < MaxCalls
    /\ calls' = calls + 1
    /\ Step(r, [Idle EXCEPT !.pc = "get"])
    /\ UNCHANGED <<now, record>>

Age(r, put) == request[r].at - put

\* The lookup as Get hands it out: fresh, or stale and worth a refresh first.
Hit(r, put, at) ==
    [request[r] EXCEPT !.at = at, !.from = put, !.left = Width,
                       !.pc = IF at - put > Fresh THEN "refresh" ELSE "dial"]
Miss(r, at) == [request[r] EXCEPT !.at = at, !.pc = "discover"]

Get(r) ==
    LET put == record[TargetOf[r]] IN
    /\ request[r].pc = "get"
    /\ Step(r, IF put = None THEN Miss(r, now)
               ELSE IF now - put > Fresh + Stale THEN [request[r] EXCEPT !.at = now, !.pc = "recheck"]
               ELSE Hit(r, put, now))
    /\ UNCHANGED <<now, calls, record>>

\* (A mutant: what Get saw expired is deleted without another look.)
RecheckBlind(r) ==
    /\ request[r].pc = "recheck"
    /\ record' = [record EXCEPT ![TargetOf[r]] = None]
    /\ Step(r, Miss(r, request[r].at))
    /\ UNCHANGED <<now, calls>>

\* recheckOrEvictExpired, under the write lock and with the clock Get has read.
Recheck(r) ==
    LET put  == record[TargetOf[r]]
        gone == put # None /\ Age(r, put) > Fresh + Stale
    IN
    /\ request[r].pc = "recheck"
    /\ record' = [record EXCEPT ![TargetOf[r]] = IF gone THEN None ELSE @]
    /\ Step(r, IF put = None \/ gone THEN Miss(r, request[r].at) ELSE Hit(r, put, request[r].at))
    /\ UNCHANGED <<now, calls>>

\* A refresh that fails leaves the stale endpoints in use.
Discover(r) ==
    /\ \/ /\ request[r].pc \in {"discover", "refresh"}
          /\ Step(r, [request[r] EXCEPT !.pc = "put"])
       \/ request[r].pc = "discover" /\ Step(r, Over)
       \/ /\ request[r].pc = "refresh"
          /\ Step(r, [request[r] EXCEPT !.pc = "dial", !.refused = TRUE])
    /\ UNCHANGED <<now, calls, record>>

Put(r) ==
    /\ request[r].pc = "put"
    /\ record' = [record EXCEPT ![TargetOf[r]] = now]
    /\ Step(r, [request[r] EXCEPT !.pc = "dial", !.from = None, !.left = Width])
    /\ UNCHANGED <<now, calls>>

Dial(r) ==
    LET q == request[r] IN
    /\ q.pc = "dial"
    /\ \/ Step(r, [q EXCEPT !.pc = "relay"])
       \/ Step(r, IF q.left = 1 THEN Over ELSE [q EXCEPT !.left = @ - 1])
    /\ UNCHANGED <<now, calls, record>>

\* Relay, and the close of the connection that follows it whatever it returned.
Relay(r) ==
    /\ request[r].pc = "relay"
    /\ Step(r, Over)
    /\ UNCHANGED <<now, calls, record>>

Tick ==
    /\ now < MaxTime
    /\ now' = now + 1
    /\ UNCHANGED <<calls, record, request>>

Next ==
    \/ Tick
    \/ \E r \in Requests : \/ Begin(r) \/ Get(r) \/ Recheck(r) \/ Discover(r) \/ Put(r)
                           \/ Dial(r) \/ Relay(r)

Spec == Init /\ [][Next]_vars

-----------------------------------------------------------------------------
\* What leaves the cache is too old to be of use to anyone: the endpoints another
\* request has just put there stay.
RefreshKept ==
    [][\A k \in Targets : record[k] # None /\ record'[k] = None => now - record[k] > Fresh + Stale]_vars
=============================================================================
