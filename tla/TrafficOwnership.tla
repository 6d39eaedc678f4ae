---------------------------- MODULE TrafficOwnership ----------------------------
\* app/traffic_ownership_store.go: whose traffic a traffic is, kept for OwnerTTL in a
\* table of Capacity records. A queue of versioned references says which to evict.
EXTENDS Integers, FiniteSets

CONSTANTS Traffics, Capacity, OwnerTTL, None,
          MaxTime, MaxObserved     \* bounds: clock ticks, observations

VARIABLES
    now,
    owner,       \* entries: None or [at, version]
    queue,       \* its references, <<traffic, version>>, each behind those of lower versions
    sequence,    \* the counter of versions
    seen         \* history: the last observation of each traffic, None or [at, version]

vars == <<now, owner, queue, sequence, seen>>

Init ==
    /\ now = 0
    /\ owner = [t \in Traffics |-> None]
    /\ queue = {} /\ sequence = 0
    /\ seen = [t \in Traffics |-> None]

Expired(e) == now >= e.at + OwnerTTL

Stored(o) == {t \in Traffics : o[t] # None}

\* (A mutant: a reference of the queue counts whatever its version.)
NamesAny(o, item) == o[item[1]] # None

\* A reference of the queue to the record as it is now.
Names(o, item) == o[item[1]] # None /\ o[item[1]].version = item[2]

\* The records, after the references up to a version have been taken off the queue: those
\* that one of them names are gone.
After(o, q, v) ==
    [t \in Traffics |-> IF \E item \in q : item[1] = t /\ item[2] <= v /\ Names(o, item)
                          THEN None ELSE o[t]]

\* evictOverflowLocked: they are taken off until the store fits, or none is left.
Fits(o, q, v) == Cardinality(Stored(After(o, q, v))) <= Capacity \/ \A item \in q : item[2] <= v

Overflow(o, q, last) ==
    CHOOSE v \in 0..last : Fits(o, q, v) /\ \A w \in 0..(v - 1) : ~Fits(o, q, w)

\* compactQueueIfNeededLocked
Compact(o, q) == IF Cardinality(q) > 2 * Capacity THEN {item \in q : Names(o, item)} ELSE q

\* buildTrafficOwnershipRecord, from the route, the service and the session a traffic was
\* given: what the record says of them is left out, but for when it was made.
Record == [at |-> now, version |-> sequence + 1]

\* cleanupExpiredLocked
Clean == [t \in Traffics |-> IF owner[t] # None /\ Expired(owner[t]) THEN None ELSE owner[t]]

\* DispatchRouteLookup notes each traffic once its route is known.
Observe(t) ==
    LET new  == [Clean EXCEPT ![t] = Record]
        all  == queue \cup {<<t, Record.version>>}
        cut  == Overflow(new, all, Record.version)
        kept == After(new, all, cut)
    IN
    /\ sequence < MaxObserved
    /\ sequence' = Record.version
    /\ owner' = kept
    /\ queue' = Compact(kept, {item \in all : item[2] > cut})
    /\ seen' = [seen EXCEPT ![t] = Record]
    /\ UNCHANGED now

\* Load: a query of the administrator; an expired record it meets is removed.
Load(t) ==
    /\ owner[t] # None /\ Expired(owner[t])
    /\ owner' = [owner EXCEPT ![t] = None]
    /\ UNCHANGED <<now, queue, sequence, seen>>

Tick ==
    /\ now < MaxTime
    /\ now' = now + 1
    /\ UNCHANGED <<owner, queue, sequence, seen>>

Next == Tick \/ \E t \in Traffics : Observe(t) \/ Load(t)

Spec == Init /\ [][Next]_vars

-----------------------------------------------------------------------------
\* The store holds at most Capacity records, and among them those of the Capacity
\* traffics observed last: an observation renews the place of its traffic.
Recent(t) == seen[t] # None /\ ~Expired(seen[t])
Later(t)  == {u \in Traffics : Recent(u) /\ seen[u].version > seen[t].version}
LatestOwnersKept ==
    /\ Cardinality(Stored(owner)) <= Capacity
    /\ \A t \in Traffics : Recent(t) /\ Cardinality(Later(t)) < Capacity => owner[t] = seen[t]
=============================================================================
